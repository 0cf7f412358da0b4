--------------------------- MODULE MCRemoteStaging ---------------------------
(***************************************************************************)
(* RemoteStaging under TLC.  Three slots are one staged tree, one reserved *)
(* path and one download archive: what compose cp uses.                    *)
(***************************************************************************)
EXTENDS RemoteStaging
=============================================================================
