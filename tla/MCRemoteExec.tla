---------------------------- MODULE MCRemoteExec ----------------------------
(***************************************************************************)
(* RemoteExec under TLC.  The environment's choices that do not interact   *)
(* are not multiplied: a child that outlives the command is paired with    *)
(* the loaded host and a command that dies of SIGTERM.                     *)
(***************************************************************************)
EXTENDS RemoteExec

MCInit == Init /\ (survivor => load = "loaded" /\ ~stubborn)

MCSpec     == MCInit /\ [][Next]_vars
=============================================================================
