--------------------------- MODULE MCFollowStream ---------------------------
(***************************************************************************)
(* FollowStream under TLC: the limit, or the cap, falls inside a chunk, at *)
(* its end, or is never reached.                                           *)
(***************************************************************************)
EXTENDS FollowStream
=============================================================================
