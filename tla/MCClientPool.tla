---------------------------- MODULE MCClientPool ----------------------------
(***************************************************************************)
(* ClientPool under TLC.  Two labels tell "its own host" from "another";   *)
(* two threads are enough for every pair of calls to overlap.              *)
(***************************************************************************)
EXTENDS ClientPool
=============================================================================
