----------------------------- MODULE MCOneShot -----------------------------
(***************************************************************************)
(* OneShot under TLC: timed runs with every combination of auto_remove and *)
(* a restart policy, one plain auto-removed run of an image that must be   *)
(* pulled, and every condition of a wait on a container that restarts.     *)
(***************************************************************************)
EXTENDS OneShot

CONSTANTS none

MCRequest(timed, auto, restart, image, w) ==
    [timed |-> timed, auto |-> auto, restart |-> restart, image |-> image, wait |-> w]
MCWaits == [until : {"not-running", "next-exit", "removed", "healthy", "log-match"}, zero : {FALSE}]
             \cup {[until |-> u, zero |-> TRUE] : u \in {"not-running", "next-exit"}}
MCRequests ==
    {MCRequest(TRUE, auto, restart, TRUE, none) : auto \in BOOLEAN, restart \in BOOLEAN}
      \cup {MCRequest(FALSE, TRUE, FALSE, FALSE, none)}
      \cup {MCRequest(FALSE, FALSE, TRUE, TRUE, w) : w \in MCWaits}
============================================================================
