---------------------------- MODULE RemoteCommand ----------------------------
(***************************************************************************)
(* What one remote command promises its caller (exec_remote in             *)
(* docker_mcp/tools/_ssh_proxy.py): the command starts at most once, and    *)
(* the caller gets exactly one answer.  An ordinary result is only ever    *)
(* given for a command that ended by itself, for one that could not be     *)
(* started, or when the connection or the wrapper was torn down from       *)
(* outside; a command the watchdog killed is a timeout, and a timeout is   *)
(* only ever given once the caller's limit has passed.                     *)
(***************************************************************************)

VARIABLES
  phase,    \* what became of the command itself
  late,     \* the caller's limit has passed
  severed,  \* the connection or the wrapping shell was torn down from outside
  answer    \* what the caller was told

cmdVars == <<phase, late, severed, answer>>

Answers == {"none", "result", "timeout"}

Init ==
  /\ phase = "starting"
  /\ late = FALSE
  /\ severed = FALSE
  /\ answer = "none"

Become(from, to) ==
  /\ phase = from
  /\ phase' = to
  /\ UNCHANGED <<late, severed, answer>>

\* The wrapper could not set the command up (no temp file, no such directory).
Refuse == Become("starting", "refused")
Start  == Become("starting", "running")
Finish == Become("running", "finished")
Kill   == late /\ Become("running", "killed")

LimitPasses == late' = TRUE /\ UNCHANGED <<phase, severed, answer>>
Sever       == severed' = TRUE /\ UNCHANGED <<phase, late, answer>>

Answer(a) ==
  /\ answer = "none"
  /\ a = "result" => phase \in {"refused", "finished"} \/ severed
  /\ a = "timeout" => late
  /\ answer' = a
  /\ UNCHANGED <<phase, late, severed>>

Next ==
  \/ Refuse
  \/ Start
  \/ Finish
  \/ Kill
  \/ LimitPasses
  \/ Sever
  \/ \E a \in Answers \ {"none"} : Answer(a)

Spec == Init /\ [][Next]_cmdVars
==============================================================================
