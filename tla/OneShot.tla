------------------------------ MODULE OneShot ------------------------------
(***************************************************************************)
(* tools/containers.py on the life of one container: container_run, plain  *)
(* or as a one-shot command with a timeout, a wait on the container by     *)
(* another call, and the lifecycle tools.  The container is the daemon's:  *)
(* it writes, exits, is restarted by its policy and removed by the daemon  *)
(* when auto_remove was left to it.                                        *)
(*                                                                         *)
(* Any daemon call of container_run may fail, before or after it had its   *)
(* effect.  Time is abstract: a deadline passes at any moment.             *)
(***************************************************************************)
EXTENDS Naturals

CONSTANTS Requests,   \* what container_run is asked: records of timed, auto
                      \* (auto_remove), restart, image (it is there) and wait,
                      \* what another call waits for: a record of until and
                      \* zero (its timeout), or None
          MaxLines,   \* bound: lines the container writes to a stream
          MaxStarts,  \* bound: times the container is started
          Cap,        \* MAX_PAYLOAD_BYTES, in lines
          Match,      \* the line of stdout that log-match looks for
          None

ASSUME RequestsAssumption == \A r \in Requests : {r.timed, r.auto, r.restart} \subseteq BOOLEAN
ASSUME NoneAssumption == None \notin Nat \cup {"not found"}
ASSUME BoundsAssumption == {MaxLines, Cap, MaxStarts, Match} \subseteq Nat \ {0}

Outputs == {"stdout", "stderr"}
Silent == [s \in Outputs |-> 0]

VARIABLES req,      \* container_run's arguments
          box,      \* the container, as the daemon has it
          run,      \* where container_run is
          told,     \* what container_run has found out or answers
          wait,     \* a wait: where it is, and its answer
          cycle     \* a lifecycle tool, between its operation and its re-read

runVars == <<req, box, run, told, wait, cycle>>

Live == box.state \in {"running", "paused"}
Exists == box.state # "absent"

NoBox == [state |-> "absent", auto |-> FALSE, restart |-> FALSE, health |-> "none",
          out |-> Silent, first |-> Silent,  \* output, and what it was at the first exit
          starts |-> 0, exits |-> 0,
          stopped |-> FALSE, taken |-> FALSE]  \* by a person: stopped, removed
NothingTold == [id |-> FALSE, timedOut |-> FALSE, removed |-> FALSE, error |-> FALSE,
                out |-> [s \in Outputs |-> None]]
NoWait == [until |-> None, step |-> "none", exits |-> 0, expired |-> FALSE, met |-> FALSE,
           timedOut |-> FALSE]
NoCycle == [op |-> None, step |-> "none", auto |-> FALSE, reply |-> None]

RunInit ==
    /\ req \in Requests
    /\ box = NoBox
    /\ run = "check"
    /\ told = NothingTold
    /\ wait = NoWait
    /\ cycle = NoCycle

----------------------------------------------------------------------------
(* The daemon.                                                             *)

Started(b) == [b EXCEPT !.state = "running", !.starts = @ + 1]
Exited(b) == [b EXCEPT !.state = IF b.auto THEN "absent" ELSE "exited",
                       !.exits = @ + 1,
                       !.first = IF b.exits = 0 THEN b.out ELSE @]
Removed(b) == [b EXCEPT !.state = "absent"]

\* The program writes a line, its health check changes, or it exits.
Program ==
    /\ box.state = "running"
    /\ \/ \E s \in Outputs : box.out[s] < MaxLines /\ box' = [box EXCEPT !.out[s] = @ + 1]
       \/ /\ box.health # "none"
          /\ \E h \in {"healthy", "unhealthy"} : box' = [box EXCEPT !.health = h]
       \/ box' = Exited(box)
    /\ UNCHANGED <<req, run, told, wait, cycle>>

PolicyRestarts ==
    /\ box.state = "exited" /\ box.restart /\ ~box.stopped /\ box.starts < MaxStarts
    /\ box' = Started(box)
    /\ UNCHANGED <<req, run, told, wait, cycle>>

----------------------------------------------------------------------------
(* container_run.                                                          *)

RemoveAfter == req.timed /\ req.auto
Goto(step) == run' = step
Raise(named) == Goto("raised") /\ told' = [told EXCEPT !.id = named, !.error = TRUE]

\* What is checked before anything starts: auto_remove, taken off the daemon,
\* still does not go with a restart policy.
Check ==
    /\ run = "check"
    /\ IF RemoveAfter /\ req.restart THEN Raise(FALSE)
       ELSE Goto(IF req.image THEN "create" ELSE "pull") /\ UNCHANGED told
    /\ UNCHANGED <<req, box, wait, cycle>>

AutoRemove == req.auto /\ ~req.timed

\* A missing image is pulled and the create tried again.
Pull ==
    /\ run = "pull"
    /\ \/ Goto("create") /\ UNCHANGED told
       \/ Raise(FALSE)
    /\ UNCHANGED <<req, box, wait, cycle>>

Create ==
    /\ run = "create"
    /\ \/ /\ ~(AutoRemove /\ req.restart)
          /\ \E h \in {"none", "starting"} :
                box' = [box EXCEPT !.state = "created", !.auto = AutoRemove,
                                   !.restart = req.restart, !.health = h]
          /\ run' \in {"start", "lost"}
          /\ UNCHANGED told
       \/ UNCHANGED box /\ Raise(FALSE)
    /\ UNCHANGED <<req, wait, cycle>>

\* A start that fails leaves the container, unless it is to be removed; without
\* a timeout the failure is docker-py's own and names nothing.
Start ==
    /\ run = "start"
    /\ \/ /\ box.state = "created"
          /\ box' = Started(box)
          /\ Goto(IF req.timed THEN "wait" ELSE "reread") /\ UNCHANGED told
       \/ /\ box' \in {box, IF box.state = "created" THEN Started(box) ELSE box}
          /\ IF RemoveAfter THEN Goto("cleanup") /\ UNCHANGED told ELSE Raise(req.timed)
    /\ UNCHANGED <<req, wait, cycle>>

\* Mutant: a clean-up that fails re-raises the start's error.
RaisesStartError == Raise(FALSE)
RaisesBoth == Raise(TRUE)
CleanUp ==
    /\ run = "cleanup"
    /\ \/ box' = Removed(box) /\ Raise(FALSE)
       \/ UNCHANGED box /\ RaisesBoth
    /\ UNCHANGED <<req, wait, cycle>>

\* _reread: what a caller is told of a container that it has acted on.
Reread(auto) == IF Exists THEN "attrs" ELSE IF auto THEN "removed_on_exit" ELSE "not found"

Describe ==
    /\ run = "reread"
    /\ \/ Reread(AutoRemove) # "not found" /\ Goto("done") /\ told' = [told EXCEPT !.id = TRUE]
       \/ Raise(FALSE)
    /\ UNCHANGED <<req, box, wait, cycle>>

\* The daemon's wait ends with the exit, at its bound, or with a failure.
AwaitExit ==
    /\ run = "wait"
    /\ \/ (~Live \/ box.exits > 0) /\ Goto("stdout") /\ UNCHANGED told
       \/ Goto("stdout") /\ told' = [told EXCEPT !.timedOut = TRUE]
       \/ Raise(TRUE)
    /\ UNCHANGED <<req, box, wait, cycle>>

\* _read_capped_output: the stream as it is now, up to the cap.
Capped(n) == IF n < Cap THEN n ELSE Cap
Read(s, next) ==
    /\ run = s
    /\ \/ Exists /\ told' = [told EXCEPT !.out[s] = Capped(box.out[s])]
       \/ told' = [told EXCEPT !.error = TRUE]
    /\ Goto(next)
    /\ UNCHANGED <<req, box, wait, cycle>>

\* Mutant: output that could not be read is removed all the same.
KeepsRunning == told.timedOut
Keeps == told.timedOut \/ \E s \in Outputs : told.out[s] = None

\* The removal is without force, and its answer may be lost.
Finish ==
    /\ run = "remove"
    /\ IF ~RemoveAfter \/ Keeps
       THEN UNCHANGED box /\ told' = [told EXCEPT !.id = TRUE]
       ELSE \/ /\ Exists /\ ~Live
               /\ box' = Removed(box)
               /\ \E lost \in BOOLEAN :
                     told' = [told EXCEPT !.id = TRUE, !.removed = ~lost, !.error = @ \/ lost]
            \/ UNCHANGED box /\ told' = [told EXCEPT !.id = TRUE, !.error = TRUE]
    /\ Goto("done")
    /\ UNCHANGED <<req, wait, cycle>>

ContainerRun ==
    \/ Check \/ Pull \/ Create \/ Start \/ CleanUp \/ Describe \/ AwaitExit
    \/ Read("stdout", "stderr") \/ Read("stderr", "remove") \/ Finish

----------------------------------------------------------------------------
(* system_wait(kind="container").                                          *)

ByDaemon == {"not-running", "next-exit", "removed"}
WaitAnswers(met, timedOut) ==
    wait' = [wait EXCEPT !.step = "done", !.met = met, !.timedOut = timedOut]
GoneAnswer == wait' = [wait EXCEPT !.step = "raised"]

\* A zero timeout asks the daemon nothing: the fetched state is the answer.
WaitStart ==
    LET now == req.wait.until = "not-running" /\ box.state # "running"
        atOnce == req.wait.until \in ByDaemon /\ req.wait.zero
    IN /\ wait.step = "none" /\ req.wait # None /\ Exists
       /\ wait' = [wait EXCEPT
             !.until = req.wait.until, !.exits = box.exits, !.expired = req.wait.zero,
             !.step = IF req.wait.until = "healthy" THEN "health"
                      ELSE IF req.wait.until = "log-match" THEN "logs"
                      ELSE IF atOnce THEN "done" ELSE "daemon",
             !.met = atOnce /\ now, !.timedOut = atOnce /\ ~now]
       /\ UNCHANGED <<req, box, run, told, cycle>>

DaemonMet ==
    \/ wait.until = "removed" /\ ~Exists
    \/ wait.until = "not-running" /\ ~Live
    \/ wait.until \in {"not-running", "next-exit"} /\ box.exits > wait.exits

WaitDaemon ==
    /\ wait.step = "daemon"
    /\ \/ DaemonMet /\ WaitAnswers(TRUE, FALSE)
       \/ wait.expired /\ WaitAnswers(FALSE, TRUE)
    /\ UNCHANGED <<req, box, run, told, cycle>>

\* The deadline is looked at after each reading, and the sleep is cut to it.
\* Mutant: only a condition ends the polling.
NeverLate(again) == wait' = [wait EXCEPT !.step = again]
Sleep(again) ==
    IF wait.expired THEN WaitAnswers(FALSE, TRUE) ELSE wait' = [wait EXCEPT !.step = again]

WaitHealth ==
    /\ wait.step = "health"
    /\ IF ~Exists THEN GoneAnswer
       ELSE IF box.health = "healthy" THEN WaitAnswers(TRUE, FALSE)
       ELSE IF \/ box.health = "unhealthy" \/ box.state = "exited"
               \/ box.health = "none" /\ box.state = "running"
       THEN WaitAnswers(FALSE, FALSE)
       ELSE Sleep("health")
    /\ UNCHANGED <<req, box, run, told, cycle>>

WaitLogs ==
    /\ wait.step = "logs"
    /\ IF ~Exists THEN GoneAnswer
       ELSE IF box.out.stdout >= Match THEN WaitAnswers(TRUE, FALSE)
       ELSE wait' = [wait EXCEPT !.step = "status"]
    /\ UNCHANGED <<req, box, run, told, cycle>>

WaitStatus ==
    /\ wait.step = "status"
    /\ IF ~Exists THEN GoneAnswer
       ELSE IF box.state = "exited" THEN WaitAnswers(FALSE, FALSE)
       ELSE Sleep("logs")
    /\ UNCHANGED <<req, box, run, told, cycle>>

Expire ==
    /\ wait.step \notin {"none", "done", "raised"} /\ ~wait.expired
    /\ wait' = [wait EXCEPT !.expired = TRUE]
    /\ UNCHANGED <<req, box, run, told, cycle>>

Waiting == WaitDaemon \/ WaitHealth \/ WaitLogs \/ WaitStatus

----------------------------------------------------------------------------
(* The lifecycle tools: the container is fetched and acted on, then read   *)
(* again.                                                                  *)

Act(op, enabled, effect, step) ==
    /\ cycle.step = "none" /\ Exists /\ enabled
    /\ box' = effect
    /\ cycle' = [op |-> op, step |-> step, auto |-> box.auto, reply |-> None]
    /\ UNCHANGED <<req, run, told, wait>>

StopBox == [box EXCEPT !.stopped = TRUE]

ContainerStart ==
    Act("start", box.state \in {"created", "exited"} /\ box.starts < MaxStarts, Started(box),
        "reread")
ContainerStop == Act("stop", Live, Exited(StopBox), "reread")
ContainerKill == Act("kill", Live, Exited(StopBox), "reread")
ContainerRestart ==
    Act("restart", Live /\ ~box.auto /\ box.starts < MaxStarts, Started(Exited(box)), "reread")
ContainerPause == Act("pause", box.state = "running", [box EXCEPT !.state = "paused"], "reload")
ContainerUnpause == Act("unpause", box.state = "paused", [box EXCEPT !.state = "running"], "reload")
ContainerRemove ==
    \E force \in BOOLEAN :
        Act("remove", Live => force,
            [IF Live THEN Exited(box) ELSE box EXCEPT !.state = "absent", !.taken = TRUE], "none")

\* container_pause and container_unpause reload without _reread's allowance.
CycleReread ==
    /\ cycle.step \in {"reread", "reload"}
    /\ cycle' = [cycle EXCEPT !.step = "none",
                    !.reply = IF cycle.step = "reread" THEN Reread(cycle.auto)
                              ELSE IF Exists THEN "attrs" ELSE "not found"]
    /\ UNCHANGED <<req, box, run, told, wait>>

Lifecycle ==
    \/ ContainerStart \/ ContainerStop \/ ContainerKill \/ ContainerRestart \/ ContainerPause
    \/ ContainerUnpause \/ ContainerRemove

----------------------------------------------------------------------------

RunNext ==
    \/ Program \/ PolicyRestarts
    \/ ContainerRun
    \/ WaitStart \/ Waiting \/ Expire
    \/ Lifecycle \/ CycleReread

\* The daemon answers what a poll asks it, and time passes.
RunSpec == RunInit /\ [][RunNext]_runVars /\ WF_runVars(Waiting) /\ WF_runVars(Expire)

----------------------------------------------------------------------------
(* Properties                                                              *)

\* A one-shot command's output is not destroyed unread: when the call returns
\* and the container is gone, and no one else removed it, both streams hold
\* what the command had written when it exited, up to the cap, whichever reads
\* failed and whoever started it again meanwhile.
OutputSurvives ==
    req.timed /\ run = "done" /\ ~Exists /\ ~box.taken =>
        \A s \in Outputs : told.out[s] # None /\ told.out[s] >= Capped(box.first[s])

\* What the tools report of a container is so.  A timed call names to the caller
\* one it leaves behind, unless the create's own answer was lost; its "removed" is
\* true; and a removal that was asked for and did not happen is an error or a
\* timeout.  A tool that started, stopped or signalled a container never reports
\* it as missing because the daemon removed it in the meantime: someone else did,
\* or the one-shot call that owns it.
EndIsAccounted ==
    /\ req.timed /\ run \in {"done", "raised"} =>
          /\ Exists => told.id
          /\ told.removed => ~Exists
          /\ req.auto /\ run = "done" => told.removed \/ told.timedOut \/ told.error
    /\ cycle.reply = "not found" /\ cycle.op \in {"start", "stop", "kill", "restart"} =>
          box.taken \/ RemoveAfter

\* A wait answers by its timeout: its poll loops end whatever the container
\* does.
WaitsEnd == wait.step # "none" ~> wait.step \in {"done", "raised"}

\* What the poll says when the container has stopped: the line that was looked
\* for never came.
StoppedWithoutMatch ==
    [][wait.step = "status" /\ wait'.step = "done" /\ ~wait'.met /\ ~wait'.timedOut =>
          box.out.stdout < Match]_runVars
============================================================================
