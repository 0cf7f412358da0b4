--------------------------- MODULE SwarmServices ---------------------------
(***************************************************************************)
(* tools/services.py, stack.py, nodes.py and swarm.py: the tools that read *)
(* a swarm object, change its spec and send it back under the version they *)
(* read, and the waits that read a service, its tasks and its nodes one    *)
(* after another while the orchestrator and other callers change them.     *)
(*                                                                         *)
(* One service of a one-service stack, a node object and the swarm object  *)
(* stand for all.  A spec is a record of three fields; a service's are the *)
(* task template, the number of replicas, and all the others.  The daemon  *)
(* and the orchestrator are modelled as the code relies on them: an update *)
(* must carry the current version, clears UpdateStatus and keeps the spec  *)
(* it replaced; the status follows later.                                  *)
(***************************************************************************)
EXTENDS Naturals, FiniteSets

CONSTANTS Callers,    \* concurrent tool calls that change a spec
          Plans,      \* what is asked: records of the service's mode, the
                      \* callers, the edits (tool, field and to) they make,
                      \* whether the service may be removed, and the wait's
                      \* kind and until (None if there is no wait)
          Slots,      \* 1..n: replicas, or the nodes of a global service
          MaxVersion, \* bound: the version an object reaches
          None

ASSUME SlotsAssumption == Slots # {} /\ IsFiniteSet(Slots) /\ Slots = 1..Cardinality(Slots)
ASSUME PlansAssumption == {p.mode : p \in Plans} \subseteq {"replicated", "global"} /\ MaxVersion \in Nat

VARIABLES plan,   \* what is asked in this run
          obj,    \* the swarm's objects: version, spec, previous, update
          task,   \* the service's task in each slot: its template and state
          down,   \* the nodes that are down
          edit,   \* each caller's call of a tool that changes a spec
          wait,   \* a wait: what its reads returned so far, and its answer
          moved   \* the service has changed since the wait's poll began

swarmVars == <<plan, obj, task, down, edit, wait, moved>>

Objects == {"service", "node", "swarm"}
Of == [service_update |-> "service", service_force |-> "service", service_scale |-> "service",
       service_rollback |-> "service", node_update |-> "node", swarm_update |-> "swarm"]
Default == [template |-> 0, replicas |-> 1, other |-> 0]

ASSUME EditsAssumption ==
    \A p \in Plans :
        /\ p.callers \subseteq Callers
        /\ \A e \in p.edits :
              /\ e.tool \in DOMAIN Of /\ e.to \in Nat
              /\ e.tool = "service_scale" => e.field = "replicas"
              /\ e.tool = "service_force" => e.field = "template"
              /\ e.tool # "service_rollback" => e.field \in DOMAIN Default

Service == obj["service"]
NoTask == [template |-> 0, state |-> "none"]
NoCall == [tool |-> None, field |-> None, to |-> 0, step |-> "none", base |-> Default, version |-> 0]
NoWait == [kind |-> None, until |-> None, step |-> "none", expired |-> FALSE, rows |-> FALSE,
           template |-> 0, replicas |-> 0, update |-> "none", wanted |-> {}, current |-> {}, met |-> FALSE,
           timedOut |-> FALSE]

SwarmInit ==
    /\ plan \in Plans
    /\ obj = [o \in Objects |->
                [version |-> 0, spec |-> Default, previous |-> None, update |-> "none", there |-> TRUE]]
    /\ task = [s \in Slots |-> NoTask]
    /\ down = {}
    /\ edit = [c \in Callers |-> NoCall]
    /\ wait = NoWait
    /\ moved = FALSE

----------------------------------------------------------------------------
(* The orchestrator.  Only a wait looks at its work.                       *)

Watched == plan.kind # None

Wanted == IF ~Service.there THEN {}
          ELSE IF plan.mode = "global" THEN Slots ELSE 1..Service.spec.replicas
New == [template |-> Service.spec.template, state |-> "starting"]
Dirty == {s \in Slots : task[s].state # "none" /\ task[s].template # Service.spec.template}

\* A task that changes after a poll has read the tasks overtakes it.
Task(s, t) == task' = [task EXCEPT ![s] = t] /\ moved' = (moved \/ wait.step = "nodes")
Update(u) == obj' = [obj EXCEPT !["service"].update = u]

\* A missing or failed task is made anew; one that is not wanted stops.
Reconcile(s) ==
    /\ Watched
    /\ \/ s \in Wanted /\ task[s].state \in {"none", "failed"} /\ Task(s, New)
       \/ s \notin Wanted /\ task[s].state # "none" /\ Task(s, NoTask)
    /\ UNCHANGED <<plan, obj, down, edit, wait>>

TaskMoves(s) ==
    /\ \/ task[s].state = "starting" /\ s \notin down /\ Task(s, [task[s] EXCEPT !.state = "running"])
       \/ task[s].state \in {"starting", "running"} /\ s \notin down
          /\ Task(s, [task[s] EXCEPT !.state = "failed"])
    /\ UNCHANGED <<plan, obj, down, edit, wait>>

\* The rolling update: noted some time after the request, then one task
\* replaced after another, until all run or it pauses on a failure.
RollingUpdate ==
    /\ \/ Service.update = "none" /\ Dirty # {} /\ Update("updating") /\ UNCHANGED <<task, moved>>
       \/ /\ Service.update = "updating"
          /\ \/ \E s \in Dirty : Task(s, New) /\ UNCHANGED obj
             \/ Dirty = {} /\ (\A s \in Wanted : task[s].state = "running")
                /\ Update("completed") /\ UNCHANGED <<task, moved>>
             \/ (\E s \in Slots : task[s].state = "failed") /\ Update("paused") /\ UNCHANGED <<task, moved>>
    /\ UNCHANGED <<plan, down, edit, wait>>

\* A node goes down or comes back: its task is still said to run.
NodeTurns(s) ==
    /\ Watched /\ (plan.mode = "global" \/ plan.kind = "node")
    /\ down' = IF s \in down THEN down \ {s} ELSE down \cup {s}
    /\ UNCHANGED <<plan, obj, task, edit, wait, moved>>

----------------------------------------------------------------------------
(* The tools that change a spec: fetch, then send.                         *)

Fetch(c, e) ==
    LET o == obj[Of[e.tool]]
    IN /\ edit[c].step = "none" /\ o.there
       /\ e.tool = "service_rollback" => o.previous # None
       /\ edit' = [edit EXCEPT ![c] = [tool |-> e.tool, field |-> e.field, to |-> e.to, step |-> "send",
                                       version |-> o.version,
                                       base |-> IF e.tool = "service_rollback" THEN o.previous ELSE o.spec]]
       /\ UNCHANGED <<plan, obj, task, down, wait, moved>>

\* What each tool makes of the spec it fetched (old) or of the spec docker-py
\* fetches again at the send (now).  service_update sends its fields and the
\* fetched image; node_update and swarm_update lay the change over the spec.
ServiceUpdate(old, field, to) == [[Default EXCEPT !.template = old.template] EXCEPT ![field] = to]
ServiceForce(now, to) == [now EXCEPT !.template = to]
ServiceScale(now, to) == [now EXCEPT !.replicas = to]
NodeUpdate(old, field, to) == [old EXCEPT ![field] = to]
SwarmUpdate(old, field, to) == [old EXCEPT ![field] = to]

Sent(c) ==
    LET old == edit[c].base
        now == obj[Of[edit[c].tool]].spec
        field == edit[c].field
        to == edit[c].to
    IN CASE edit[c].tool = "service_update" -> ServiceUpdate(old, field, to)
         [] edit[c].tool = "service_force" -> ServiceForce(now, to)
         [] edit[c].tool = "service_scale" -> ServiceScale(now, to)
         [] edit[c].tool = "service_rollback" -> old
         [] edit[c].tool = "node_update" -> NodeUpdate(old, field, to)
         [] edit[c].tool = "swarm_update" -> SwarmUpdate(old, field, to)

\* The version the daemon is sent is that of the object that was fetched.
\* Mutant: the version is read again just before the send.
LatestVersion(c) == obj[Of[edit[c].tool]].version
SentVersion(c) == edit[c].version

\* The daemon refuses a version that is not current.
SendUpdate(c) ==
    LET name == Of[edit[c].tool]
        o == obj[name]
    IN /\ edit[c].step = "send" /\ o.version < MaxVersion
       /\ IF o.there /\ SentVersion(c) = o.version
          THEN /\ obj' = [obj EXCEPT ![name] = [o EXCEPT !.version = @ + 1, !.spec = Sent(c),
                                                        !.previous = o.spec, !.update = "none"]]
               /\ moved' = (moved \/ name = "service")
          ELSE UNCHANGED <<obj, moved>>
       /\ edit' = [edit EXCEPT ![c] = NoCall]
       /\ UNCHANGED <<plan, task, down, wait>>

\* stack_remove, service_remove: the service goes, its tasks follow.
StackRemove ==
    /\ plan.removal /\ Service.there
    /\ obj' = [obj EXCEPT !["service"].there = FALSE]
    /\ moved' = TRUE
    /\ UNCHANGED <<plan, task, down, edit, wait>>

\* service_create, stack_deploy: a new service under the name.
ServiceCreate ==
    /\ plan.removal /\ ~Service.there /\ Service.version < MaxVersion
    /\ obj' = [obj EXCEPT !["service"] = [version |-> Service.version + 1, spec |-> Default,
                                          previous |-> None, update |-> "none", there |-> TRUE]]
    /\ moved' = TRUE
    /\ UNCHANGED <<plan, task, down, edit, wait>>

----------------------------------------------------------------------------
(* The waits: the reads of one poll, and what is concluded from them.      *)

Answer(met, timedOut) == wait' = [wait EXCEPT !.step = "done", !.met = met, !.timedOut = timedOut]
Sleep == IF wait.expired THEN Answer(FALSE, TRUE) ELSE wait' = [wait EXCEPT !.step = "service"]

WaitStart ==
    /\ wait.step = "none" /\ Watched
    /\ wait' = [NoWait EXCEPT !.kind = plan.kind, !.until = plan.until,
                              !.step = IF plan.kind = "node" THEN "node" ELSE "service"]
    /\ UNCHANGED <<plan, obj, task, down, edit, moved>>

\* A service, and, in the same document, its spec and UpdateStatus.  A stack
\* reads a list first, whose template it compares the tasks with later.
ReadService ==
    /\ wait.step = "service"
    /\ IF Service.there
       THEN wait' = [wait EXCEPT !.rows = TRUE, !.template = Service.spec.template,
                                 !.replicas = Service.spec.replicas, !.update = Service.update,
                                 !.step = IF wait.until = "removed" THEN "left"
                                          ELSE IF wait.kind = "stack" THEN "summary" ELSE "tasks"]
       ELSE wait' = [wait EXCEPT !.rows = FALSE,
                                 !.step = IF wait.until = "removed" THEN "left"
                                          ELSE IF wait.kind = "stack" THEN "empty" ELSE "raised"]
    /\ moved' = FALSE
    /\ UNCHANGED <<plan, obj, task, down, edit>>

\* The stack's summary of the service reads it again; one gone is left out.
ReadSummary ==
    /\ wait.step = "summary"
    /\ wait' = IF Service.there
               THEN [wait EXCEPT !.replicas = Service.spec.replicas, !.update = Service.update,
                                 !.step = "tasks"]
               ELSE [wait EXCEPT !.step = "empty"]
    /\ UNCHANGED <<plan, obj, task, down, edit, moved>>

\* _runs_current_spec.
\* Mutant: any running task counts.
RunsAnySpec(s) == task[s].state = "running"
RunsCurrentSpec(s) == task[s].state = "running" /\ task[s].template = wait.template
Current == {s \in Slots : RunsCurrentSpec(s)}

\* The verdict on a poll that found these nodes wanted and these tasks current.
Conclude(wanted, current) ==
    LET desired == IF plan.mode = "global" THEN Cardinality(wanted) ELSE wait.replicas
        rolledOut == Cardinality(current) >= desired /\ ~(plan.mode = "global" /\ wanted = {})
        over == \/ wait.until = "running" /\ rolledOut
                \/ wait.until = "update-converged"
                   /\ (wait.update = "completed" \/ (wait.update = "none" /\ rolledOut))
                \/ wait.until = "converged" /\ wait.update \in {"none", "completed"} /\ rolledOut
    IN IF wait.until # "running" /\ wait.update = "paused" THEN Answer(FALSE, FALSE)
       ELSE IF over THEN Answer(TRUE, FALSE) ELSE Sleep

\* A global service is counted by node: the tasks first, then, for a service,
\* the nodes that are down, and, for a stack, the running tasks once more.
ReadTasks ==
    /\ wait.step = "tasks"
    /\ IF plan.mode = "global"
       THEN wait' = [wait EXCEPT !.wanted = {s \in Slots : task[s].state # "none"},
                                 !.current = Current, !.step = "nodes"]
       ELSE Conclude({}, Current)
    /\ UNCHANGED <<plan, obj, task, down, edit, moved>>

ReadNodes ==
    /\ wait.step = "nodes"
    /\ Conclude(wait.wanted, IF wait.kind = "stack" THEN Current ELSE wait.current \ down)
    /\ UNCHANGED <<plan, obj, task, down, edit, moved>>

\* A stack in whose list there was no service, or whose tasks were all it had.
ReadLeft ==
    /\ \/ wait.step = "empty" /\ Answer(FALSE, FALSE)
       \/ /\ wait.step = "left"
          /\ IF ~wait.rows /\ \A s \in Slots : task[s].state \in {"none", "failed"}
             THEN Answer(TRUE, FALSE) ELSE Sleep
    /\ UNCHANGED <<plan, obj, task, down, edit, moved>>

ReadNode ==
    /\ wait.step = "node"
    /\ IF (1 \in down) = (wait.until = "down") THEN Answer(TRUE, FALSE)
       ELSE IF wait.expired THEN Answer(FALSE, TRUE) ELSE UNCHANGED wait
    /\ UNCHANGED <<plan, obj, task, down, edit, moved>>

WaitExpires ==
    /\ wait.step \notin {"none", "done", "raised"} /\ ~wait.expired
    /\ wait' = [wait EXCEPT !.expired = TRUE]
    /\ UNCHANGED <<plan, obj, task, down, edit, moved>>

Waiting ==
    \/ ReadService \/ ReadSummary \/ ReadTasks \/ ReadNodes \/ ReadLeft \/ ReadNode

----------------------------------------------------------------------------

Orchestrator == RollingUpdate \/ \E s \in Slots : Reconcile(s) \/ TaskMoves(s) \/ NodeTurns(s)

SwarmNext ==
    \/ Orchestrator
    \/ \E c \in plan.callers : SendUpdate(c) \/ \E e \in plan.edits : Fetch(c, e)
    \/ StackRemove \/ ServiceCreate
    \/ WaitStart \/ Waiting \/ WaitExpires

SwarmSpec == SwarmInit /\ [][SwarmNext]_swarmVars

----------------------------------------------------------------------------
(* Properties                                                              *)

Merging == {"node_update", "swarm_update", "service_scale", "service_force"}

\* No call undoes what another one did since it looked: a tool that changes one
\* field of a spec leaves every other field as the daemon has it, and a
\* rollback restores the spec that the current one replaced.
NoLostUpdate ==
    [][\A c \in Callers :
          LET o == Of[edit[c].tool]
          IN edit[c].step = "send" /\ edit'[c] = NoCall /\ obj' # obj =>
               /\ edit[c].tool \in Merging =>
                     \A f \in DOMAIN Default \ {edit[c].field} : obj'[o].spec[f] = obj[o].spec[f]
               /\ edit[c].tool = "service_rollback" => obj'[o].spec = obj[o].previous]_swarmVars

Runs(s) == task[s].state = "running" /\ task[s].template = Service.spec.template

\* A wait that says a rollout is over says what is so: when nothing the poll had
\* read was overtaken, as many tasks as the service wants run on its current
\* spec at that moment, one that has not begun or is not yet noted in
\* UpdateStatus included, and a service that is said to be removed has no task
\* left.  (A recorded "completed" is the daemon's word, and taken for it.)
VerdictIsTrue ==
    [][wait.step # "done" /\ wait'.met /\ ~moved /\ wait.kind # "node" =>
          IF wait.until = "removed" THEN ~Service.there /\ \A s \in Slots : task[s].state \in {"none", "failed"}
          ELSE \/ wait.until = "update-converged" /\ wait.update = "completed"
               \/ /\ plan.mode = "replicated"
                  /\ Cardinality({s \in Slots : Runs(s)}) >= Service.spec.replicas
               \/ /\ plan.mode = "global"
                  /\ \E s \in Slots : Runs(s)
                  /\ \A s \in Slots : task[s].state # "none" => Runs(s) /\ (s \in down => wait.kind = "stack")]_swarmVars

============================================================================
