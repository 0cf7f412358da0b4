------------------------------ MODULE ClientPool ------------------------------
(***************************************************************************)
(* The pool of docker-py clients, one per configured host label, in        *)
(* docker_mcp/tools/system.py: `_clients` and `_client_lock`.  Tool calls  *)
(* run concurrently in a worker threadpool; each takes its client from     *)
(* _get_client and goes on using it after the lock is released, while      *)
(* system_close and system_reconnect discard clients.                      *)
(***************************************************************************)
EXTENDS Integers, FiniteSets

CONSTANTS
  Threads,     \* worker threads
  Labels,      \* configured host labels
  MaxClients,  \* bound: clients built in one behaviour
  None         \* no client, no thread

ASSUME PoolAssumption ==
  /\ MaxClients \in Nat
  /\ None \notin Threads
  /\ None \notin Nat

Clients == 1 .. MaxClients

VARIABLES
  pool,     \* _clients: label -> client, or None
  lock,     \* who holds _client_lock
  built,    \* clients built so far; the last one is client `built`
  madeFor,  \* the label each client was built for
  open,     \* clients whose connection is open
  pc,       \* where each thread is
  label,    \* the label its call resolved to
  mine,     \* the client its call works with: the one in use, or the rebuilt one
  old       \* the client system_reconnect swapped out

poolVars == <<pool, lock, built, madeFor, open, pc, label, mine, old>>

Places == {"idle", "get", "building", "using", "rebuild", "validating",
           "swap", "discard", "close"}

PoolTypeOK ==
  /\ pool \in [Labels -> Clients \cup {None}]
  /\ lock \in Threads \cup {None}
  /\ built \in 0 .. MaxClients
  /\ madeFor \in [Clients -> Labels \cup {None}]
  /\ open \subseteq Clients
  /\ pc \in [Threads -> Places]
  /\ label \in [Threads -> Labels \cup {None}]
  /\ mine \in [Threads -> Clients \cup {None}]
  /\ old \in [Threads -> Clients \cup {None}]

PoolInit ==
  /\ pool = [l \in Labels |-> None]
  /\ lock = None
  /\ built = 0
  /\ madeFor = [c \in Clients |-> None]
  /\ open = {}
  /\ pc = [t \in Threads |-> "idle"]
  /\ label = [t \in Threads |-> None]
  /\ mine = [t \in Threads |-> None]
  /\ old = [t \in Threads |-> None]

Moves(t, from, to) == pc[t] = from /\ pc' = [pc EXCEPT ![t] = to]

\* The call is over, with a result or an error.
Leaves(t, from) ==
  /\ Moves(t, from, "idle")
  /\ label' = [label EXCEPT ![t] = None]
  /\ mine' = [mine EXCEPT ![t] = None]
  /\ old' = [old EXCEPT ![t] = None]

Unlocked == lock = None

------------------------------------------------------------------------------
(* A call begins: a tool that needs a client, system_reconnect, or         *)
(* system_close for one label or (None) for every one.                     *)

Begin(t, to, l) ==
  /\ Moves(t, "idle", to)
  /\ label' = [label EXCEPT ![t] = l]
  /\ UNCHANGED <<pool, lock, built, madeFor, open, mine, old>>

CallTool(t)       == \E l \in Labels : Begin(t, "get", l)
CallReconnect(t)  == \E l \in Labels : Begin(t, "rebuild", l)
CallClose(t)      == \E l \in Labels \cup {None} : Begin(t, "close", l)

------------------------------------------------------------------------------
(* _get_client, and the tool that uses what it returned.                   *)

GetHit(t) ==
  /\ Moves(t, "get", "using")
  /\ Unlocked /\ pool[label[t]] # None
  /\ mine' = [mine EXCEPT ![t] = pool[label[t]]]
  /\ UNCHANGED <<pool, lock, built, madeFor, open, label, old>>

\* The client is built with the lock held, however long the daemon takes.
GetMiss(t) ==
  /\ Moves(t, "get", "building")
  /\ Unlocked /\ pool[label[t]] = None
  /\ lock' = t
  /\ UNCHANGED <<pool, built, madeFor, open, label, mine, old>>

\* _build_client: a new open client for the thread's label.
Build(t) ==
  /\ built < MaxClients
  /\ built' = built + 1
  /\ madeFor' = [madeFor EXCEPT ![built + 1] = label[t]]
  /\ open' = open \cup {built + 1}
  /\ mine' = [mine EXCEPT ![t] = built + 1]

BuildSucceeds(t) ==
  /\ Moves(t, "building", "using")
  /\ Build(t)
  /\ pool' = [pool EXCEPT ![label[t]] = built + 1]
  /\ lock' = None
  /\ UNCHANGED <<label, old>>

\* Mutant: acquire() without a `with`, so the error leaves the lock held.
BuildFailsHoldingLock(t) ==
  /\ Leaves(t, "building")
  /\ UNCHANGED <<pool, lock, built, madeFor, open>>

\* RemoteFailureError; `with` releases the lock on the way out.
BuildFails(t) ==
  /\ Leaves(t, "building")
  /\ lock' = None
  /\ UNCHANGED <<pool, built, madeFor, open>>

ToolReturns(t) ==
  /\ Leaves(t, "using")
  /\ UNCHANGED <<pool, lock, built, madeFor, open>>

------------------------------------------------------------------------------
(* system_reconnect.                                                       *)

RebuildSucceeds(t) ==
  /\ Moves(t, "rebuild", "validating")
  /\ Build(t)
  /\ UNCHANGED <<pool, lock, label, old>>

\* Mutant: the old client is dropped before the new one is built.
RebuildFailsAfterDrop(t) ==
  /\ Leaves(t, "rebuild")
  /\ pool' = [pool EXCEPT ![label[t]] = None]
  /\ open' = open \ {pool[label[t]]}
  /\ UNCHANGED <<lock, built, madeFor>>

RebuildFails(t) ==
  /\ Leaves(t, "rebuild")
  /\ UNCHANGED <<pool, lock, built, madeFor, open>>

VersionAnswers(t) ==
  /\ Moves(t, "validating", "swap")
  /\ UNCHANGED <<pool, lock, built, madeFor, open, label, mine, old>>

VersionFails(t) ==
  /\ Leaves(t, "validating")
  /\ open' = open \ {mine[t]}
  /\ UNCHANGED <<pool, lock, built, madeFor>>

\* Mutant: `_clients.setdefault(label, new_client)`.
SwapSetsDefault(t) ==
  /\ Moves(t, "swap", "discard")
  /\ Unlocked
  /\ old' = [old EXCEPT ![t] = pool[label[t]]]
  /\ pool' = [pool EXCEPT ![label[t]] = IF @ = None THEN mine[t] ELSE @]
  /\ UNCHANGED <<lock, built, madeFor, open, label, mine>>

Swap(t) ==
  /\ Moves(t, "swap", "discard")
  /\ Unlocked
  /\ old' = [old EXCEPT ![t] = pool[label[t]]]
  /\ pool' = [pool EXCEPT ![label[t]] = mine[t]]
  /\ UNCHANGED <<lock, built, madeFor, open, label, mine>>

Discard(t) ==
  /\ Leaves(t, "discard")
  /\ open' = open \ {old[t]}
  /\ UNCHANGED <<pool, lock, built, madeFor>>

------------------------------------------------------------------------------
(* system_close: pop and close under the lock.                             *)

Closing(t) == IF label[t] = None THEN Labels ELSE {label[t]}

\* Mutant: `_clients.get` where the code has `_clients.pop`.
CloseKeepsEntry(t) ==
  /\ Leaves(t, "close")
  /\ Unlocked
  /\ open' = open \ {pool[l] : l \in Closing(t)}
  /\ UNCHANGED <<pool, lock, built, madeFor>>

Close(t) ==
  /\ Leaves(t, "close")
  /\ Unlocked
  /\ open' = open \ {pool[l] : l \in Closing(t)}
  /\ pool' = [l \in Labels |-> IF l \in Closing(t) THEN None ELSE pool[l]]
  /\ UNCHANGED <<lock, built, madeFor>>

------------------------------------------------------------------------------

Step(t) ==
  \/ GetHit(t) \/ GetMiss(t) \/ BuildSucceeds(t) \/ BuildFails(t)
  \/ ToolReturns(t)
  \/ RebuildSucceeds(t) \/ RebuildFails(t) \/ VersionAnswers(t)
  \/ VersionFails(t) \/ Swap(t) \/ Discard(t)
  \/ Close(t)

PoolNext ==
  \E t \in Threads :
    \/ CallTool(t) \/ CallReconnect(t) \/ CallClose(t)
    \/ Step(t)

PoolSpec == PoolInit /\ [][PoolNext]_poolVars

\* A call in progress runs on: docker-py bounds every request by its timeout.
\* threading.Lock is not fair, so a waiting thread is promised nothing while
\* others keep taking the lock.
PoolFairSpec == PoolSpec /\ \A t \in Threads : WF_poolVars(Step(t))

------------------------------------------------------------------------------
(* Properties.                                                             *)

\* A pooled client is open and was built for its label, so a tool that starts
\* now reaches the host it names.
PoolIsUsable ==
  \A l \in Labels : pool[l] # None => pool[l] \in open /\ madeFor[pool[l]] = l

\* No client is lost: each open one is pooled, is being validated or swapped in
\* by a system_reconnect, or has been swapped out and is about to be closed.
InHand(t) == IF pc[t] \in {"validating", "swap"} THEN {mine[t]} ELSE {old[t]}

NoClientLost ==
  \A c \in open :
    \/ \E l \in Labels : pool[l] = c
    \/ \E t \in Threads : c \in InHand(t)

\* A thread gives back only what it owns: what one system_reconnect is about to
\* install or to close is not pooled and no other call is about to close it.
OwnedOnce ==
  /\ \A t \in Threads, c \in Clients : c \in InHand(t) =>
       /\ \A l \in Labels : pool[l] # c
       /\ \A u \in Threads \ {t} : c \notin InHand(u)

\* A system_reconnect that fails leaves its label's working client in the pool.
FailedReconnectKeepsClient ==
  [][\A t \in Threads :
       pc[t] \in {"rebuild", "validating"} /\ pc'[t] = "idle"
         => pool' = pool /\ \A l \in Labels : pool[l] # None => pool[l] \in open']_poolVars

\* When no more calls arrive, those in progress all return: no way out of a
\* call leaves the lock held.
CallsReturn ==
  <>[][\A t \in Threads : pc[t] = "idle" => pc'[t] = "idle"]_poolVars
    => <>[](\A t \in Threads : pc[t] = "idle")

==============================================================================
