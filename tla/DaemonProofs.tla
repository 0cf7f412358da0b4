---------------------------- MODULE DaemonProofs ----------------------------
(***************************************************************************)
(* Proofs about what is asked of the daemon.  Of FollowStream: a call that *)
(* returns had a reason to stop reading, nothing is left behind, and no    *)
(* destination ever holds a part of a download, for every limit and size   *)
(* of a chunk.  Of SwarmServices: no call undoes another one's update, and *)
(* a wait's verdict on a rollout or a removal is true, for any callers,    *)
(* plans and slots.                                                        *)
(***************************************************************************)
EXTENDS FollowStream, SwarmServices, FiniteSetTheorems, TLAPS

------------------------------------------------------------------------------
(* The streams.                                                            *)

\* Which steps belong to which mode: only a follow has a timer, only a file is
\* checked, replaced or discarded.
ModeSteps ==
  /\ call \in {"check", "replace", "discard", "refused", "killed"} => mode = "file"
  /\ call \in {"opened", "finally"} => mode = "follow"
  /\ timer # "none" => mode = "follow"
  /\ call \in {"start", "opened"} => timer = "none"

\* A chunk is used up before the next one is taken, and the limit stops the loop;
\* an exception is on its way only behind the loop.
Loop ==
  /\ call \in {"start", "check", "opened", "next", "replace"} => items = 0
  /\ call \in {"start", "check", "opened", "next", "chunk", "replace"} => ~error
  /\ mode = "follow" /\ call \in {"start", "opened", "next", "chunk"} => collected < Limit
  /\ call = "discard" => error
  /\ call = "returned" => ~error

\* The stream is closed on our side by the timer or at the very end.
ClosedByUs ==
  /\ closed => timer = "fired" \/ call \in {"returned", "raised"}
  /\ call \in {"release", "returned", "raised"} => timer # "armed"
  /\ call \in {"returned", "raised"} => (closable => closed)

\* Why the loop may be left without an exception.
Reason ==
  \/ mode = "follow" /\ (collected = Limit \/ timer = "fired")
  \/ remote = "over" /\ unread = 0 /\ items = 0
  \/ remote = "broken" /\ mode \in {"follow", "logs"}
LeftForAReason == call \in {"finally", "release", "returned"} /\ ~error => Reason

\* A temporary file is there only while the download is, and is moved into place
\* only once the stream is over.
Partial ==
  /\ tmp => mode = "file" /\ call \in {"next", "chunk", "replace", "discard", "killed"}
  /\ call = "replace" => remote = "over" /\ unread = 0

IInv == /\ TypeOK /\ ModeSteps /\ Loop /\ ClosedByUs /\ LeftForAReason /\ Partial
        /\ DestinationIsWhole

\* The bounds are positive numbers.
LEMMA Bounds == Limit \in Nat \ {0} /\ MaxItems \in Nat \ {0} /\ MaxChunks \in Nat \ {0}
BY ConstantsAssumption

\* The initial states satisfy the invariant.
LEMMA InitIInv == Init => IInv
<1> SUFFICES ASSUME Init PROVE IInv
  OBVIOUS
<1> USE Bounds DEF Init
<1>1. TypeOK
  <2>1. tmp \in BOOLEAN /\ closed \in BOOLEAN /\ error \in BOOLEAN
    OBVIOUS
  <2>2. mode \in Modes /\ overwrite \in BOOLEAN /\ closable \in BOOLEAN
    OBVIOUS
  <2> QED BY <2>1, <2>2 DEF TypeOK
<1>2. ModeSteps BY DEF Modes, ModeSteps
<1>3. Loop BY DEF Loop
<1>4. ClosedByUs BY DEF ClosedByUs
<1>5. LeftForAReason BY DEF LeftForAReason
<1>6. Partial BY DEF Partial
<1>7. DestinationIsWhole BY DEF DestinationIsWhole
<1> QED BY <1>1, <1>2, <1>3, <1>4, <1>5, <1>6, <1>7 DEF IInv

\* Every step of the daemon and of the timer keeps the invariant: what is over
\* stays over and read to its end, and a timer that has fired stays so.
LEMMA Outside ==
  ASSUME IInv, Send \/ StreamEnds \/ TimerStep \/ Killed \/ OtherWrites
  PROVE  IInv'
<1> USE Bounds
    DEF IInv, TypeOK, Modes, ModeSteps, Loop, ClosedByUs, LeftForAReason, Reason, Partial,
        DestinationIsWhole, fileVars, streamVars
<1>1. CASE Send        BY <1>1 DEF Send
<1>2. CASE StreamEnds  BY <1>2 DEF StreamEnds
<1>3. CASE Expire      BY <1>3 DEF Expire
<1>4. CASE Fire        BY <1>4 DEF Fire
<1>5. CASE Killed      BY <1>5 DEF Killed
<1>6. CASE OtherWrites BY <1>6 DEF OtherWrites
<1> QED BY <1>1, <1>2, <1>3, <1>4, <1>5, <1>6 DEF TimerStep

\* Every step of the tool keeps the invariant.
LEMMA Inside == ASSUME IInv, ToolStep PROVE IInv'
<1> USE Bounds
    DEF IInv, TypeOK, Modes, ModeSteps, Loop, ClosedByUs, LeftForAReason, Reason, Partial,
        DestinationIsWhole, fileVars, streamVars
<1>1.  CASE OpenFollow  BY <1>1 DEF OpenFollow, Opens
<1>2.  CASE OpenJoin    BY <1>2 DEF OpenJoin, Opens
<1>3.  CASE OpenFile    BY <1>3 DEF OpenFile, Opens
<1>4. CASE Check
  <2>1. TypeOK' BY <1>4 DEF Check
  <2>2. ModeSteps' /\ Loop' /\ ClosedByUs' /\ LeftForAReason' /\ Partial' /\ DestinationIsWhole'
    BY <1>4 DEF Check
  <2> QED BY <2>1, <2>2
<1>5.  CASE Arm         BY <1>5 DEF Arm
<1>6.  CASE TakeChunk   BY <1>6 DEF TakeChunk
<1>7. CASE EndOfStream
  <2>1. /\ call = "next" /\ items = 0 /\ ~error /\ error' \in BOOLEAN
        /\ UNCHANGED <<fileVars, closable, streamVars, closed, timer, items, collected>>
    BY <1>7 DEF EndOfStream
  <2>2. /\ mode = "follow" => call' = "finally"
        /\ mode \in {"logs", "archive"} => call' = "release"
        /\ mode = "file" => call' = IF error' THEN "discard" ELSE "replace"
    BY <1>7, <2>1 DEF EndOfStream
  <2>3. ~error' => \/ closed
                   \/ remote = "over" /\ unread = 0
                   \/ remote = "broken" /\ mode \in {"follow", "logs"}
    BY <1>7, <2>1 DEF EndOfStream
  <2>4. TypeOK' BY <2>1, <2>2
  <2>5. ModeSteps' /\ Loop' /\ ClosedByUs' BY <2>1, <2>2
  <2>6. LeftForAReason' /\ Partial' BY <2>1, <2>2, <2>3
  <2>7. DestinationIsWhole' BY <2>1
  <2> QED BY <2>4, <2>5, <2>6, <2>7
<1>8.  CASE Collect     BY <1>8 DEF Collect
<1>9.  CASE NextChunk   BY <1>9 DEF NextChunk
<1>10. CASE JoinBounded
  <2>1. TypeOK'
    <3>1. error' \in BOOLEAN BY <1>10 DEF JoinBounded
    <3>2. collected' \in 0 .. Limit /\ items' \in 0 .. MaxItems BY <1>10 DEF JoinBounded
    <3> QED BY <1>10, <3>1, <3>2 DEF JoinBounded
  <2>2. ModeSteps' /\ Loop' /\ ClosedByUs' /\ LeftForAReason' /\ Partial' /\ DestinationIsWhole'
    BY <1>10 DEF JoinBounded
  <2> QED BY <2>1, <2>2
<1>11. CASE WriteChunk
  <2>1. TypeOK'
    <3>1. error' \in BOOLEAN BY <1>11 DEF WriteChunk
    <3>2. collected' \in 0 .. Limit /\ items' \in 0 .. MaxItems BY <1>11 DEF WriteChunk
    <3> QED BY <1>11, <3>1, <3>2 DEF WriteChunk
  <2>2. ModeSteps' /\ Loop' /\ ClosedByUs' /\ LeftForAReason' /\ Partial' /\ DestinationIsWhole'
    BY <1>11 DEF WriteChunk
  <2> QED BY <2>1, <2>2
<1>12. CASE Replace     BY <1>12 DEF Replace
<1>13. CASE Discard     BY <1>13 DEF Discard
<1>14. CASE CancelTimer BY <1>14 DEF CancelTimer
<1>15. CASE Release     BY <1>15 DEF Release
<1> QED
  BY <1>1, <1>2, <1>3, <1>4, <1>5, <1>6, <1>7, <1>8, <1>9, <1>10, <1>11, <1>12, <1>13,
     <1>14, <1>15
  DEF ToolStep

\* The invariant holds of every behaviour.
LEMMA Invariance == Spec => []IInv
<1>1. IInv /\ [Next]_vars => IInv'
  <2> SUFFICES ASSUME IInv, [Next]_vars PROVE IInv'
    OBVIOUS
  <2>1. CASE Next
    BY <2>1, Outside, Inside DEF Next
  <2>2. CASE UNCHANGED vars
    BY <2>2
    DEF vars, fileVars, streamVars, IInv, TypeOK, Modes, ModeSteps, Loop, ClosedByUs, LeftForAReason,
        Reason, Partial, DestinationIsWhole
  <2> QED
    BY <2>1, <2>2
<1> QED
  BY InitIInv, <1>1, PTL DEF Spec

\* Every variable keeps its type: no joined payload passes its cap, and no follow
\* its limit.
THEOREM TypeCorrect == Spec => []TypeOK
<1>1. IInv => TypeOK
  BY DEF IInv
<1> QED
  BY Invariance, <1>1, PTL

\* join_bounded and stream_to_file never make a part of an archive of the whole, and
\* the follow loop and a log's snapshot stop only at their limit, at the deadline,
\* at the end of the stream or at a lost connection.
THEOREM AlwaysReturnsForAReason == Spec => []ReturnsForAReason
<1>1. IInv => ReturnsForAReason
  BY DEF IInv, TypeOK, Loop, LeftForAReason, Reason, ReturnsForAReason
<1> QED
  BY Invariance, <1>1, PTL

\* Neither the watchdog, nor a stream that can be closed, nor a temporary file is
\* left when the call is over.
THEOREM LeavesNothingBehind == Spec => []NothingLeftBehind
<1>1. IInv => NothingLeftBehind
  BY DEF IInv, ClosedByUs, Partial, NothingLeftBehind
<1> QED
  BY Invariance, <1>1, PTL

\* A part of a download is never at its destination.
THEOREM DestinationStaysWhole == Spec => []DestinationIsWhole
<1>1. IInv => DestinationIsWhole
  BY DEF IInv
<1> QED
  BY Invariance, <1>1, PTL

------------------------------------------------------------------------------
(* The swarm: a call holds, with the version it fetched, the spec of that  *)
(* version.                                                                *)

Fields == {"template", "replicas", "other"}
Specs == [Fields -> Nat]

\* Versions only grow, and specs are specs.
Versioned ==
  /\ plan \in Plans
  /\ obj \in [Objects -> [version : Nat, spec : Specs, previous : Specs \cup {None},
                                update : {"none", "updating", "completed", "paused"},
                                there : BOOLEAN]]

\* A call that has fetched holds, as long as its version is the current one, the
\* spec as it is, or, for a rollback, the one it replaced.
HeldCurrent(c) ==
  LET o == obj[Of[edit[c].tool]]
  IN /\ edit[c].tool \in DOMAIN Of
     /\ edit[c].tool = "service_scale" => edit[c].field = "replicas"
     /\ edit[c].tool = "service_force" => edit[c].field = "template"
     /\ edit[c].tool # "service_rollback" => edit[c].field \in Fields
     /\ edit[c].to \in Nat
     /\ edit[c].version \in Nat /\ edit[c].base \in Specs
     /\ edit[c].version <= o.version
     /\ edit[c].version = o.version =>
          edit[c].base = IF edit[c].tool = "service_rollback" THEN o.previous ELSE o.spec
Fetched ==
  /\ DOMAIN edit = Callers
  /\ \A c \in Callers : edit[c] = NoCall \/ (edit[c].step = "send" /\ HeldCurrent(c))

SwarmInv == Versioned /\ Fetched

LEMMA SpecsAreFields == DOMAIN Default = Fields /\ Default \in Specs
BY DEF Default, Fields, Specs

LEMMA ToolsHaveObjects ==
  \A t \in DOMAIN Of : Of[t] \in Objects
BY DEF Of, Objects

LEMMA InitSwarmInv == SwarmInit => SwarmInv
<1> SUFFICES ASSUME SwarmInit PROVE SwarmInv
  OBVIOUS
<1>1. Versioned
  BY SpecsAreFields DEF SwarmInit, Versioned
<1>2. Fetched
  BY DEF SwarmInit, Fetched
<1> QED BY <1>1, <1>2 DEF SwarmInv

LEMMA Overlaid ==
  ASSUME NEW old \in Specs, NEW f \in Fields, NEW n \in Nat
  PROVE  /\ [old EXCEPT ![f] = n] \in Specs
         /\ \A g \in Fields \ {f} : [old EXCEPT ![f] = n][g] = old[g]
BY DEF Specs

LEMMA UpdatesAreSpecs ==
  ASSUME NEW old \in Specs, NEW f \in Fields, NEW n \in Nat
  PROVE  ServiceUpdate(old, f, n) \in Specs
<1> DEFINE d == [Default EXCEPT !.template = old.template]
<1>1. d \in Specs
  BY SpecsAreFields DEF Specs, Fields
<1> HIDE DEF d
<1>2. [d EXCEPT ![f] = n] \in Specs
  BY <1>1, Overlaid
<1> QED BY <1>2 DEF d, ServiceUpdate

\* What is sent is a spec, and of a tool that changes one field it is the spec
\* the daemon has but for that field.
LEMMA SentSpec ==
  ASSUME SwarmInv, NEW c \in Callers, edit[c].step = "send"
  PROVE  LET o == obj[Of[edit[c].tool]]
         IN /\ Of[edit[c].tool] \in Objects
            /\ Sent(c) \in Specs
            /\ SentVersion(c) = o.version =>
                 /\ edit[c].tool \in Merging =>
                      \A f \in Fields \ {edit[c].field} : Sent(c)[f] = o.spec[f]
                 /\ edit[c].tool = "service_rollback" => Sent(c) = o.previous
<1> DEFINE o == obj[Of[edit[c].tool]]
           tool == edit[c].tool
           field == edit[c].field
           to == edit[c].to
           base == edit[c].base
<1>1. HeldCurrent(c)
  BY DEF SwarmInv, Fetched, NoCall
<1>2. Of[tool] \in Objects
  BY <1>1, ToolsHaveObjects DEF HeldCurrent
<1>3. o.spec \in Specs /\ base \in Specs /\ to \in Nat
  BY <1>1, <1>2 DEF HeldCurrent, SwarmInv, Versioned
<1>4. tool \in {"service_update", "service_force", "service_scale", "service_rollback",
               "node_update", "swarm_update"}
  BY <1>1 DEF HeldCurrent, Of
<1>6. CASE tool = "service_update"
  <2>1. Sent(c) = ServiceUpdate(base, field, to)
    BY <1>6 DEF Sent
  <2>2. field \in Fields
    BY <1>1, <1>6 DEF HeldCurrent
  <2>3. Sent(c) \in Specs
    BY <1>3, <2>1, <2>2, UpdatesAreSpecs
  <2> QED BY <1>2, <1>6, <2>3 DEF Merging
<1>7. CASE tool = "service_force" \/ tool = "service_scale"
  <2>1. Sent(c) = [o.spec EXCEPT ![field] = to]
    BY <1>1, <1>7 DEF Sent, ServiceForce, ServiceScale, HeldCurrent
  <2>2. field \in Fields
    BY <1>1, <1>7 DEF HeldCurrent
  <2> QED BY <1>2, <1>3, <1>7, <2>1, <2>2, Overlaid
<1>8. CASE tool = "service_rollback"
  <2>1. Sent(c) = base
    BY <1>8 DEF Sent
  <2> QED BY <1>1, <1>2, <1>3, <1>8, <2>1 DEF Merging, SentVersion, HeldCurrent
<1>9. CASE tool = "node_update" \/ tool = "swarm_update"
  <2>1. Sent(c) = [base EXCEPT ![field] = to]
    BY <1>9 DEF Sent, NodeUpdate, SwarmUpdate
  <2>2. field \in Fields
    BY <1>1, <1>9 DEF HeldCurrent
  <2>3. SentVersion(c) = o.version => base = o.spec
    BY <1>1, <1>9 DEF HeldCurrent, SentVersion
  <2>4. Sent(c) \in Specs /\ \A g \in Fields \ {field} : Sent(c)[g] = base[g]
    BY <1>3, <2>1, <2>2, Overlaid
  <2> QED BY <1>2, <1>9, <2>3, <2>4
<1> QED BY <1>4, <1>6, <1>7, <1>8, <1>9

\* A send that the daemon takes puts a new version of one object in place.
LEMMA SendPutsVersion ==
  ASSUME SwarmInv, NEW c \in Callers, SendUpdate(c)
  PROVE  LET o == Of[edit[c].tool]
         IN /\ edit[c].step = "send" /\ edit' = [edit EXCEPT ![c] = NoCall]
            /\ UNCHANGED <<plan, task, down, wait>>
            /\ \/ UNCHANGED <<obj, moved>>
               \/ /\ SentVersion(c) = obj[o].version
                  /\ \A u \in Objects \ {o} : obj'[u] = obj[u]
                  /\ DOMAIN obj' = Objects
                  /\ obj'[o] = [version |-> obj[o].version + 1, spec |-> Sent(c),
                                previous |-> obj[o].spec, update |-> "none",
                                there |-> obj[o].there]
                  /\ moved' = (moved \/ o = "service")
<1>1. Of[edit[c].tool] \in Objects
  BY SentSpec DEF SendUpdate
<1>2. obj[Of[edit[c].tool]] \in [version : Nat, spec : Specs, previous : Specs \cup {None},
                                update : {"none", "updating", "completed", "paused"},
                                there : BOOLEAN]
  BY <1>1 DEF SwarmInv, Versioned
<1>3. DOMAIN obj = Objects
  BY DEF SwarmInv, Versioned
<1> QED BY <1>1, <1>2, <1>3 DEF SendUpdate

\* A call keeps what it holds while the daemon's object keeps its version, spec
\* and predecessor, or passes to a later version.
LEMMA CurrentKept ==
  ASSUME Versioned, Fetched, obj' \in [Objects -> [version : Nat, spec : Specs,
                                previous : Specs \cup {None},
                                update : {"none", "updating", "completed", "paused"},
                                there : BOOLEAN]],
         \A o \in Objects :
            \/ obj'[o].version > obj[o].version
            \/ /\ obj'[o].version = obj[o].version /\ obj'[o].spec = obj[o].spec
               /\ obj'[o].previous = obj[o].previous,
         DOMAIN edit' = Callers,
         \A c \in Callers : edit'[c] = edit[c] \/ edit'[c] = NoCall
  PROVE  Fetched'
<1>1. ASSUME NEW c \in Callers, edit'[c] = edit[c], HeldCurrent(c) PROVE HeldCurrent(c)'
  <2> DEFINE o == Of[edit[c].tool]
  <2>1. o \in Objects /\ o = Of[edit'[c].tool]
    BY <1>1, ToolsHaveObjects DEF HeldCurrent
  <2>2. obj[o].version \in Nat /\ obj'[o].version \in Nat
    BY <2>1 DEF Versioned
  <2> HIDE DEF o
  <2>3. /\ edit[c].version \in Nat /\ edit[c].version <= obj[o].version
        /\ edit[c].version = obj[o].version =>
             edit[c].base = IF edit[c].tool = "service_rollback" THEN obj[o].previous
                            ELSE obj[o].spec
    BY <1>1 DEF HeldCurrent, o
  <2>4. /\ edit[c].version <= obj'[o].version
        /\ edit[c].version = obj'[o].version =>
             edit[c].base = IF edit[c].tool = "service_rollback" THEN obj'[o].previous
                            ELSE obj'[o].spec
    BY <2>1, <2>2, <2>3
  <2> QED BY <1>1, <2>1, <2>4 DEF HeldCurrent, o
<1> QED BY <1>1 DEF Fetched

LEMMA SwarmStep ==
  ASSUME SwarmInv, [SwarmNext]_swarmVars
  PROVE  SwarmInv'
<1> DEFINE Object == [version : Nat, spec : Specs, previous : Specs \cup {None},
                      update : {"none", "updating", "completed", "paused"}, there : BOOLEAN]
<1> USE DEF SwarmInv
<1>a. obj \in [Objects -> Object] /\ plan \in Plans /\ DOMAIN edit = Callers
      /\ "service" \in Objects
  BY DEF Versioned, Fetched, Objects
<1>1. ASSUME NEW c \in Callers, SendUpdate(c) PROVE SwarmInv'
  <2> DEFINE o == Of[edit[c].tool]
  <2>1. o \in Objects /\ Sent(c) \in Specs
    BY <1>1, SentSpec DEF SendUpdate
  <2>2. obj[o] \in Object
    BY <1>a, <2>1
  <2>3. /\ edit[c].step = "send" /\ edit' = [edit EXCEPT ![c] = NoCall] /\ plan' = plan
        /\ \/ obj' = obj
           \/ /\ \A u \in Objects \ {o} : obj'[u] = obj[u]
              /\ DOMAIN obj' = Objects /\ obj' = [u \in Objects |-> obj'[u]]
              /\ obj'[o] = [version |-> obj[o].version + 1, spec |-> Sent(c),
                            previous |-> obj[o].spec, update |-> "none",
                            there |-> obj[o].there]
    BY <1>1, <1>a, SendPutsVersion DEF SendUpdate
  <2> HIDE DEF o
  <2>4. obj' \in [Objects -> Object]
    <3>1. CASE obj' = obj BY <1>a, <3>1
    <3>2. CASE obj' # obj
      <4>1. obj'[o] \in Object
        BY <2>1, <2>2, <2>3, <3>2
      <4>2. \A u \in Objects : obj'[u] \in Object
        BY <1>a, <2>3, <3>2, <4>1
      <4> QED BY <2>3, <3>2, <4>2
    <3> QED BY <3>1, <3>2
  <2>5. ASSUME NEW u \in Objects
        PROVE  \/ obj'[u].version > obj[u].version
               \/ /\ obj'[u].version = obj[u].version /\ obj'[u].spec = obj[u].spec
                  /\ obj'[u].previous = obj[u].previous
    BY <2>2, <2>3
  <2>6. DOMAIN edit' = Callers /\ \A d \in Callers : edit'[d] = edit[d] \/ edit'[d] = NoCall
    BY <1>a, <2>3
  <2>7. Fetched'
    BY <2>4, <2>5, <2>6, CurrentKept
  <2> QED BY <1>a, <2>3, <2>4, <2>7 DEF Versioned
<1>2. ASSUME NEW c \in Callers, NEW e \in plan.edits, Fetch(c, e) PROVE SwarmInv'
  <2> DEFINE o == Of[e.tool]
  <2>1. /\ e.tool \in DOMAIN Of /\ e.to \in Nat
        /\ e.tool = "service_scale" => e.field = "replicas"
        /\ e.tool = "service_force" => e.field = "template"
        /\ e.tool # "service_rollback" => e.field \in Fields
    BY <1>a, <1>2, SpecsAreFields, EditsAssumption
  <2>2. o \in Objects /\ obj[o] \in Object
    BY <1>a, <2>1, ToolsHaveObjects
  <2>3. /\ UNCHANGED <<plan, obj>>
        /\ e.tool = "service_rollback" => obj[o].previous # None
        /\ edit' = [edit EXCEPT ![c] =
             [tool |-> e.tool, field |-> e.field, to |-> e.to, step |-> "send",
              version |-> obj[o].version,
              base |-> IF e.tool = "service_rollback" THEN obj[o].previous ELSE obj[o].spec]]
    BY <1>2 DEF Fetch
  <2>4. /\ edit'[c].tool = e.tool /\ edit'[c].field = e.field /\ edit'[c].to = e.to
        /\ edit'[c].step = "send" /\ edit'[c].version = obj[o].version
        /\ edit'[c].base = IF e.tool = "service_rollback" THEN obj[o].previous ELSE obj[o].spec
        /\ \A d \in Callers \ {c} : edit'[d] = edit[d]
        /\ DOMAIN edit' = Callers
    BY <1>a, <2>3
  <2>5. HeldCurrent(c)'
    BY <2>1, <2>2, <2>3, <2>4 DEF HeldCurrent
  <2>6. \A d \in Callers \ {c} : HeldCurrent(d) => HeldCurrent(d)'
    BY <2>3, <2>4 DEF HeldCurrent
  <2>7. Fetched'
    BY <2>4, <2>5, <2>6 DEF Fetched
  <2> QED BY <2>3, <2>7 DEF Versioned
<1>3. ASSUME UNCHANGED <<plan, edit>>,
             \/ obj' = obj
             \/ \E u \in {"updating", "completed", "paused"} : Update(u)
             \/ StackRemove \/ ServiceCreate
      PROVE  SwarmInv'
  <2>1. obj["service"] \in Object
    BY <1>a
  <2>2. \E b \in Object : /\ obj' = [obj EXCEPT !["service"] = b]
                          /\ \/ b.version > obj["service"].version
                             \/ /\ b.version = obj["service"].version
                                /\ b.spec = obj["service"].spec
                                /\ b.previous = obj["service"].previous
    <3>1. CASE obj' = obj
      BY <1>a, <2>1, <3>1
    <3>2. ASSUME NEW u \in {"updating", "completed", "paused"}, Update(u)
          PROVE  obj' = [obj EXCEPT !["service"] = [obj["service"] EXCEPT !.update = u]]
                 /\ [obj["service"] EXCEPT !.update = u] \in Object
      BY <1>a, <2>1, <3>2 DEF Update
    <3>3. CASE StackRemove
      <4>1. obj' = [obj EXCEPT !["service"] = [obj["service"] EXCEPT !.there = FALSE]]
            /\ [obj["service"] EXCEPT !.there = FALSE] \in Object
        BY <1>a, <2>1, <3>3 DEF StackRemove
      <4> QED BY <2>1, <4>1
    <3>4. CASE ServiceCreate
      <4> DEFINE b == [version |-> obj["service"].version + 1, spec |-> Default,
                       previous |-> None, update |-> "none", there |-> TRUE]
      <4>1. obj' = [obj EXCEPT !["service"] = b]
        BY <3>4 DEF ServiceCreate, Service
      <4>2. b \in Object /\ b.version > obj["service"].version
        BY <2>1, SpecsAreFields
      <4> QED BY <4>1, <4>2
    <3> QED BY <1>3, <2>1, <3>1, <3>2, <3>3, <3>4
  <2>3. obj' \in [Objects -> Object]
    BY <1>a, <2>2
  <2>4. ASSUME NEW u \in Objects
        PROVE  \/ obj'[u].version > obj[u].version
               \/ /\ obj'[u].version = obj[u].version /\ obj'[u].spec = obj[u].spec
                  /\ obj'[u].previous = obj[u].previous
    BY <1>a, <2>2
  <2>5. Fetched'
    BY <1>3, <1>a, <2>3, <2>4, CurrentKept
  <2> QED BY <1>3, <1>a, <2>3, <2>5 DEF Versioned
<1>4. CASE Orchestrator
  BY <1>3, <1>4 DEF Orchestrator, RollingUpdate, Reconcile, TaskMoves,
     NodeTurns
<1>5. CASE StackRemove \/ ServiceCreate
  BY <1>3, <1>5 DEF StackRemove, ServiceCreate
<1>6. CASE WaitStart \/ Waiting \/ WaitExpires
  BY <1>3, <1>6 DEF WaitStart, Waiting, WaitExpires, ReadService,
     ReadSummary, ReadTasks, ReadNodes, ReadLeft, ReadNode
<1>7. CASE UNCHANGED swarmVars
  BY <1>3, <1>7 DEF swarmVars
<1>8. plan.callers \subseteq Callers
  BY <1>a, EditsAssumption
<1> QED BY <1>1, <1>2, <1>4, <1>5, <1>6, <1>7, <1>8 DEF SwarmNext

\* No call undoes what another one did since it looked (services.py, nodes.py,
\* swarm.py: what is sent carries the version of what was fetched).
THEOREM NoUpdateIsLost == SwarmSpec => NoLostUpdate
<1> DEFINE Sends == \A c \in Callers :
      LET o == Of[edit[c].tool]
      IN edit[c].step = "send" /\ edit'[c] = NoCall /\ obj' # obj =>
           /\ edit[c].tool \in Merging =>
                 \A f \in DOMAIN Default \ {edit[c].field} :
                    obj'[o].spec[f] = obj[o].spec[f]
           /\ edit[c].tool = "service_rollback" => obj'[o].spec = obj[o].previous
<1>1. SwarmInv /\ [SwarmNext]_swarmVars => Sends
  <2> SUFFICES ASSUME SwarmInv, [SwarmNext]_swarmVars, NEW c \in Callers,
                      edit[c].step = "send", edit'[c] = NoCall, obj' # obj
               PROVE  LET o == Of[edit[c].tool]
                      IN /\ edit[c].tool \in Merging =>
                              \A f \in Fields \ {edit[c].field} :
                                 obj'[o].spec[f] = obj[o].spec[f]
                         /\ edit[c].tool = "service_rollback" => obj'[o].spec = obj[o].previous
    BY SpecsAreFields
  <2>1. edit' # edit
    BY DEF NoCall
  <2>2. PICK d \in Callers : SendUpdate(d)
    <3>1. plan.callers \subseteq Callers
      BY EditsAssumption DEF SwarmInv, Versioned
    <3>2. \A d, e : Fetch(d, e) => obj' = obj
      BY DEF Fetch
    <3> QED BY <2>1, <3>1, <3>2 DEF SwarmNext, swarmVars, Orchestrator,
      RollingUpdate, Reconcile, TaskMoves, NodeTurns,
      StackRemove, ServiceCreate, WaitStart, Waiting, WaitExpires,
      ReadService, ReadSummary, ReadTasks, ReadNodes,
      ReadLeft, ReadNode
  <2>3. d = c
    <3>1. edit' = [edit EXCEPT ![d] = NoCall]
      BY <2>2, SendPutsVersion
    <3> QED BY <3>1 DEF NoCall
  <2>4. LET o == Of[edit[c].tool]
        IN /\ SentVersion(c) = obj[o].version
           /\ obj'[o].spec = Sent(c)
    <3>1. SendUpdate(c)
      BY <2>2, <2>3
    <3> DEFINE o == Of[edit[c].tool]
    <3>2. /\ SentVersion(c) = obj[o].version
          /\ obj'[o] = [version |-> obj[o].version + 1, spec |-> Sent(c),
                        previous |-> obj[o].spec, update |-> "none",
                        there |-> obj[o].there]
      BY <3>1, SendPutsVersion
    <3> QED BY <3>2
  <2> QED BY <2>4, SentSpec
<1>2. SwarmInv /\ [SwarmNext]_swarmVars => SwarmInv'
  BY SwarmStep
<1> QED BY <1>1, <1>2, InitSwarmInv, PTL DEF SwarmSpec, NoLostUpdate

------------------------------------------------------------------------------
(* The waits.                                                              *)

\* What a poll has read is so, as long as nothing overtook it.
Fresh ==
  /\ wait.step \in {"summary", "tasks", "nodes"} =>
       /\ wait.template = Service.spec.template
       /\ wait.replicas = Service.spec.replicas
  /\ wait.step = "nodes" =>
       /\ wait.wanted = {s \in Slots : task[s].state # "none"}
       /\ wait.current = Current
  /\ wait.step = "left" => wait.rows \/ ~Service.there

\* The answer is the last thing a wait writes, and the step tells what it waits for.
Stepwise ==
  /\ DOMAIN wait = DOMAIN NoWait
  /\ wait.met => wait.step = "done"
  /\ wait.step = "node" => wait.kind = "node"
  /\ wait.step \in {"summary", "tasks", "nodes"} => wait.until # "removed"
  /\ wait.step = "left" => wait.until = "removed"
  /\ wait.step = "nodes" => plan.mode = "global"

WaitInv == SwarmInv /\ moved \in BOOLEAN /\ Stepwise /\ (~moved => Fresh)

LEMMA InitWaitInv == SwarmInit => WaitInv
<1> SUFFICES ASSUME SwarmInit PROVE Stepwise /\ Fresh
  BY InitSwarmInv DEF WaitInv, SwarmInit
<1> QED BY DEF SwarmInit, Stepwise, Fresh, NoWait

LEMMA MovedStep ==
  ASSUME moved \in BOOLEAN, [SwarmNext]_swarmVars
  PROVE  moved' \in BOOLEAN
<1>1. CASE Orchestrator
  BY <1>1 DEF Orchestrator, RollingUpdate, Reconcile, TaskMoves,
     NodeTurns, Task
<1>2. CASE \E c \in plan.callers : SendUpdate(c) \/ \E e \in plan.edits : Fetch(c, e)
  BY <1>2 DEF SendUpdate, Fetch
<1>3. CASE StackRemove \/ ServiceCreate
  BY <1>3 DEF StackRemove, ServiceCreate
<1>4. CASE WaitStart \/ Waiting \/ WaitExpires
  BY <1>4 DEF WaitStart, Waiting, WaitExpires, ReadService,
     ReadSummary, ReadTasks, ReadNodes, ReadLeft, ReadNode
<1>5. CASE UNCHANGED swarmVars
  BY <1>5 DEF swarmVars
<1> QED BY <1>1, <1>2, <1>3, <1>4, <1>5 DEF SwarmNext

\* Steps of others leave the wait alone; what they change that a poll has read,
\* they mark.
LEMMA OthersMark ==
  ASSUME SwarmInv, moved \in BOOLEAN,
         \/ Orchestrator
         \/ \E c \in plan.callers : SendUpdate(c) \/ \E e \in plan.edits : Fetch(c, e)
         \/ StackRemove \/ ServiceCreate
         \/ UNCHANGED swarmVars
  PROVE  /\ UNCHANGED <<plan, wait>> /\ (moved => moved')
         /\ \/ moved'
            \/ /\ Service'.spec = Service.spec
               /\ Service'.there = Service.there
               /\ task' = task \/ wait.step # "nodes"
<1> DEFINE Marked == /\ UNCHANGED <<plan, wait>> /\ (moved => moved')
                     /\ \/ moved'
                        \/ /\ Service'.spec = Service.spec
                           /\ Service'.there = Service.there
                           /\ task' = task \/ wait.step # "nodes"
<1>a. /\ "service" \in Objects /\ DOMAIN obj = Objects
      /\ DOMAIN obj["service"] = {"version", "spec", "previous", "update", "there"}
      /\ plan.callers \subseteq Callers
  BY EditsAssumption DEF SwarmInv, Versioned, Objects
<1>1. ASSUME NEW s \in Slots,
             Reconcile(s) \/ TaskMoves(s) \/ NodeTurns(s) PROVE Marked
  <2>1. /\ UNCHANGED <<plan, obj, wait>>
        /\ \/ UNCHANGED <<task, moved>>
           \/ moved' = (moved \/ wait.step = "nodes")
    BY <1>1 DEF Reconcile, TaskMoves, NodeTurns, Task
  <2>2. (moved => moved') /\ (moved' \/ task' = task \/ wait.step # "nodes")
    BY <2>1
  <2> QED BY <2>1, <2>2 DEF Service
<1>2. CASE RollingUpdate
  <2>1. ASSUME NEW u, Update(u)
        PROVE  /\ Service'.spec = Service.spec
               /\ Service'.there = Service.there
    BY <1>a, <2>1 DEF Update, Service
  <2>2. /\ UNCHANGED <<plan, wait>>
        /\ \/ UNCHANGED <<task, moved>> /\ \E u \in {"updating", "completed", "paused"} : Update(u)
           \/ UNCHANGED obj /\ \E s \in Slots, t \in {New} : Task(s, t)
    BY <1>2 DEF RollingUpdate, Dirty
  <2>3. CASE UNCHANGED obj /\ \E s \in Slots, t \in {New} : Task(s, t)
    BY <2>2, <2>3 DEF Task, Service
  <2> QED BY <2>1, <2>2, <2>3
<1>3. ASSUME NEW c \in Callers, SendUpdate(c) PROVE Marked
  <2> DEFINE o == Of[edit[c].tool]
  <2>1. /\ UNCHANGED <<plan, task, wait>>
        /\ \/ UNCHANGED <<obj, moved>>
           \/ /\ \A u \in Objects \ {o} : obj'[u] = obj[u]
              /\ moved' = (moved \/ o = "service")
    BY <1>3, SendPutsVersion
  <2> HIDE DEF o
  <2>2. /\ moved => moved'
        /\ moved' \/ obj' = obj \/ (o # "service" /\ \A u \in Objects \ {o} : obj'[u] = obj[u])
    BY <2>1
  <2>3. moved' \/ obj'["service"] = obj["service"]
    BY <1>a, <2>2
  <2> QED BY <2>1, <2>2, <2>3 DEF Service
<1>4. ASSUME NEW c \in Callers, NEW e \in plan.edits, Fetch(c, e) PROVE Marked
  BY <1>4 DEF Fetch, Service
<1>5. CASE StackRemove \/ ServiceCreate
  BY <1>5 DEF StackRemove, ServiceCreate
<1>6. CASE UNCHANGED swarmVars
  BY <1>6 DEF swarmVars, Service
<1> QED BY <1>a, <1>1, <1>2, <1>3, <1>4, <1>5, <1>6 DEF Orchestrator

\* A poll concludes, sleeps and polls again, or ends; it reads nothing more.
LEMMA ConcludeEnds ==
  ASSUME DOMAIN wait = DOMAIN NoWait, NEW wanted, NEW current,
         Conclude(wanted, current)
  PROVE  /\ DOMAIN wait' = DOMAIN NoWait
         /\ wait'.step \in {"done", "service"}
         /\ wait'.met => wait'.step = "done" \/ wait.met
BY DEF Conclude, Answer, Sleep, NoWait

LEMMA WaitStep ==
  ASSUME WaitInv, [SwarmNext]_swarmVars
  PROVE  WaitInv'
<1> USE DEF WaitInv
<1>a. SwarmInv' /\ moved' \in BOOLEAN
  BY SwarmStep, MovedStep
<1>1. CASE \/ Orchestrator
           \/ \E c \in plan.callers : SendUpdate(c) \/ \E e \in plan.edits : Fetch(c, e)
           \/ StackRemove \/ ServiceCreate
           \/ UNCHANGED swarmVars
  <2>1. /\ UNCHANGED <<plan, wait>> /\ (moved => moved')
        /\ \/ moved'
           \/ /\ Service'.spec = Service.spec
              /\ Service'.there = Service.there
              /\ task' = task \/ wait.step # "nodes"
    BY <1>1, OthersMark
  <2>2. Stepwise'
    BY <2>1 DEF Stepwise
  <2>3. ASSUME ~moved' PROVE Fresh'
    <3>1. /\ Fresh /\ Service'.spec = Service.spec
          /\ Service'.there = Service.there
          /\ wait.step = "nodes" => task' = task
      BY <2>1, <2>3
    <3>2. wait.step = "nodes" => Current' = Current
      BY <2>1, <3>1 DEF Current, RunsCurrentSpec
    <3> QED BY <2>1, <3>1, <3>2 DEF Fresh
  <2> QED BY <1>a, <2>2, <2>3
<1>2. CASE WaitStart
  BY <1>a, <1>2 DEF WaitStart, Stepwise, Fresh, NoWait
<1>3. CASE ReadService
  <2>1. Stepwise'
    BY <1>3 DEF ReadService, Stepwise, NoWait
  <2>2. Fresh'
    BY <1>3 DEF ReadService, Stepwise, Fresh, NoWait, Service
  <2> QED BY <1>a, <2>1, <2>2
<1>4. CASE ReadSummary
  <2>1. Stepwise'
    BY <1>4 DEF ReadSummary, Stepwise, NoWait
  <2>2. moved' = moved /\ (Fresh => Fresh')
    BY <1>4 DEF ReadSummary, Stepwise, Fresh, NoWait, Service
  <2> QED BY <1>a, <2>1, <2>2
<1>5. CASE ReadTasks
  <2>1. CASE plan.mode = "global"
    <3>1. Stepwise'
      BY <1>5, <2>1 DEF ReadTasks, Stepwise, NoWait
    <3>2. /\ UNCHANGED <<obj, task, moved>> /\ wait.step = "tasks" /\ wait'.step = "nodes"
          /\ wait'.template = wait.template /\ wait'.replicas = wait.replicas
          /\ wait'.wanted = {s \in Slots : task[s].state # "none"}
          /\ wait'.current = Current
      BY <1>5, <2>1 DEF ReadTasks, Stepwise, NoWait
    <3>3. Current' = Current
      BY <3>2 DEF Current, RunsCurrentSpec
    <3>4. Fresh => Fresh'
      BY <3>2, <3>3 DEF Fresh, Service
    <3> QED BY <1>a, <3>1, <3>2, <3>4
  <2>2. CASE plan.mode # "global"
    <3>1. /\ Conclude({}, Current) /\ UNCHANGED <<plan, obj, moved>>
          /\ wait.step = "tasks"
      BY <1>5, <2>2 DEF ReadTasks
    <3>2. Stepwise' /\ Fresh'
      BY <3>1, ConcludeEnds DEF Stepwise, Fresh
    <3> QED BY <1>a, <3>2
  <2> QED BY <2>1, <2>2
<1>6. CASE ReadNodes
  <2>1. /\ Conclude(wait.wanted, IF wait.kind = "stack" THEN Current
                                       ELSE wait.current \ down)
        /\ wait.step = "nodes"
    BY <1>6 DEF ReadNodes
  <2>2. Stepwise' /\ Fresh'
    BY <2>1, ConcludeEnds DEF Stepwise, Fresh
  <2> QED BY <1>a, <2>2
<1>7. CASE ReadLeft
  <2>1. /\ wait.step # "done" /\ wait'.step \in {"done", "service"}
        /\ DOMAIN wait' = DOMAIN NoWait
        /\ wait'.met => wait'.step = "done" \/ wait.met
    BY <1>7 DEF ReadLeft, Answer, Sleep, Stepwise, NoWait
  <2>2. Stepwise' /\ Fresh'
    BY <2>1 DEF Stepwise, Fresh
  <2> QED BY <1>a, <2>2
<1>8. CASE ReadNode
  <2>1. /\ Stepwise'
        /\ Fresh'
    BY <1>8 DEF ReadNode, Answer, Stepwise, Fresh, NoWait
  <2> QED BY <1>a, <2>1
<1>9. CASE WaitExpires
  <2>1. Stepwise'
    BY <1>9 DEF WaitExpires, Stepwise, NoWait
  <2>2. moved' = moved /\ (Fresh => Fresh')
    BY <1>9 DEF WaitExpires, Stepwise, Fresh, NoWait, Service,
       Current, RunsCurrentSpec
  <2> QED BY <1>a, <2>1, <2>2
<1> QED BY <1>1, <1>2, <1>3, <1>4, <1>5, <1>6, <1>7, <1>8, <1>9
    DEF SwarmNext, Waiting

\* A poll that concludes the wait is met has seen what its rule asks for.
LEMMA ConcludeMet ==
  ASSUME DOMAIN wait = DOMAIN NoWait, NEW wanted, NEW current,
         Conclude(wanted, current), wait'.met
  PROVE  \/ wait.met
         \/ wait.until = "update-converged" /\ wait.update = "completed"
         \/ /\ Cardinality(current) >=
                  IF plan.mode = "global" THEN Cardinality(wanted) ELSE wait.replicas
            /\ ~(plan.mode = "global" /\ wanted = {})
<1> DEFINE desired == IF plan.mode = "global" THEN Cardinality(wanted) ELSE wait.replicas
           rolledOut == /\ Cardinality(current) >= desired
                        /\ ~(plan.mode = "global" /\ wanted = {})
           over == \/ wait.until = "running" /\ rolledOut
                   \/ /\ wait.until = "update-converged"
                      /\ wait.update = "completed" \/ (wait.update = "none" /\ rolledOut)
                   \/ wait.until = "converged" /\ wait.update \in {"none", "completed"} /\ rolledOut
<1>1. \/ Answer(FALSE, FALSE) \/ Sleep
      \/ over
  BY DEF Conclude
<1> HIDE DEF rolledOut
<1>3. over => \/ rolledOut
              \/ wait.until = "update-converged" /\ wait.update = "completed"
  OBVIOUS
<1>2. ~Answer(FALSE, FALSE) /\ (Sleep => wait.met)
  BY DEF Answer, Sleep, NoWait
<1> QED BY <1>1, <1>2, <1>3 DEF rolledOut

\* With nothing overtaken, the tasks a poll found current run on the current spec.
LEMMA CurrentRuns ==
  ASSUME wait.template = Service.spec.template
  PROVE  Current = {s \in Slots : Runs(s)}
BY DEF Current, RunsCurrentSpec, Runs

\* A rollout is declared over only when it is (waits.py: tasks counted against
\* the spec read in the same poll), and a removal when nothing is left.
THEOREM VerdictsStayTrue == SwarmSpec => VerdictIsTrue
<1> DEFINE True ==
      wait.step # "done" /\ wait'.met /\ ~moved /\ wait.kind # "node" =>
          IF wait.until = "removed"
          THEN ~Service.there /\ \A s \in Slots : task[s].state \in {"none", "failed"}
          ELSE \/ wait.until = "update-converged" /\ wait.update = "completed"
               \/ /\ plan.mode = "replicated"
                  /\ Cardinality({s \in Slots : Runs(s)}) >= Service.spec.replicas
               \/ /\ plan.mode = "global"
                  /\ \E s \in Slots : Runs(s)
                  /\ \A s \in Slots : task[s].state # "none" =>
                        Runs(s) /\ (s \in down => wait.kind = "stack")
<1>1. WaitInv /\ [SwarmNext]_swarmVars => True
  <2> SUFFICES ASSUME WaitInv, [SwarmNext]_swarmVars, wait.step # "done", wait'.met,
                      ~moved, wait.kind # "node"
               PROVE True
    OBVIOUS
  <2>1. Stepwise /\ Fresh /\ ~wait.met /\ SwarmInv /\ moved \in BOOLEAN
    BY DEF WaitInv, Stepwise
  <2>2. ReadTasks \/ ReadNodes \/ ReadLeft
    <3>1. wait' # wait
      BY <2>1
    <3>2. ~WaitStart /\ ~ReadService /\ ~ReadSummary /\ ~WaitExpires
      BY <2>1 DEF Stepwise, NoWait, WaitStart, ReadService,
         ReadSummary, WaitExpires
    <3>3. ~ReadNode
      BY <2>1 DEF Stepwise, ReadNode
    <3>4. CASE \/ Orchestrator
               \/ \E c \in plan.callers : SendUpdate(c) \/ \E e \in plan.edits : Fetch(c, e)
               \/ StackRemove \/ ServiceCreate
               \/ UNCHANGED swarmVars
      BY <2>1, <3>1, <3>4, OthersMark
    <3> QED BY <3>2, <3>3, <3>4 DEF SwarmNext, Waiting
  <2>3. CASE ReadLeft
    <3>1. wait.step = "left" /\ ~wait.rows
          /\ \A s \in Slots : task[s].state \in {"none", "failed"}
      BY <2>1, <2>3 DEF ReadLeft, Answer, Sleep, Stepwise, NoWait
    <3> QED BY <2>1, <3>1 DEF Stepwise, Fresh
  <2>4. CASE ReadTasks
    <3>1. wait.step = "tasks" /\ wait.until # "removed"
          /\ wait.template = Service.spec.template
          /\ wait.replicas = Service.spec.replicas
      BY <2>1, <2>4 DEF ReadTasks, Stepwise, Fresh
    <3>2. plan.mode # "global" /\ Conclude({}, Current)
      BY <2>1, <2>4 DEF ReadTasks, Stepwise, NoWait
    <3>3. plan.mode = "replicated"
      BY <2>1, <3>2, PlansAssumption DEF SwarmInv, Versioned
    <3>4. \/ wait.until = "update-converged" /\ wait.update = "completed"
          \/ Cardinality(Current) >= wait.replicas
      BY <2>1, <3>2, ConcludeMet DEF Stepwise
    <3> QED BY <3>1, <3>3, <3>4, CurrentRuns
  <2>5. CASE ReadNodes
    <3> DEFINE current == IF wait.kind = "stack" THEN Current ELSE wait.current \ down
               wanted == {s \in Slots : task[s].state # "none"}
    <3>1. /\ wait.step = "nodes" /\ wait.until # "removed" /\ plan.mode = "global"
          /\ wait.template = Service.spec.template
          /\ wait.wanted = wanted /\ wait.current = Current
          /\ Conclude(wanted, current)
      BY <2>1, <2>5 DEF ReadNodes, Stepwise, Fresh
    <3>2. current \subseteq {s \in Slots : Runs(s)}
          /\ (wait.kind # "stack" => current \cap down = {})
      BY <3>1, CurrentRuns
    <3>3. current \subseteq wanted
      BY <3>2 DEF Runs
    <3>a. wanted \subseteq Slots
      OBVIOUS
    <3> HIDE DEF current, wanted
    <3>4. IsFiniteSet(wanted) /\ IsFiniteSet(current)
      <4>1. IsFiniteSet(Slots)
        BY SlotsAssumption
      <4>2. IsFiniteSet(wanted)
        BY <3>a, <4>1, FS_Subset
      <4> QED BY <3>3, <4>2, FS_Subset
    <3>5. CASE Cardinality(current) >= Cardinality(wanted) /\ wanted # {}
      <4>1. Cardinality(current) \in Nat /\ Cardinality(wanted) \in Nat
            /\ Cardinality(current) <= Cardinality(wanted)
        BY <3>3, <3>4, FS_Subset, FS_CardinalityType
      <4>2. current = wanted
        BY <3>3, <3>4, <3>5, <4>1, FS_Subset
      <4> QED BY <3>1, <3>2, <3>5, <4>2 DEF wanted
    <3>6. CASE wait.until = "update-converged" /\ wait.update = "completed"
      BY <3>6
    <3> QED BY <2>1, <3>1, <3>5, <3>6, ConcludeMet DEF Stepwise
  <2> QED BY <2>2, <2>3, <2>4, <2>5
<1>2. WaitInv /\ [SwarmNext]_swarmVars => WaitInv'
  BY WaitStep
<1> QED BY <1>1, <1>2, InitWaitInv, PTL DEF SwarmSpec, VerdictIsTrue

==============================================================================
