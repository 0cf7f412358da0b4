-------------------------- MODULE ContainerProofs --------------------------
(***************************************************************************)
(* What runs in a container.  container_exec, for every cap and chunk      *)
(* size: its truncation is told truly, its early return, its errors and    *)
(* the end of an abandoned reader have their reasons (ContainerExec).  And *)
(* container_run, for every request: the output of a one-shot command      *)
(* outlives its container, and no container is left unmentioned (OneShot). *)
(***************************************************************************)
EXTENDS ContainerExec, OneShot, TLAPS

------------------------------------------------------------------------------
(* ContainerExec.                                                          *)

\* A chunk in hand is a chunk, and the streams that never deliver stay cut.
Reading ==
  /\ reader = "hold" => chunk \in Chunks
  /\ reader # "none" => \A s \in Streams : NeverDelivers[s] => cut[s]

\* An error is the connection's, or it came after a timed-out call closed the
\* stream; nothing is closed before that, and a read that was seen to be over is.
ErrorsExplained ==
  /\ error => remote = "broken" \/ (closed /\ timedOut)
  /\ closed => call \in {"closed", "decoded", "returned", "failed", "raised"}
  /\ call \in {"observed", "abandoned", "closed", "decoded", "returned", "failed"}
       /\ ~timedOut => reader = "done"
  /\ call = "raised" /\ closed /\ ~timedOut => reader = "done"
  /\ call = "failed" => error /\ ~timedOut
  /\ abandoned => call \notin {"start", "created"}

IInv == TypeOK /\ Reading /\ CutEndsTheRead /\ ErrorsExplained

\* The initial states satisfy the invariant.
LEMMA InitIInv == Init => IInv
<1> SUFFICES ASSUME Init PROVE IInv
  OBVIOUS
<1>1. TypeOK
  <2>1. Empty \in [Streams -> 0 .. MaxBytes] /\ Empty \in [Streams -> Nat]
    BY ConstantsAssumption DEF Empty
  <2>2. NoAnswer \in [kept : [Streams -> 0 .. MaxBytes], truncated : BOOLEAN,
                      timedOut : BOOLEAN, exit : {"none", "null", "code"}]
    BY <2>1 DEF NoAnswer
  <2>3. cut \in [Streams -> BOOLEAN] /\ pending \in Seq(Chunks)
    BY DEF Init
  <2> QED
    BY <2>1, <2>2, <2>3 DEF Init, TypeOK
<1> QED
  BY <1>1 DEF Init, IInv, Reading, CutEndsTheRead, ErrorsExplained

\* keep_up_to never fills a buffer past the cap.
LEMMA FitsRoom ==
  ASSUME NEW kept \in 0 .. MaxBytes, NEW size \in Nat
  PROVE  kept + Fits(kept, size) \in 0 .. MaxBytes
  BY ConstantsAssumption DEF Fits, Room

\* Every step keeps the types: the room left bounds what a chunk adds to a buffer.
LEMMA TypeNext == TypeOK /\ Reading /\ [Next]_vars => TypeOK'
<1> SUFFICES ASSUME TypeOK, Reading, [Next]_vars PROVE TypeOK'
  OBVIOUS
<1>1. CASE Write
  <2>1. PICK s \in Streams, n \in 1 .. MaxChunk :
          /\ written' = [written EXCEPT ![Slot(s)] = @ + n]
          /\ pending' = Append(pending, [stream |-> Slot(s), size |-> n])
    BY <1>1 DEF Write, Attached
  <2>2. Slot(s) \in Streams /\ n \in Nat
    BY ConstantsAssumption DEF Slot, Streams
  <2>3. [stream |-> Slot(s), size |-> n] \in Chunks
    BY <2>2 DEF Chunks
  <2>4. pending' \in Seq(Chunks)
    BY <2>1, <2>3 DEF TypeOK
  <2>5. written' \in [Streams -> Nat]
    BY <2>1, <2>2 DEF TypeOK
  <2> QED
    BY <1>1, <2>4, <2>5 DEF Write, TypeOK, callVars, sharedVars
<1>2. CASE Exit
  BY <1>2 DEF Exit, TypeOK, callVars, sharedVars
<1>3. CASE StreamEnds
  BY <1>3 DEF StreamEnds, TypeOK, callVars, sharedVars
<1>4. CASE Take
  <2>1. chunk' \in Chunks /\ pending' \in Seq(Chunks)
    BY <1>4 DEF Take, TypeOK
  <2> QED
    BY <1>4, <2>1 DEF Take, TypeOK, callVars, sharedVars
<1>5. CASE NoMore
  <2>1. error' \in BOOLEAN
    BY <1>5 DEF NoMore
  <2> QED
    BY <1>5, <2>1 DEF NoMore, TypeOK, daemonVars, callVars
<1>6. CASE Discard
  BY <1>6 DEF Discard, TypeOK, daemonVars, callVars, sharedVars
<1>7. CASE Keep
  <2> DEFINE s == chunk.stream
             drops == Drops(buffers[s], chunk.size)
  <2>1. s \in Streams /\ chunk.size \in Nat
    BY <1>7, ConstantsAssumption DEF Keep, KeepChunk, Reading, Chunks
  <2>2. buffers[s] + Fits(buffers[s], chunk.size) \in 0 .. MaxBytes
    BY <2>1, FitsRoom DEF TypeOK
  <2>8. drops \in BOOLEAN
    BY DEF Drops
  <2>3. /\ buffers' \in {buffers, [buffers EXCEPT ![s] = @ + Fits(@, chunk.size)]}
        /\ cut' \in {cut, [cut EXCEPT ![s] = drops]}
        /\ truncated' \in {truncated, truncated \/ drops}
    BY <1>7 DEF Keep, KeepChunk
  <2>4. buffers' \in [Streams -> 0 .. MaxBytes]
    BY <2>1, <2>2, <2>3 DEF TypeOK
  <2>5. cut' \in [Streams -> BOOLEAN]
    BY <2>8, <2>1, <2>3 DEF TypeOK
  <2>6. truncated' \in BOOLEAN
    BY <2>8, <2>3 DEF TypeOK
  <2>7. reader' \in {"done", "next"} /\ chunk' = NoChunk
        /\ UNCHANGED <<request, closable, daemonVars, closed, error, abandoned, callVars>>
    BY <1>7 DEF Keep, KeepChunk
  <2> QED
    BY <2>4, <2>5, <2>6, <2>7 DEF TypeOK, daemonVars, callVars
<1>8. CASE Refuse \/ CreateExec \/ JoinReturns \/ JoinTimesOut \/ RaiseReadError
  BY <1>8 DEF Refuse, CreateExec, JoinReturns, JoinTimesOut, RaiseReadError, TypeOK,
              daemonVars, sharedVars
<1>9. CASE StartExec
  <2>1. NeverDelivers \in [Streams -> BOOLEAN]
    BY DEF NeverDelivers
  <2>2. cut' \in [Streams -> BOOLEAN]
    BY <1>9, <2>1 DEF StartExec, TypeOK
  <2> QED
    BY <1>9, <2>2 DEF StartExec, TypeOK
<1>10. CASE Observe
  BY <1>10 DEF Observe, TypeOK, daemonVars, sharedVars
<1>11. CASE Abandon
  BY <1>11 DEF Abandon, TypeOK, daemonVars, sharedVars
<1>12. CASE CloseStream
  BY <1>12 DEF CloseStream, TypeOK, daemonVars, sharedVars
<1>13. CASE Decode
  <2>1. answer' \in [kept : [Streams -> 0 .. MaxBytes], truncated : BOOLEAN,
                     timedOut : BOOLEAN, exit : {"none", "null", "code"}]
    BY <1>13 DEF Decode, TypeOK
  <2> QED
    BY <1>13, <2>1 DEF Decode, TypeOK, daemonVars, sharedVars
<1>14. CASE Answer
  <2>1. answer' \in [kept : [Streams -> 0 .. MaxBytes], truncated : BOOLEAN,
                     timedOut : BOOLEAN, exit : {"none", "null", "code"}]
    BY <1>14 DEF Answer, TypeOK
  <2> QED
    BY <1>14, <2>1 DEF Answer, TypeOK, daemonVars, sharedVars
<1>15. CASE UNCHANGED vars
  BY <1>15 DEF vars, TypeOK, daemonVars, sharedVars, callVars
<1> QED
  BY <1>1, <1>2, <1>3, <1>4, <1>5, <1>6, <1>7, <1>8, <1>9, <1>10, <1>11, <1>12, <1>13,
     <1>14, <1>15
  DEF Next, ReaderStep, CallStep

\* The arguments of the call never change, and with them which streams deliver.
LEMMA RequestFixed ==
  UNCHANGED request =>
    /\ UNCHANGED <<Attached, NeverDelivers>>
    /\ \A s \in Streams : Slot(s)' = Slot(s)
  BY DEF Attached, NeverDelivers, Slot

\* A slot starts out uncut exactly when something is delivered into it.
LEMMA SlotsDeliver ==
  /\ \A s \in Attached : s \in Streams /\ Slot(s) \in Streams /\ ~NeverDelivers[Slot(s)]
  /\ \A t \in Streams :
       ~NeverDelivers[t] /\ Attached # {} => \E s \in Attached : Slot(s) = t
  BY DEF Attached, NeverDelivers, Slot, Streams

\* The reader goes back to the stream only while some stream is uncut, and such a
\* stream is one that delivers.
LEMMA ReadingNext ==
  TypeOK /\ Reading /\ CutEndsTheRead /\ [Next]_vars => Reading' /\ CutEndsTheRead'
<1> SUFFICES ASSUME TypeOK, Reading, CutEndsTheRead, [Next]_vars
             PROVE  Reading' /\ CutEndsTheRead'
  OBVIOUS
<1>1. CASE reader' = reader /\ UNCHANGED <<request, cut, chunk>>
  <2>1. UNCHANGED <<Attached, NeverDelivers>> /\ \A s \in Streams : Slot(s)' = Slot(s)
    BY <1>1, RequestFixed
  <2>2. Reading'
    BY <1>1, <2>1 DEF Reading
  <2>3. CutEndsTheRead'
    BY <1>1, <2>1, SlotsDeliver DEF CutEndsTheRead
  <2> QED
    BY <2>2, <2>3
<1>2. CASE Take
  <2>1. chunk' \in Chunks /\ reader' = "hold" /\ UNCHANGED <<request, cut>>
    BY <1>2 DEF Take, TypeOK, sharedVars
  <2>2. reader # "none"
    BY <1>2 DEF Take
  <2> QED
    BY <2>1, <2>2, RequestFixed DEF Reading, CutEndsTheRead
<1>3. CASE NoMore \/ Discard
  <2>1. reader # "none" /\ reader' = "done" /\ UNCHANGED <<request, cut>>
    BY <1>3 DEF NoMore, Discard, sharedVars
  <2> QED
    BY <2>1, RequestFixed DEF Reading, CutEndsTheRead
<1>4. CASE Keep
  <2>1. /\ chunk.stream \in Streams
        /\ reader # "none"
        /\ UNCHANGED request
        /\ reader' \in {"done", "next"}
        /\ reader' = "next" => ~AllCut(cut')
    BY <1>4 DEF Keep, KeepChunk, Reading, Chunks
  <2>2. \A s \in Streams : cut[s] => cut'[s]
    BY <1>4, <2>1 DEF Keep, KeepChunk, TypeOK
  <2>3. \A s \in Streams : NeverDelivers[s] => cut'[s]
    BY <2>1, <2>2 DEF Reading
  <2>4. ASSUME reader' = "next", Attached # {}
        PROVE  \E s \in Attached : ~cut'[Slot(s)]
    BY <2>1, <2>3, <2>4, SlotsDeliver DEF AllCut
  <2> QED
    BY <2>1, <2>3, <2>4, RequestFixed, SlotsDeliver DEF Reading, CutEndsTheRead
<1>5. CASE StartExec
  <2>1. UNCHANGED <<request, chunk>> /\ reader' \in {reader, "next"}
    BY <1>5 DEF StartExec
  <2>2. CASE cut' = NeverDelivers /\ reader' = "next"
    BY <2>1, <2>2, RequestFixed, SlotsDeliver DEF Reading, CutEndsTheRead
  <2>3. CASE UNCHANGED <<reader, cut>>
    BY <1>1, <2>1, <2>3
  <2> QED
    BY <1>5, <2>2, <2>3 DEF StartExec
<1> QED
  BY <1>1, <1>2, <1>3, <1>4, <1>5
  DEF Next, ReaderStep, CallStep, Write, Exit, StreamEnds, Refuse, CreateExec,
      JoinReturns, JoinTimesOut, Observe, Abandon, CloseStream, RaiseReadError, Decode,
      Answer, vars, sharedVars

\* An error the reader meets after the close reaches a call that has timed out.
LEMMA ErrorsNext == TypeOK /\ ErrorsExplained /\ [Next]_vars => ErrorsExplained'
<1> SUFFICES ASSUME TypeOK, ErrorsExplained, [Next]_vars PROVE ErrorsExplained'
  OBVIOUS
<1> USE DEF ErrorsExplained
<1>1. CASE Write \/ Exit \/ StreamEnds
  BY <1>1 DEF Write, Exit, StreamEnds, sharedVars, callVars
<1>2. CASE Take \/ Keep \/ Discard
  BY <1>2 DEF Take, Keep, KeepChunk, Discard, daemonVars, sharedVars, callVars
<1>3. CASE NoMore
  BY <1>3 DEF NoMore, TypeOK, daemonVars, callVars
<1>4. CASE Refuse \/ CreateExec \/ StartExec \/ JoinReturns \/ JoinTimesOut
  BY <1>4 DEF Refuse, CreateExec, StartExec, JoinReturns, JoinTimesOut, daemonVars,
              sharedVars
<1>5. CASE Observe
  BY <1>5 DEF Observe, TypeOK, daemonVars, sharedVars
<1>6. CASE Abandon \/ CloseStream
  BY <1>6 DEF Abandon, CloseStream, daemonVars, sharedVars
<1>7. CASE RaiseReadError \/ Decode \/ Answer
  BY <1>7 DEF RaiseReadError, Decode, Answer, daemonVars, sharedVars
<1>8. CASE UNCHANGED vars
  BY <1>8 DEF vars, daemonVars, sharedVars, callVars
<1> QED
  BY <1>1, <1>2, <1>3, <1>4, <1>5, <1>6, <1>7, <1>8
  DEF Next, ReaderStep, CallStep

\* The invariant holds in every reachable state.
LEMMA Invariance == Spec => []IInv
<1>1. IInv /\ [Next]_vars => IInv'
  BY TypeNext, ReadingNext, ErrorsNext DEF IInv
<1> QED
  BY InitIInv, <1>1, PTL DEF Spec

\* Every variable keeps its type; no buffer passes max_bytes.
THEOREM TypeCorrect == Spec => []TypeOK
<1>1. IInv => TypeOK
  BY DEF IInv
<1> QED
  BY Invariance, <1>1, PTL

\* The reader never waits for another chunk once everything that delivers is cut.
THEOREM CutAlwaysEndsTheRead == Spec => []CutEndsTheRead
<1>1. IInv => CutEndsTheRead
  BY DEF IInv
<1> QED
  BY Invariance, <1>1, PTL

\* The call never raises the error that its own close of the stream caused.
THEOREM RaisedErrorsAreReal == Spec => []RaisedErrorIsReal
<1>1. IInv => RaisedErrorIsReal
  BY DEF IInv, ErrorsExplained, RaisedErrorIsReal
<1> QED
  BY Invariance, <1>1, PTL

\* The reader the call went on without keeps nothing and takes no further chunk.
THEOREM AbandonedReadersStop == Spec => AbandonedReaderStops
<1> DEFINE Stops == abandoned => /\ UNCHANGED <<buffers, cut, truncated>>
                                 /\ reader = "hold" => reader' # "next"
<1>1. ASSUME IInv, [Next]_vars PROVE Stops
  BY <1>1 DEF IInv, ErrorsExplained, Next, ReaderStep, CallStep, Write, Exit,
      StreamEnds, Take, NoMore, Keep, KeepChunk, Discard, Refuse, CreateExec, StartExec,
      JoinReturns, JoinTimesOut, Observe, Abandon, CloseStream, RaiseReadError, Decode,
      Answer, vars, sharedVars
<1> QED
  BY Invariance, <1>1, PTL DEF Spec, AbandonedReaderStops
------------------------------------------------------------------------------
(* What an answer says of itself.                                          *)

InHand(s) == IF reader = "hold" /\ chunk.stream = s THEN chunk.size ELSE 0
Of(c, s)  == IF c.stream = s THEN c.size ELSE 0

\* The chunks of p lead from a bytes of stream s to b: acc[i] is how far the first
\* i of them lead.
Flows(p, s, a, b) ==
  \E acc \in [0 .. Len(p) -> Nat] :
    /\ acc[0] = a /\ acc[Len(p)] = b
    /\ \A i \in 1 .. Len(p) : acc[i] = acc[i - 1] + Of(p[i], s)
    /\ \A i, j \in 0 .. Len(p) : i <= j => acc[i] <= acc[j]

\* Of a stream that is not cut nothing is lost, until the call goes on without
\* the reader: what is kept, in hand and pending is what was written.
Accounted ==
  \A s \in Streams :
    ~cut[s] /\ ~abandoned => Flows(pending, s, buffers[s] + InHand(s), written[s])

\* Only what is attached is ever written.
Delivered ==
  /\ \A s \in Streams : NeverDelivers[s] => written[s] = 0 /\ buffers[s] = 0
  /\ \A i \in 1 .. Len(pending) : ~NeverDelivers[pending[i].stream]
  /\ reader = "hold" => ~NeverDelivers[chunk.stream]

\* A stream is cut because it never delivers or because it has passed the cap.
CutsExplained ==
  /\ \A s \in Streams : cut[s] =>
       \/ NeverDelivers[s]
       \/ truncated /\ buffers[s] = MaxBytes /\ written[s] > MaxBytes
  /\ truncated => reader # "none" /\ \E s \in Streams : cut[s] /\ ~NeverDelivers[s]

\* A read that was over before the call looked is whole, unless it was cut.
ReadsAreWhole ==
  /\ reader = "done" /\ ~timedOut /\ ~truncated =>
       /\ remote # "open"
       /\ remote = "eof" => buffers = written
  /\ timedOut => call \notin {"start", "refused", "created", "joining", "joined"}
  /\ abandoned /\ ~timedOut => reader = "done"
  /\ closed => abandoned
  /\ remote = "eof" => command = "exited"
  /\ call \in {"start", "created", "refused"} => reader = "none"
  /\ call = "start" \/ call = "created" => command = "none" /\ written = Empty /\ pending = <<>>

\* What the call has decoded is what the buffers hold from then on.
Decoded ==
  /\ call \in {"abandoned", "closed", "decoded", "returned"} => abandoned
  /\ call \in {"decoded", "returned"} => answer.kept = buffers
  /\ call = "returned" => answer.truncated = truncated /\ answer.timedOut = timedOut

AnswerInv == Accounted /\ Delivered /\ CutsExplained /\ ReadsAreWhole /\ Decoded

\* Without chunks nothing flows, and chunks never take anything back.
LEMMA FlowIsMonotone ==
  ASSUME NEW p \in Seq(Chunks), NEW s, NEW a, NEW b, Flows(p, s, a, b)
  PROVE  a \in Nat /\ b \in Nat /\ a <= b /\ (p = <<>> => a = b)
<1>1. PICK acc \in [0 .. Len(p) -> Nat] :
        /\ acc[0] = a /\ acc[Len(p)] = b
        /\ \A i, j \in 0 .. Len(p) : i <= j => acc[i] <= acc[j]
  BY DEF Flows
<1>2. Len(p) \in Nat /\ 0 \in 0 .. Len(p) /\ Len(p) \in 0 .. Len(p) /\ 0 <= Len(p)
  OBVIOUS
<1>3. p = <<>> => Len(p) = 0
  OBVIOUS
<1> QED BY <1>1, <1>2, <1>3

LEMMA NothingFlows == \A s : Flows(<<>>, s, 0, 0)
<1> TAKE s
<1> DEFINE acc == [i \in 0 .. 0 |-> 0]
<1>1. Len(<<>>) = 0
  OBVIOUS
<1>2. acc \in [0 .. Len(<<>>) -> Nat]
  BY <1>1
<1>3. \A i \in 0 .. Len(<<>>) : acc[i] = 0
  BY <1>1
<1>4. 0 \in 0 .. Len(<<>>) /\ Len(<<>>) \in 0 .. Len(<<>>) /\ \A i \in 1 .. Len(<<>>) : FALSE
  BY <1>1
<1>5. \A i, j \in 0 .. Len(<<>>) : i <= j => acc[i] <= acc[j]
  BY <1>3
<1> HIDE DEF acc
<1> QED BY <1>2, <1>3, <1>4, <1>5 DEF Flows

\* A chunk that is written comes last.
LEMMA FlowAppends ==
  ASSUME NEW p \in Seq(Chunks), NEW c \in Chunks, NEW s, NEW a, NEW b, Flows(p, s, a, b)
  PROVE  Flows(Append(p, c), s, a, b + Of(c, s))
<1>1. PICK acc \in [0 .. Len(p) -> Nat] :
        /\ acc[0] = a /\ acc[Len(p)] = b
        /\ \A i \in 1 .. Len(p) : acc[i] = acc[i - 1] + Of(p[i], s)
        /\ \A i, j \in 0 .. Len(p) : i <= j => acc[i] <= acc[j]
  BY DEF Flows
<1> DEFINE n == Len(p)
           q == Append(p, c)
           acc2 == [i \in 0 .. n + 1 |-> IF i = n + 1 THEN b + Of(c, s) ELSE acc[i]]
<1>2. n \in Nat /\ Len(q) = n + 1 /\ q[n + 1] = c /\ \A i \in 1 .. n : q[i] = p[i]
  OBVIOUS
<1>3. b \in Nat /\ Of(c, s) \in Nat
  BY <1>1, <1>2, ConstantsAssumption DEF Of, Chunks
<1> HIDE DEF n, q
<1>4. acc \in [0 .. n -> Nat] /\ acc[n] = b
  BY <1>1 DEF n
<1>5. acc2 \in [0 .. Len(q) -> Nat]
  BY <1>2, <1>3, <1>4
<1>6. acc2[0] = a /\ acc2[Len(q)] = b + Of(c, s)
  BY <1>1, <1>2, <1>3
<1>7. ASSUME NEW i \in 1 .. Len(q) PROVE acc2[i] = acc2[i - 1] + Of(q[i], s)
  <2>1. CASE i = n + 1
    BY <1>2, <1>3, <1>4, <2>1
  <2>2. CASE i \in 1 .. n
    <3>1. i - 1 \in 0 .. n /\ i # n + 1 /\ i - 1 # n + 1 /\ i \in 0 .. n + 1 /\ i - 1 \in 0 .. n + 1
      BY <1>2, <2>2
    <3>2. acc[i] = acc[i - 1] + Of(p[i], s)
      BY <1>1, <2>2 DEF n
    <3> QED BY <1>2, <2>2, <3>1, <3>2
  <2> QED BY <1>2, <2>1, <2>2
<1>8. ASSUME NEW i \in 0 .. Len(q), NEW j \in 0 .. Len(q), i <= j PROVE acc2[i] <= acc2[j]
  <2>1. CASE j \in 0 .. n
    <3>1. i \in 0 .. n /\ i # n + 1 /\ j # n + 1
      BY <1>2, <1>8, <2>1
    <3> QED BY <1>1, <1>2, <1>8, <2>1, <3>1 DEF n
  <2>2. CASE j = n + 1
    <3>1. CASE i = n + 1
      BY <1>2, <1>3, <2>2, <3>1
    <3>2. CASE i \in 0 .. n
      <4>1. acc[i] <= acc[n] /\ acc[i] \in Nat /\ i # n + 1
        <5>1. n \in 0 .. n /\ i \in 0 .. n /\ i <= n /\ i # n + 1
          BY <1>2, <3>2
        <5> QED BY <1>1, <1>4, <5>1 DEF n
      <4> QED BY <1>2, <1>3, <1>4, <2>2, <4>1
    <3> QED BY <1>2, <3>1, <3>2
  <2> QED BY <1>2, <2>1, <2>2
<1> QED BY <1>5, <1>6, <1>7, <1>8 DEF Flows, q

\* The chunk that is taken is the first.
LEMMA FlowTakes ==
  ASSUME NEW p \in Seq(Chunks), p # <<>>, NEW s, NEW a, NEW b, Flows(p, s, a, b)
  PROVE  Flows(Tail(p), s, a + Of(Head(p), s), b)
<1>1. PICK acc \in [0 .. Len(p) -> Nat] :
        /\ acc[0] = a /\ acc[Len(p)] = b
        /\ \A i \in 1 .. Len(p) : acc[i] = acc[i - 1] + Of(p[i], s)
        /\ \A i, j \in 0 .. Len(p) : i <= j => acc[i] <= acc[j]
  BY DEF Flows
<1> DEFINE n == Len(p)
           q == Tail(p)
           acc2 == [i \in 0 .. n - 1 |-> acc[i + 1]]
<1>2. n \in Nat \ {0} /\ Len(q) = n - 1 /\ Head(p) = p[1] /\ \A i \in 1 .. n - 1 : q[i] = p[i + 1]
  OBVIOUS
<1> HIDE DEF n, q
<1>3. acc \in [0 .. n -> Nat] /\ acc[n] = b /\ acc[1] = a + Of(p[1], s)
  <2>1. 1 \in 1 .. n /\ 1 - 1 = 0
    BY <1>2
  <2> QED BY <1>1, <2>1 DEF n
<1>4. acc2 \in [0 .. Len(q) -> Nat]
  BY <1>2, <1>3
<1>5. acc2[0] = a + Of(Head(p), s) /\ acc2[Len(q)] = b
  BY <1>2, <1>3
<1>6. ASSUME NEW i \in 1 .. Len(q) PROVE acc2[i] = acc2[i - 1] + Of(q[i], s)
  <2>1. i \in 1 .. n - 1 /\ i + 1 \in 1 .. n /\ i - 1 \in 0 .. n - 1 /\ i \in 0 .. n - 1
        /\ (i - 1) + 1 = i /\ (i + 1) - 1 = i
    BY <1>2
  <2>2. acc[i + 1] = acc[i] + Of(p[i + 1], s)
    BY <1>1, <2>1 DEF n
  <2> QED BY <1>2, <2>1, <2>2
<1>7. ASSUME NEW i \in 0 .. Len(q), NEW j \in 0 .. Len(q), i <= j PROVE acc2[i] <= acc2[j]
  <2>1. i \in 0 .. n - 1 /\ j \in 0 .. n - 1 /\ i + 1 \in 0 .. n /\ j + 1 \in 0 .. n
       /\ i + 1 <= j + 1
    BY <1>2, <1>7
  <2> QED BY <1>1, <2>1 DEF n
<1> QED BY <1>4, <1>5, <1>6, <1>7 DEF Flows, q
\* What flowed still does behind every step: a chunk is appended, taken or kept.
LEMMA AccountedNext ==
  ASSUME TypeOK, Reading, Accounted, Delivered, CutsExplained, ReadsAreWhole, [Next]_vars
  PROVE  Accounted'
<1> USE DEF TypeOK
<1>1. ASSUME UNCHANGED <<pending, buffers, written, cut>>, abandoned => abandoned',
             \A s \in Streams : InHand(s)' = InHand(s)
      PROVE  Accounted'
  BY <1>1 DEF Accounted
<1>2. CASE Write
  <2>1. PICK s \in Streams, n \in 1 .. MaxChunk :
          /\ written' = [written EXCEPT ![Slot(s)] = @ + n]
          /\ pending' = Append(pending, [stream |-> Slot(s), size |-> n])
    BY <1>2 DEF Write, Attached
  <2> DEFINE c == [stream |-> Slot(s), size |-> n]
  <2>2. Slot(s) \in Streams /\ n \in Nat /\ c \in Chunks /\ c.stream = Slot(s) /\ c.size = n
    BY ConstantsAssumption DEF Slot, Streams, Chunks
  <2>3. UNCHANGED <<buffers, cut, abandoned, reader, chunk>>
    BY <1>2 DEF Write, sharedVars
  <2>4. ASSUME NEW t \in Streams, ~cut'[t], ~abandoned'
        PROVE  Flows(pending', t, buffers'[t] + InHand(t)', written'[t])
    <3>1. Flows(pending, t, buffers[t] + InHand(t), written[t])
      BY <2>3, <2>4 DEF Accounted
    <3>2. Flows(Append(pending, c), t, buffers[t] + InHand(t), written[t] + Of(c, t))
      BY <2>2, <3>1, FlowAppends
    <3>3. written'[t] = written[t] + Of(c, t)
      BY <2>1, <2>2 DEF Of
    <3>4. InHand(t)' = InHand(t)
      BY <2>3 DEF InHand
    <3> QED BY <2>1, <2>3, <3>2, <3>3, <3>4
  <2> QED BY <2>4 DEF Accounted
<1>3. CASE Take
  <2>1. UNCHANGED <<buffers, written, cut, abandoned>> /\ pending # <<>> /\ reader = "next"
        /\ reader' = "hold" /\ chunk' = Head(pending) /\ pending' = Tail(pending)
    BY <1>3 DEF Take, sharedVars
  <2>2. ASSUME NEW t \in Streams, ~cut'[t], ~abandoned'
        PROVE  Flows(pending', t, buffers'[t] + InHand(t)', written'[t])
    <3>1. Flows(pending, t, buffers[t] + InHand(t), written[t])
      BY <2>1, <2>2 DEF Accounted
    <3>2. InHand(t) = 0 /\ InHand(t)' = Of(Head(pending), t)
      BY <2>1 DEF InHand, Of
    <3>3. Flows(pending', t, (buffers[t] + InHand(t)) + Of(Head(pending), t), written[t])
      BY <2>1, <3>1, FlowTakes
    <3>4. (buffers[t] + 0) + Of(Head(pending), t) = buffers[t] + Of(Head(pending), t)
      <4>1. buffers[t] \in Nat
        BY ConstantsAssumption
      <4> QED BY <4>1
    <3> QED BY <2>1, <3>2, <3>3, <3>4
  <2> QED BY <2>2 DEF Accounted
<1>4. CASE Keep
  <2> DEFINE s == chunk.stream
  <2>1. s \in Streams /\ chunk.size \in Nat /\ reader = "hold"
    BY <1>4, ConstantsAssumption DEF Keep, KeepChunk, Reading, Chunks
  <2>2. UNCHANGED <<pending, written, abandoned>> /\ reader' # "hold"
    BY <1>4 DEF Keep, KeepChunk, daemonVars
  <2>3. ASSUME NEW t \in Streams, ~cut'[t], ~abandoned'
        PROVE  buffers'[t] + InHand(t)' = buffers[t] + InHand(t) /\ ~cut[t]
    <3>1. buffers[t] \in Nat /\ buffers[s] \in Nat /\ InHand(t)' = 0
      BY <2>1, <2>2, ConstantsAssumption DEF InHand
    <3>2. CASE t # s
      <4>1. buffers'[t] = buffers[t] /\ cut'[t] = cut[t] /\ InHand(t) = 0
        BY <1>4, <2>1, <3>2 DEF Keep, KeepChunk, InHand
      <4> QED BY <2>3, <3>1, <4>1
    <3>3. CASE t = s
      <4>1. ~cut[s]
        BY <1>4, <2>1, <2>3, <3>3 DEF Keep, KeepChunk
      <4>2. buffers'[s] = buffers[s] + Fits(buffers[s], chunk.size)
            /\ ~Drops(buffers[s], chunk.size)
        BY <1>4, <2>1, <2>3, <3>3, <4>1 DEF Keep, KeepChunk
      <4>3. Fits(buffers[s], chunk.size) = chunk.size /\ InHand(s) = chunk.size
        BY <2>1, <4>2 DEF Fits, Drops, InHand
      <4> QED BY <2>1, <3>1, <3>3, <4>1, <4>2, <4>3
    <3> QED BY <3>2, <3>3
  <2> QED BY <2>2, <2>3 DEF Accounted
<1>5. CASE StartExec
  <2>1. UNCHANGED <<pending, buffers, written, abandoned, chunk>> /\ reader = "none"
        /\ reader' # "hold" /\ cut' \in {cut, NeverDelivers}
    BY <1>5 DEF StartExec, ReadsAreWhole
  <2>2. \A t \in Streams : ~cut'[t] => ~cut[t]
    BY <2>1 DEF CutsExplained
  <2>3. \A t \in Streams : InHand(t)' = InHand(t)
    BY <2>1 DEF InHand
  <2> QED BY <2>1, <2>2, <2>3 DEF Accounted
<1>6. CASE Discard
  BY <1>6 DEF Discard, Accounted
<1>7. CASE NoMore
  BY <1>1, <1>7 DEF NoMore, InHand, daemonVars
<1>8. CASE \/ Exit \/ StreamEnds \/ Refuse \/ CreateExec \/ JoinReturns \/ JoinTimesOut
           \/ Observe \/ Abandon \/ CloseStream \/ RaiseReadError \/ Decode \/ Answer
  <2>1. UNCHANGED <<pending, buffers, written, cut, reader, chunk>> /\ (abandoned => abandoned')
    BY <1>8 DEF Exit, StreamEnds, Refuse, CreateExec, JoinReturns, JoinTimesOut, Observe, Abandon,
       CloseStream, RaiseReadError, Decode, Answer, daemonVars, sharedVars
  <2> QED BY <1>1, <2>1 DEF InHand
<1>9. CASE UNCHANGED vars
  BY <1>1, <1>9 DEF vars, daemonVars, sharedVars, InHand
<1> QED BY <1>2, <1>3, <1>4, <1>5, <1>6, <1>7, <1>8, <1>9 DEF Next, ReaderStep, CallStep

\* Nothing is written to a stream, or kept of one, that never delivers.
LEMMA DeliveredNext ==
  ASSUME TypeOK, Reading, Delivered, [Next]_vars
  PROVE  Delivered'
<1> USE DEF TypeOK
<1>1. UNCHANGED request
  BY DEF Next, ReaderStep, CallStep, vars, Write, Exit, StreamEnds, Take, NoMore, Keep, KeepChunk,
     Discard, Refuse, CreateExec, StartExec, JoinReturns, JoinTimesOut, Observe, Abandon,
     CloseStream, RaiseReadError, Decode, Answer
<1>2. NeverDelivers' = NeverDelivers
  BY <1>1, RequestFixed
<1>3. CASE Write
  <2>1. PICK s \in Attached, n \in 1 .. MaxChunk :
          /\ written' = [written EXCEPT ![Slot(s)] = @ + n]
          /\ pending' = Append(pending, [stream |-> Slot(s), size |-> n])
    BY <1>3 DEF Write
  <2>2. ~NeverDelivers[Slot(s)]
    BY <2>1, SlotsDeliver
  <2>3. UNCHANGED <<buffers, reader, chunk>>
    BY <1>3 DEF Write, sharedVars
  <2>4. ASSUME NEW i \in 1 .. Len(pending') PROVE ~NeverDelivers[pending'[i].stream]
    <3>1. pending' \in Seq(Chunks \cup {[stream |-> Slot(s), size |-> n]})
          /\ (i \in 1 .. Len(pending) => pending'[i] = pending[i])
          /\ (i \notin 1 .. Len(pending) => pending'[i] = [stream |-> Slot(s), size |-> n])
      BY <2>1
    <3> QED BY <2>2, <3>1 DEF Delivered
  <2>5. \A t \in Streams : NeverDelivers[t] => written'[t] = written[t]
    BY <2>1, <2>2
  <2> QED BY <1>2, <2>3, <2>4, <2>5 DEF Delivered
<1>4. CASE Take
  <2>1. UNCHANGED <<buffers, written>> /\ pending # <<>>
        /\ chunk' = Head(pending) /\ pending' = Tail(pending)
    BY <1>4 DEF Take, sharedVars
  <2>2. ~NeverDelivers[chunk'.stream]
    <3>1. 1 \in 1 .. Len(pending) /\ chunk' = pending[1]
      BY <2>1
    <3> QED BY <3>1 DEF Delivered
  <2>3. ASSUME NEW i \in 1 .. Len(pending') PROVE ~NeverDelivers[pending'[i].stream]
    <3>1. pending'[i] = pending[i + 1] /\ i + 1 \in 1 .. Len(pending)
      BY <2>1
    <3> QED BY <3>1 DEF Delivered
  <2> QED BY <1>2, <2>1, <2>2, <2>3 DEF Delivered
<1>5. CASE Keep
  <2>1. chunk.stream \in Streams /\ ~NeverDelivers[chunk.stream]
    BY <1>5 DEF Keep, KeepChunk, Reading, Chunks, Delivered
  <2>2. UNCHANGED <<written, pending>> /\ reader' # "hold"
    BY <1>5 DEF Keep, KeepChunk, daemonVars
  <2>3. \A t \in Streams : NeverDelivers[t] => buffers'[t] = buffers[t]
    BY <1>5, <2>1 DEF Keep, KeepChunk
  <2> QED BY <1>2, <2>2, <2>3 DEF Delivered
<1>6. ASSUME UNCHANGED <<written, pending, buffers, chunk>>, reader' = "hold" => reader = "hold"
      PROVE  Delivered'
  BY <1>2, <1>6 DEF Delivered
<1>7. CASE NoMore \/ StartExec
  BY <1>6, <1>7 DEF NoMore, StartExec, daemonVars
<1>8. CASE Discard
  <2>1. UNCHANGED <<written, pending, buffers>> /\ reader' = "done"
    BY <1>8 DEF Discard, daemonVars, sharedVars
  <2> QED BY <1>2, <2>1 DEF Delivered
<1>9. CASE \/ Exit \/ StreamEnds \/ Refuse \/ CreateExec \/ JoinReturns \/ JoinTimesOut
           \/ Observe \/ Abandon \/ CloseStream \/ RaiseReadError \/ Decode \/ Answer
  BY <1>6, <1>9 DEF Exit, StreamEnds, Refuse, CreateExec, JoinReturns, JoinTimesOut, Observe,
     Abandon, CloseStream, RaiseReadError, Decode, Answer, daemonVars, sharedVars
<1>10. CASE UNCHANGED vars
  BY <1>6, <1>10 DEF vars, daemonVars, sharedVars
<1> QED BY <1>3, <1>4, <1>5, <1>7, <1>8, <1>9, <1>10 DEF Next, ReaderStep, CallStep
\* A stream that delivers is cut by a chunk that passes the cap, and only then.
LEMMA CutsNext ==
  ASSUME TypeOK, TypeOK', Reading, Accounted, Delivered, CutsExplained, ReadsAreWhole,
         [Next]_vars
  PROVE  CutsExplained'
<1> USE DEF TypeOK
<1>1. NeverDelivers' = NeverDelivers
  <2>1. UNCHANGED request
    BY DEF Next, ReaderStep, CallStep, vars, Write, Exit, StreamEnds, Take, NoMore, Keep,
       KeepChunk, Discard, Refuse, CreateExec, StartExec, JoinReturns, JoinTimesOut, Observe,
       Abandon, CloseStream, RaiseReadError, Decode, Answer
  <2> QED BY <2>1, RequestFixed
<1>2. ASSUME UNCHANGED <<buffers, cut, truncated, written>>, reader # "none" => reader' # "none"
      PROVE  CutsExplained'
  BY <1>1, <1>2 DEF CutsExplained
<1>3. CASE Write
  <2>1. PICK s \in Streams, n \in 1 .. MaxChunk : written' = [written EXCEPT ![Slot(s)] = @ + n]
    BY <1>3 DEF Write, Attached
  <2>2. \A t \in Streams : written[t] > MaxBytes => written'[t] > MaxBytes
    BY <2>1, ConstantsAssumption
  <2>3. UNCHANGED <<buffers, cut, truncated, reader>>
    BY <1>3 DEF Write, sharedVars
  <2> QED BY <1>1, <2>2, <2>3 DEF CutsExplained
<1>4. CASE Keep
  <2> DEFINE s == chunk.stream
             drops == Drops(buffers[s], chunk.size)
  <2>1. s \in Streams /\ chunk.size \in Nat /\ reader = "hold" /\ ~NeverDelivers[s] /\ ~abandoned
    BY <1>4, ConstantsAssumption DEF Keep, KeepChunk, Reading, Chunks, Delivered
  <2>2. written' = written /\ reader' # "none"
    BY <1>4 DEF Keep, KeepChunk, daemonVars
  <2>3. CASE cut[s]
    <3>1. UNCHANGED <<buffers, cut, truncated>>
      BY <1>4, <2>3 DEF Keep, KeepChunk
    <3> QED BY <1>2, <2>2, <3>1
  <2>4. CASE ~cut[s]
    <3>1. /\ buffers' = [buffers EXCEPT ![s] = @ + Fits(@, chunk.size)]
          /\ cut' = [cut EXCEPT ![s] = drops]
          /\ truncated' = (truncated \/ drops)
      BY <1>4, <2>4 DEF Keep, KeepChunk
    <3>2. drops => buffers'[s] = MaxBytes /\ written[s] > MaxBytes
      <4>1. buffers[s] \in 0 .. MaxBytes
        BY <2>1
      <4>2. Flows(pending, s, buffers[s] + InHand(s), written[s]) /\ InHand(s) = chunk.size
        BY <2>1, <2>4 DEF Accounted, InHand
      <4>3. buffers[s] + chunk.size <= written[s] /\ written[s] \in Nat
        BY <2>1, <4>2, FlowIsMonotone
      <4>4. buffers'[s] = buffers[s] + Fits(buffers[s], chunk.size)
        BY <2>1, <3>1
      <4> QED BY <2>1, <4>1, <4>3, <4>4, ConstantsAssumption DEF Drops, Fits, Room
    <3>3. \A t \in Streams \ {s} : buffers'[t] = buffers[t] /\ cut'[t] = cut[t]
      BY <3>1
    <3>4. cut'[s] = drops /\ drops \in BOOLEAN
      BY <2>1, <3>1 DEF Drops
    <3>5. \A t \in Streams : cut'[t] =>
            \/ NeverDelivers[t]
            \/ truncated' /\ buffers'[t] = MaxBytes /\ written[t] > MaxBytes
      BY <3>1, <3>2, <3>3, <3>4, Zenon DEF CutsExplained
    <3>6. truncated' => \E t \in Streams : cut'[t] /\ ~NeverDelivers[t]
      BY <2>1, <2>4, <3>1, <3>3, <3>4, Zenon DEF CutsExplained
    <3> QED BY <1>1, <2>2, <3>5, <3>6 DEF CutsExplained
  <2> QED BY <2>3, <2>4
<1>5. CASE StartExec
  <2>1. UNCHANGED <<buffers, truncated, written>> /\ reader = "none"
    BY <1>5 DEF StartExec, ReadsAreWhole
  <2>2. ~truncated
    BY <2>1 DEF CutsExplained
  <2>3. \A t \in Streams : cut'[t] => NeverDelivers[t]
    BY <1>5, <2>2 DEF StartExec, CutsExplained
  <2> QED BY <1>1, <2>1, <2>2, <2>3 DEF CutsExplained
<1>6. CASE Take \/ NoMore \/ Discard
  BY <1>2, <1>6 DEF Take, NoMore, Discard, daemonVars, sharedVars
<1>7. CASE \/ Exit \/ StreamEnds \/ Refuse \/ CreateExec \/ JoinReturns \/ JoinTimesOut
           \/ Observe \/ Abandon \/ CloseStream \/ RaiseReadError \/ Decode \/ Answer
  BY <1>2, <1>7 DEF Exit, StreamEnds, Refuse, CreateExec, JoinReturns, JoinTimesOut, Observe,
     Abandon, CloseStream, RaiseReadError, Decode, Answer, daemonVars, sharedVars
<1>8. CASE UNCHANGED vars
  BY <1>2, <1>8 DEF vars, daemonVars, sharedVars
<1> QED BY <1>3, <1>4, <1>5, <1>6, <1>7, <1>8 DEF Next, ReaderStep, CallStep

\* A reader that is done before the call gives it up has met the end of the
\* stream, with everything kept, or has nothing left that it may keep.
LEMMA WholeNext ==
  ASSUME TypeOK, Reading, ErrorsExplained, Accounted, Delivered, CutsExplained, ReadsAreWhole,
         Decoded, [Next]_vars
  PROVE  ReadsAreWhole'
<1> USE DEF TypeOK, ReadsAreWhole
<1>1. CASE Write
  BY <1>1 DEF Write, sharedVars, callVars
<1>2. CASE Exit \/ StreamEnds
  BY <1>2 DEF Exit, StreamEnds, sharedVars, callVars
<1>3. CASE Take
  BY <1>3 DEF Take, sharedVars, callVars
<1>4. CASE NoMore
  <2>1. UNCHANGED <<daemonVars, closed, buffers, cut, truncated, abandoned, callVars>>
    BY <1>4 DEF NoMore
  <2>2. closed => timedOut
    BY <1>4 DEF NoMore
  <2>3. ASSUME ~timedOut, ~truncated, remote = "eof" PROVE buffers = written
    <3>1. pending = <<>> /\ reader = "next" /\ ~abandoned
      BY <1>4, <2>2, <2>3 DEF NoMore
    <3>2. ASSUME NEW s \in Streams PROVE buffers[s] = written[s]
      <4>1. CASE cut[s]
        BY <2>3, <4>1 DEF CutsExplained, Delivered
      <4>2. CASE ~cut[s]
        <5>1. Flows(pending, s, buffers[s] + InHand(s), written[s]) /\ InHand(s) = 0
          BY <3>1, <4>2 DEF Accounted, InHand
        <5>2. buffers[s] + InHand(s) = written[s]
          <6>1. pending \in Seq(Chunks)
            OBVIOUS
          <6>2. pending = <<>> => buffers[s] + InHand(s) = written[s]
            BY ONLY <5>1, <6>1, FlowIsMonotone
          <6> QED BY <3>1, <6>2
        <5>3. buffers[s] \in Nat
          BY ConstantsAssumption
        <5> QED BY <5>1, <5>2, <5>3
      <4> QED BY <4>1, <4>2
    <3> QED BY <3>2
  <2>4. ~timedOut => remote # "open"
    BY <1>4, <2>2 DEF NoMore
  <2>5. reader' = "done" /\ reader = "next"
    BY <1>4 DEF NoMore
  <2> QED BY <2>1, <2>3, <2>4, <2>5 DEF daemonVars, callVars
<1>5. CASE Keep
  <2>1. UNCHANGED <<daemonVars, closed, abandoned, callVars>> /\ ~abandoned /\ reader = "hold"
    BY <1>5 DEF Keep, KeepChunk
  <2>2. ASSUME reader' = "done" PROVE truncated'
    <3> DEFINE s == chunk.stream
    <3>1. s \in Streams /\ ~NeverDelivers[s] /\ cut'[s]
      BY <1>5, <2>1, <2>2 DEF Keep, KeepChunk, Reading, Chunks, Delivered, AllCut
    <3>2. CASE cut[s]
      BY <1>5, <3>1, <3>2 DEF Keep, KeepChunk, CutsExplained
    <3>3. CASE ~cut[s]
      BY <1>5, <3>1, <3>3 DEF Keep, KeepChunk
    <3> QED BY <3>2, <3>3
  <2> QED BY <2>1, <2>2 DEF daemonVars, callVars
<1>6. CASE Discard
  BY <1>6 DEF Discard, daemonVars, sharedVars, callVars
<1>7. CASE Refuse \/ CreateExec \/ JoinReturns \/ JoinTimesOut
  BY <1>7 DEF Refuse, CreateExec, JoinReturns, JoinTimesOut, daemonVars, sharedVars
<1>8. CASE StartExec
  BY <1>8 DEF StartExec
<1>9. CASE Observe
  BY <1>9 DEF Observe, daemonVars, sharedVars
<1>10. CASE Abandon \/ CloseStream
  BY <1>10 DEF Abandon, CloseStream, daemonVars, sharedVars, ErrorsExplained, Decoded
<1>11. CASE RaiseReadError \/ Decode \/ Answer
  BY <1>11 DEF RaiseReadError, Decode, Answer, daemonVars, sharedVars
<1>12. CASE UNCHANGED vars
  BY <1>12 DEF vars, daemonVars, sharedVars, callVars
<1> QED BY <1>1, <1>2, <1>3, <1>4, <1>5, <1>6, <1>7, <1>8, <1>9, <1>10, <1>11, <1>12
        DEF Next, ReaderStep, CallStep

\* What was decoded stays what the buffers hold: the reader was told to stop.
LEMMA DecodedNext ==
  ASSUME TypeOK, ErrorsExplained, Decoded, [Next]_vars
  PROVE  Decoded'
<1> USE DEF TypeOK, Decoded
<1>1. CASE Write \/ Exit \/ StreamEnds
  BY <1>1 DEF Write, Exit, StreamEnds, sharedVars, callVars
<1>2. CASE Take \/ NoMore \/ Discard
  BY <1>2 DEF Take, NoMore, Discard, daemonVars, sharedVars, callVars
<1>3. CASE Keep
  BY <1>3 DEF Keep, KeepChunk, callVars
<1>4. CASE Refuse \/ CreateExec \/ JoinReturns \/ JoinTimesOut \/ Observe \/ RaiseReadError
  BY <1>4 DEF Refuse, CreateExec, JoinReturns, JoinTimesOut, Observe, RaiseReadError
<1>5. CASE StartExec
  BY <1>5 DEF StartExec
<1>6. CASE Abandon \/ CloseStream
  BY <1>6 DEF Abandon, CloseStream
<1>7. CASE Decode
  BY <1>7 DEF Decode, sharedVars
<1>8. CASE Answer
  BY <1>8 DEF Answer, sharedVars
<1>9. CASE UNCHANGED vars
  BY <1>9 DEF vars, sharedVars, callVars
<1> QED BY <1>1, <1>2, <1>3, <1>4, <1>5, <1>6, <1>7, <1>8, <1>9 DEF Next, ReaderStep, CallStep

\* container_exec says `truncated` exactly when something was dropped, and an
\* answer that says neither that nor `timed_out` holds all that was written.
THEOREM TruncationStaysTrue == Spec => []TruncationIsTrue
<1>1. Init => AnswerInv
  <2> SUFFICES ASSUME Init PROVE AnswerInv
    OBVIOUS
  <2>1. Accounted
    BY NothingFlows DEF Init, Accounted, InHand, Empty
  <2>2. Delivered
    BY DEF Init, Delivered, Empty
  <2>3. CutsExplained
    BY DEF Init, CutsExplained
  <2>4. ReadsAreWhole /\ Decoded
    BY DEF Init, ReadsAreWhole, Decoded
  <2> QED BY <2>1, <2>2, <2>3, <2>4 DEF AnswerInv
<1>2. IInv /\ IInv' /\ AnswerInv /\ [Next]_vars => AnswerInv'
  BY AccountedNext, DeliveredNext, CutsNext, WholeNext, DecodedNext DEF IInv, AnswerInv
<1>3. IInv /\ AnswerInv => TruncationIsTrue
  <2> SUFFICES ASSUME IInv, AnswerInv PROVE TruncationIsTrue
    OBVIOUS
  <2>1. ASSUME call = "returned", ~answer.timedOut, ~answer.truncated, remote = "eof"
        PROVE  answer.kept = written
    BY <2>1 DEF IInv, ErrorsExplained, AnswerInv, Decoded, ReadsAreWhole
  <2>2. truncated => \E s \in Streams : buffers[s] = MaxBytes /\ written[s] > MaxBytes
    BY DEF AnswerInv, CutsExplained
  <2>3. call = "returned" => (answer.truncated <=> truncated)
    BY DEF AnswerInv, Decoded
  <2>4. \A s \in Streams : cut[s] => NeverDelivers[s] \/ written[s] > MaxBytes
    BY DEF AnswerInv, CutsExplained
  <2> QED BY <2>1, <2>2, <2>3, <2>4 DEF TruncationIsTrue
<1> QED BY <1>1, <1>2, <1>3, Invariance, PTL DEF Spec

------------------------------------------------------------------------------
(* OneShot.                                                                *)

\* The container, what the call has told, a lifecycle tool, and how far the call is.
States == {"absent", "created", "running", "paused", "exited"}
Box == [state : States, auto : BOOLEAN, restart : BOOLEAN,
        health : {"none", "starting", "healthy", "unhealthy"},
        out : [Outputs -> Nat], first : [Outputs -> Nat], starts : Nat, exits : Nat,
        stopped : BOOLEAN, taken : BOOLEAN]
Told == [id : BOOLEAN, timedOut : BOOLEAN, removed : BOOLEAN, error : BOOLEAN,
         out : [Outputs -> Nat \cup {None}]]
Cycle == [op : {None, "start", "stop", "kill", "restart", "pause", "unpause", "remove"},
          step : {"none", "reread", "reload"}, auto : BOOLEAN,
          reply : {None, "attrs", "removed_on_exit", "not found"}]

Before == {"check", "pull", "create"}
Ahead == {"start", "cleanup", "wait", "stdout", "stderr", "remove"}
Afterwards == {"stdout", "stderr", "remove", "done"}

\* Every record keeps its shape.
Shapes ==
  /\ req \in Requests
  /\ box \in Box
  /\ told \in Told
  /\ cycle \in Cycle
  /\ run \in Before \cup Ahead \cup {"reread", "done", "raised", "lost"}

\* A container the daemon can have: what is written is never unwritten, and none
\* stops without an exit.
Whole(b) ==
  /\ b \in Box
  /\ b.exits = 0 => b.first = Silent
  /\ \A s \in Outputs : b.first[s] <= b.out[s]
  /\ b.state = "exited" => b.exits > 0
  /\ b.state = "created" => b.exits = 0
  /\ b.taken => b.state = "absent"

\* No container is there before its call makes it, or is left for the daemon to
\* remove by a timed call.
Life ==
  /\ Whole(box)
  /\ box.state = "created" => run \notin Afterwards \cup {"wait", "reread"}
  /\ box.auto => ~req.timed
  /\ run \in Before => box = NoBox /\ cycle = NoCycle

\* A one-shot call's container is there for it until a person takes it away; its
\* output is read after its first exit.
Reads ==
  req.timed =>
    /\ run # "reread"
    /\ run \in Ahead => Exists \/ box.taken
    /\ run \in Afterwards /\ ~told.timedOut => box.exits > 0 \/ box.taken
    /\ \A s \in Outputs : told.out[s] # None /\ ~told.timedOut =>
         box.exits > 0 /\ told.out[s] >= Capped(box.first[s])
    /\ run = "done" => Exists \/ box.taken \/ ~Keeps

\* What the call has told or still has to tell.
Tells ==
  /\ run \in Before \cup {"start", "cleanup", "wait", "lost"} => told = NothingTold
  /\ run = "cleanup" => RemoveAfter
  /\ run \in Ahead => ~told.removed
  /\ run \in {"stderr", "remove", "done"} /\ req.timed =>
       told.out["stdout"] # None \/ told.error
  /\ run \in {"remove", "done"} /\ req.timed => told.out["stderr"] # None \/ told.error
  /\ run \in {"done", "raised"} /\ req.timed =>
       /\ Exists => told.id
       /\ told.removed => ~Exists
       /\ req.auto /\ run = "done" => told.removed \/ told.timedOut \/ told.error

\* A lifecycle tool knows who may remove the container under it.
Cycles ==
  /\ cycle.step # "none" =>
       /\ cycle.auto = box.auto
       /\ Exists \/ box.taken \/ box.auto \/ RemoveAfter
       /\ cycle.reply = None
       /\ cycle.op \in {"start", "stop", "kill", "restart"} => cycle.step = "reread"
  /\ cycle.reply = "not found" /\ cycle.op \in {"start", "stop", "kill", "restart"} =>
       box.taken \/ RemoveAfter

RunInv == Shapes /\ Life /\ Reads /\ Tells /\ Cycles

------------------------------------------------------------------------------

\* The invariant holds before container_run begins.
LEMMA InitRunInv == RunInit => RunInv
<1> SUFFICES ASSUME RunInit PROVE RunInv
  OBVIOUS
<1> USE DEF RunInit
<1>1. Shapes
  BY DEF Shapes, Before, Box, Told, Cycle, States, NoBox, NothingTold, NoCycle, Silent
<1>2. Life
  BY DEF Life, Whole, Before, Afterwards, Box, States, NoBox, Silent
<1>3. Reads
  BY DEF Reads, Ahead, Afterwards, NothingTold
<1>4. Tells
  BY DEF Tells, NothingTold, Ahead
<1>5. Cycles
  BY NoneAssumption DEF Cycles, NoCycle
<1> QED BY <1>1, <1>2, <1>3, <1>4, <1>5 DEF RunInv

\* What becomes of a container that a call has made, until the call removes it.
Lives(b, c) ==
  /\ c.auto = b.auto
  /\ b.taken => c.taken
  /\ b.exits > 0 => c.exits > 0 /\ c.first = b.first
  /\ c.state # "absent" => b.state # "absent"
  /\ b.state # "absent" /\ c.state = "absent" => b.auto \/ c.taken
  /\ c.state = "created" => b.state = "created"

\* The daemon starts a container.
LEMMA StartedLives ==
  ASSUME NEW b, Whole(b), b.state # "absent"
  PROVE  Whole(Started(b)) /\ Lives(b, Started(b))
<1> DEFINE n == b.starts + 1
           c == Started(b)
<1>1. b \in Box /\ n \in Nat /\ "running" \in States
  BY DEF Whole, Box, States
<1>2. c = [b EXCEPT !.state = "running", !.starts = n]
  BY <1>1 DEF Started, Box
<1> HIDE DEF n, c
<1>3. /\ c \in Box /\ c.state = "running"
      /\ c.auto = b.auto /\ c.taken = b.taken /\ c.exits = b.exits
      /\ c.first = b.first /\ c.out = b.out
  BY <1>1, <1>2 DEF Box
<1>4. Whole(c) /\ Lives(b, c)
  BY <1>3 DEF Whole, Lives
<1> QED BY <1>4 DEF c

\* Its program exits, and the daemon removes it if that was left to it.
LEMMA ExitedLives ==
  ASSUME NEW b, Whole(b), b.state # "absent"
  PROVE  Whole(Exited(b)) /\ Lives(b, Exited(b)) /\ Exited(b).state \in {"exited", "absent"}
<1> DEFINE state == IF b.auto THEN "absent" ELSE "exited"
           first == IF b.exits = 0 THEN b.out ELSE b.first
           n == b.exits + 1
           c == Exited(b)
<1>1. n \in Nat /\ n > 0 /\ b.exits \in Nat /\ b \in Box
  BY DEF Whole, Box
<1>2. state \in States /\ state \in {"exited", "absent"} /\ first \in [Outputs -> Nat]
  BY DEF States, Whole, Box
<1>3. c = [b EXCEPT !.state = state, !.exits = n, !.first = first]
  BY <1>1 DEF Exited, Box
<1>4. /\ state = "absent" => b.auto
      /\ b.exits > 0 => first = b.first
      /\ \A s \in Outputs : first[s] <= b.out[s]
  BY DEF Whole, Box
<1> HIDE DEF state, first, n, c
<1>5. /\ c \in Box /\ c.state = state /\ c.exits = n /\ c.first = first
      /\ c.auto = b.auto /\ c.taken = b.taken /\ c.out = b.out
  BY <1>1, <1>2, <1>3 DEF Box
<1>6. Whole(c) /\ Lives(b, c) /\ c.state \in {"exited", "absent"}
  BY <1>1, <1>2, <1>4, <1>5 DEF Whole, Lives
<1> QED BY <1>6 DEF c

\* A restart is both, one after the other.
LEMMA LivesAndLives ==
  ASSUME NEW b, NEW c, NEW d, Lives(b, c), Lives(c, d)
  PROVE  Lives(b, d)
BY DEF Lives

\* The program and the restart policy.
LEMMA DaemonLives ==
  ASSUME Whole(box), Program \/ PolicyRestarts
  PROVE  Whole(box') /\ Lives(box, box')
<1>1. ASSUME NEW s \in Outputs, box' = [box EXCEPT !.out[s] = @ + 1]
      PROVE  Whole(box') /\ Lives(box, box')
  <2> DEFINE more == [box.out EXCEPT ![s] = @ + 1]
  <2>1. more \in [Outputs -> Nat] /\ \A u \in Outputs : box.out[u] <= more[u]
    BY DEF Whole, Box
  <2>2. box' = [box EXCEPT !.out = more]
    BY <1>1 DEF Whole, Box
  <2> HIDE DEF more
  <2>3. \A u \in Outputs : box.first[u] <= more[u]
    BY <2>1 DEF Whole, Box
  <2> QED BY <2>1, <2>2, <2>3 DEF Whole, Box, Lives
<1>2. ASSUME NEW h \in {"healthy", "unhealthy"}, box' = [box EXCEPT !.health = h]
      PROVE  Whole(box') /\ Lives(box, box')
  BY <1>2 DEF Whole, Box, Lives
<1>3. CASE box.state = "running" /\ box' = Exited(box)
  BY <1>3, ExitedLives
<1>4. CASE PolicyRestarts
  BY <1>4, StartedLives DEF PolicyRestarts
<1> QED BY <1>1, <1>2, <1>3, <1>4 DEF Program

\* The tools that read again with _reread.
Exempt == {"start", "stop", "kill", "restart"}

\* A lifecycle tool: the container lives on, and the tool knows what it fetched.
LEMMA ActLives ==
  ASSUME Whole(box), Lifecycle
  PROVE  /\ Whole(box') /\ Lives(box, box')
         /\ cycle.step = "none" /\ Exists /\ UNCHANGED <<req, run, told>>
         /\ cycle'.auto = box.auto /\ cycle'.reply = None
         /\ cycle' \in [op : Exempt, step : {"reread"}, auto : {box.auto}, reply : {None}]
              \cup [op : {"pause", "unpause"}, step : {"reload"}, auto : {box.auto}, reply : {None}]
              \cup [op : {"remove"}, step : {"none"}, auto : {box.auto}, reply : {None}]
<1> USE DEF Act, Exists, Live, Exempt
<1>1. CASE ContainerStart
  BY <1>1, StartedLives DEF ContainerStart
<1>2. CASE ContainerStop \/ ContainerKill
  <2> DEFINE b == StopBox
  <2>1. Whole(b) /\ Lives(box, b) /\ b.state = box.state
    BY DEF Whole, Box, StopBox, Lives
  <2>2. box' = Exited(b) /\ box.state # "absent"
    BY <1>2 DEF ContainerStop, ContainerKill
  <2> HIDE DEF b
  <2>3. Whole(box') /\ Lives(box, box')
    BY <2>1, <2>2, ExitedLives, LivesAndLives
  <2> QED BY <1>2, <2>3 DEF ContainerStop, ContainerKill
<1>3. CASE ContainerRestart
  <2> DEFINE b == Exited(box)
  <2>1. Whole(b) /\ Lives(box, b) /\ b.state # "absent"
    BY <1>3, ExitedLives DEF ContainerRestart, Lives, Exited, Whole, Box
  <2>2. box' = Started(b)
    BY <1>3 DEF ContainerRestart
  <2> HIDE DEF b
  <2>3. Whole(box') /\ Lives(box, box')
    BY <2>1, <2>2, StartedLives, LivesAndLives
  <2> QED BY <1>3, <2>3 DEF ContainerRestart
<1>4. CASE ContainerPause \/ ContainerUnpause
  <2>1. PICK st \in {"paused", "running"} :
          box' = [box EXCEPT !.state = st] /\ box.state \in {"paused", "running"}
    BY <1>4 DEF ContainerPause, ContainerUnpause
  <2>2. Whole(box') /\ Lives(box, box')
    BY <2>1 DEF Whole, Box, States, Lives
  <2> QED BY <1>4, <2>2 DEF ContainerPause, ContainerUnpause
<1>5. CASE ContainerRemove
  <2> DEFINE b == IF Live THEN Exited(box) ELSE box
  <2>1. Exists
    BY <1>5 DEF ContainerRemove
  <2>2. Whole(b) /\ Lives(box, b)
    BY <2>1, ExitedLives DEF Lives
  <2>3. box' = [b EXCEPT !.state = "absent", !.taken = TRUE]
    BY <1>5 DEF ContainerRemove
  <2> HIDE DEF b
  <2>4. Whole(box') /\ Lives(b, box')
    BY <2>2, <2>3 DEF Whole, Box, States, Lives
  <2>5. Lives(box, box')
    BY <2>2, <2>4, LivesAndLives
  <2> QED BY <1>5, <2>4, <2>5 DEF ContainerRemove
<1> QED BY <1>1, <1>2, <1>3, <1>4, <1>5 DEF Lifecycle

\* Whatever the daemon and people do to the container, what the call knows of it
\* stays true.
LEMMA CallUndisturbed ==
  ASSUME RunInv, Whole(box'), Lives(box, box'), run \notin Before, UNCHANGED <<req, run, told>>
  PROVE  Life' /\ Reads' /\ Tells'
<1> USE DEF RunInv, Exists
<1>1. Life'
  BY DEF Life, Lives, Afterwards, Before
<1>2. Reads'
  <2> SUFFICES ASSUME req.timed PROVE Reads'
    BY DEF Reads
  <2>1. ~box.auto
    BY DEF Life
  <2>2. Exists => Exists' \/ box'.taken
    BY <2>1 DEF Lives
  <2>3. box.taken => box'.taken
    BY DEF Lives
  <2>4. box.exits > 0 => box'.exits > 0 /\ box'.first = box.first
    BY DEF Lives
  <2> QED BY <2>2, <2>3, <2>4 DEF Reads, Keeps, Ahead, Afterwards
<1>3. Tells'
  BY DEF Tells, Lives, RemoveAfter, Ahead, Before
<1> QED BY <1>1, <1>2, <1>3

\* Steps of the daemon and of the lifecycle tools keep the invariant.
LEMMA OthersStep ==
  ASSUME RunInv, Program \/ PolicyRestarts \/ Lifecycle
  PROVE  RunInv'
<1>1. Whole(box) /\ Shapes /\ Cycles
  BY DEF RunInv, Life
<1>2. run \notin Before
  BY DEF RunInv, Life, Program, PolicyRestarts, NoBox, Lifecycle, ContainerStart, ContainerStop,
     ContainerKill, ContainerRestart, ContainerPause, ContainerUnpause, ContainerRemove, Act,
     Exists
<1>3. CASE Program \/ PolicyRestarts
  <2>1. Whole(box') /\ Lives(box, box')
    BY <1>1, <1>3, DaemonLives
  <2>2. UNCHANGED <<req, run, told, cycle>>
    BY <1>3 DEF Program, PolicyRestarts
  <2>3. Shapes'
    BY <1>1, <2>1, <2>2 DEF Shapes, Whole
  <2>4. Cycles'
    BY <1>1, <2>1, <2>2 DEF Cycles, Lives, Exists, RemoveAfter
  <2> QED BY <1>2, <2>1, <2>2, <2>3, <2>4, CallUndisturbed DEF RunInv
<1>4. CASE Lifecycle
  <2>1. /\ Whole(box') /\ Lives(box, box') /\ Exists /\ UNCHANGED <<req, run, told>>
        /\ cycle'.auto = box.auto /\ cycle'.reply = None
    BY <1>1, <1>4, ActLives
  <2>2. cycle' \in [op : Exempt, step : {"reread"}, auto : {box.auto}, reply : {None}]
          \cup [op : {"pause", "unpause"}, step : {"reload"}, auto : {box.auto}, reply : {None}]
          \cup [op : {"remove"}, step : {"none"}, auto : {box.auto}, reply : {None}]
    BY <1>1, <1>4, ActLives
  <2>3. box.auto \in BOOLEAN
    BY <1>1 DEF Whole, Box
  <2>4. /\ cycle' \in Cycle
        /\ cycle'.op \in Exempt => cycle'.step = "reread"
    BY <2>2, <2>3 DEF Cycle, Exempt
  <2>5. Shapes'
    BY <1>1, <2>1, <2>4 DEF Shapes, Whole
  <2>6. Cycles'
    BY <2>1, <2>4, NoneAssumption DEF Cycles, Lives, Exists, Exempt
  <2> QED BY <1>2, <2>1, <2>5, <2>6, CallUndisturbed DEF RunInv
<1> QED BY <1>3, <1>4

\* A lifecycle tool that does not find its container again can say why.
LEMMA RereadStep ==
  ASSUME RunInv, CycleReread
  PROVE  RunInv'
<1>1. UNCHANGED <<req, box, run, told>> /\ cycle.step \in {"reread", "reload"}
  BY DEF CycleReread
<1>2. cycle \in Cycle /\ cycle # NoCycle
  BY <1>1 DEF RunInv, Shapes, NoCycle
<1>3. /\ cycle' \in Cycle /\ cycle'.step = "none" /\ cycle'.op = cycle.op
      /\ cycle'.reply = IF cycle.step = "reread" THEN Reread(cycle.auto)
                         ELSE IF Exists THEN "attrs" ELSE "not found"
  BY <1>2 DEF CycleReread, Cycle, Reread
<1>4. Cycles'
  <2> SUFFICES ASSUME cycle'.reply = "not found", cycle.op \in Exempt
               PROVE  box.taken \/ RemoveAfter
    BY <1>1, <1>3 DEF Cycles, RemoveAfter, Exempt
  <2>1. cycle.step = "reread" /\ cycle.auto = box.auto
    BY <1>1 DEF RunInv, Cycles, Exempt
  <2>2. ~Exists /\ ~cycle.auto
    BY <1>3, <2>1 DEF Reread
  <2> QED BY <1>1, <2>1, <2>2 DEF RunInv, Cycles
<1>5. Shapes'
  BY <1>1, <1>3 DEF RunInv, Shapes
<1>6. Life'
  BY <1>1, <1>2 DEF RunInv, Life
<1>7. Reads' /\ Tells'
  BY <1>1 DEF RunInv, Reads, Tells, Exists, Keeps, RemoveAfter
<1> QED BY <1>4, <1>5, <1>6, <1>7 DEF RunInv

\* Waits only look.
LEMMA WaitStep ==
  ASSUME RunInv, WaitStart \/ Waiting \/ Expire \/ UNCHANGED runVars
  PROVE  RunInv'
<1>1. UNCHANGED <<req, box, run, told, cycle>>
  BY DEF WaitStart, Waiting, WaitDaemon, WaitHealth, WaitLogs, WaitStatus, Expire, runVars
<1>2. Shapes' /\ Life'
  BY <1>1 DEF RunInv, Shapes, Life
<1>3. Reads' /\ Tells'
  BY <1>1 DEF RunInv, Reads, Tells, Exists, Keeps, RemoveAfter
<1>4. Cycles'
  BY <1>1 DEF RunInv, Cycles, Exists, RemoveAfter
<1> QED BY <1>2, <1>3, <1>4 DEF RunInv

\* Up to the create there is nothing to lose.
LEMMA BeforeStep ==
  ASSUME RunInv, Check \/ Pull \/ Create
  PROVE  RunInv'
<1>1. /\ run \in Before /\ box = NoBox /\ cycle = NoCycle /\ told = NothingTold
      /\ req' = req /\ cycle' = NoCycle
  BY DEF Check, Pull, Create, Before, RunInv, Life, Tells
<1>2. req \in Requests /\ req.timed \in BOOLEAN /\ req.auto \in BOOLEAN /\ req.restart \in BOOLEAN
  BY RequestsAssumption DEF RunInv, Shapes
<1>3. NoCycle \in Cycle /\ NoCycle.step = "none" /\ NoCycle.reply # "not found"
  BY NoneAssumption DEF NoCycle, Cycle
<1>4. Cycles'
  BY <1>1, <1>3 DEF Cycles
<1>5. NothingTold \in Told /\ \A s \in Outputs : NothingTold.out[s] = None
  BY DEF NothingTold, Told
<1>6. CASE box' = box /\ Raise(FALSE)
  <2>1. /\ run' = "raised" /\ told' \in Told /\ ~told'.removed
        /\ told'.out = NothingTold.out
    BY <1>1, <1>5, <1>6 DEF Raise, Goto, Told, NothingTold
  <2>2. Shapes'
    BY <1>1, <1>2, <1>3, <1>6, <2>1 DEF RunInv, Shapes
  <2>3. Life'
    BY <1>1, <1>6, <2>1 DEF RunInv, Life, Before, Afterwards
  <2>4. Reads'
    BY <1>1, <1>5, <2>1 DEF Reads, Ahead, Afterwards
  <2>5. Tells'
    BY <1>1, <1>6, <2>1 DEF Tells, Before, Ahead, Exists, NoBox
  <2> QED BY <1>4, <2>2, <2>3, <2>4, <2>5 DEF RunInv
<1>7. CASE box' = box /\ told' = told /\ run' \in Before
  <2>1. Shapes'
    BY <1>1, <1>7 DEF RunInv, Shapes
  <2>2. Life'
    BY <1>1, <1>7 DEF RunInv, Life, Before, Afterwards
  <2>3. Reads'
    BY <1>1, <1>5, <1>7 DEF Reads, Before, Ahead, Afterwards
  <2>4. Tells'
    BY <1>1, <1>7 DEF Tells, Before, Ahead
  <2> QED BY <1>4, <2>1, <2>2, <2>3, <2>4 DEF RunInv
<1>8. ASSUME NEW h \in {"none", "starting"}, told' = told, run' \in {"start", "lost"},
             box' = [box EXCEPT !.state = "created", !.auto = AutoRemove,
                                !.restart = req.restart, !.health = h]
      PROVE  RunInv'
  <2>1. AutoRemove \in BOOLEAN /\ (AutoRemove => ~req.timed)
    BY <1>2 DEF AutoRemove
  <2>2. Whole(box) /\ box.exits = 0 /\ ~box.taken
    BY <1>1 DEF RunInv, Life, NoBox
  <2>3. /\ box' \in Box /\ box'.state = "created" /\ box'.auto = AutoRemove
        /\ box'.exits = box.exits /\ box'.first = box.first /\ box'.out = box.out
        /\ box'.taken = box.taken
    BY <1>2, <1>8, <2>1, <2>2 DEF Whole, Box, States
  <2>4. Whole(box')
    BY <2>2, <2>3 DEF Whole
  <2>5. Shapes'
    BY <1>1, <1>8, <2>3 DEF RunInv, Shapes, Ahead
  <2>6. Life'
    BY <1>1, <1>8, <2>1, <2>3, <2>4 DEF Life, Before, Afterwards
  <2>7. Reads'
    BY <1>1, <1>5, <1>8, <2>3 DEF Reads, Afterwards, Exists
  <2>8. Tells'
    BY <1>1, <1>8 DEF Tells, NothingTold
  <2> QED BY <1>4, <2>5, <2>6, <2>7, <2>8 DEF RunInv
<1>9. CASE Check
  BY <1>6, <1>7, <1>9 DEF Check, Goto, Before
<1>10. CASE Pull
  BY <1>6, <1>7, <1>10 DEF Pull, Goto, Before
<1>11. CASE Create
  BY <1>6, <1>8, <1>11 DEF Create
<1> QED BY <1>9, <1>10, <1>11

\* A start that fails names the container, or leaves it to the clean-up.
LEMMA StartStep ==
  ASSUME RunInv, Start
  PROVE  RunInv'
<1>1. run = "start" /\ told = NothingTold /\ UNCHANGED <<req, cycle>>
  BY DEF Start, RunInv, Tells
<1>2. Whole(box)
  BY DEF RunInv, Life
<1>3. Whole(box') /\ Lives(box, box') /\ box'.state \in {box.state, "running"}
  <2>1. CASE box' = box
    BY <1>2, <2>1 DEF Lives
  <2>2. CASE box.state = "created" /\ box' = Started(box)
    BY <1>2, <2>2, StartedLives DEF Started, Whole, Box
  <2> QED BY <2>1, <2>2 DEF Start
<1>4. req.timed \in BOOLEAN /\ req \in Requests
  BY RequestsAssumption DEF RunInv, Shapes
<1>5. /\ \A s \in Outputs : told'.out[s] = None
      /\ told' \in Told /\ ~told'.removed
      /\ run' # "raised" => told' = NothingTold
      /\ run' = "raised" => told'.id = req.timed
      /\ \/ run' = "wait" /\ req.timed /\ box'.state = "running"
         \/ run' = "reread" /\ ~req.timed /\ box'.state = "running"
         \/ run' = "cleanup" /\ RemoveAfter
         \/ run' = "raised"
  <2>1. NothingTold \in Told /\ ~NothingTold.removed /\ \A s \in Outputs : NothingTold.out[s] = None
    BY DEF NothingTold, Told
  <2>2. CASE ~Raise(req.timed)
    <3>1. box' = Started(box) => box'.state = "running"
      BY <1>2 DEF Started, Whole, Box
    <3>2. \/ run' = "wait" /\ req.timed /\ box' = Started(box) /\ told' = told
          \/ run' = "reread" /\ ~req.timed /\ box' = Started(box) /\ told' = told
          \/ run' = "cleanup" /\ RemoveAfter /\ told' = told
      BY <1>4, <2>2 DEF Start, Goto
    <3> QED BY <1>1, <2>1, <3>1, <3>2
  <2>3. CASE Raise(req.timed)
    BY <1>1, <1>4, <2>1, <2>3 DEF Raise, Goto, Told
  <2> QED BY <2>2, <2>3 DEF Start
<1>6. Shapes'
  BY <1>1, <1>3, <1>5 DEF RunInv, Shapes, Whole, Ahead
<1>7. Life'
  BY <1>1, <1>3, <1>5 DEF RunInv, Life, Lives, Before, Afterwards
<1>8. Reads'
  BY <1>1, <1>3, <1>5 DEF RunInv, Reads, Life, Lives, Exists, Ahead, Afterwards
<1>9. Tells'
  BY <1>1, <1>4, <1>5 DEF Tells, RemoveAfter, Before, Ahead
<1>10. Cycles'
  BY <1>1, <1>3 DEF RunInv, Cycles, Lives, Exists, RemoveAfter
<1> QED BY <1>6, <1>7, <1>8, <1>9, <1>10 DEF RunInv

\* A removal takes the container and nothing else.
LEMMA RemovedIsWhole ==
  ASSUME Whole(box)
  PROVE  /\ Whole(Removed(box)) /\ Removed(box).state = "absent"
         /\ Removed(box).auto = box.auto /\ Removed(box).taken = box.taken
         /\ Removed(box).exits = box.exits /\ Removed(box).first = box.first
BY DEF Whole, Box, States, Removed

\* The clean-up removes the container or names it.
LEMMA CleanUpStep ==
  ASSUME RunInv, CleanUp
  PROVE  RunInv'
<1>1. /\ run = "cleanup" /\ run' = "raised" /\ told = NothingTold /\ UNCHANGED <<req, cycle>>
      /\ RemoveAfter /\ Whole(box)
  BY DEF CleanUp, RunInv, Tells, Life, Raise, RaisesBoth, Goto
<1>2. PICK named \in BOOLEAN : /\ told' = [told EXCEPT !.id = named, !.error = TRUE]
                               /\ box' = IF named THEN box ELSE Removed(box)
  BY DEF CleanUp, Raise, RaisesBoth
<1>3. /\ told' \in Told /\ told'.id = named /\ ~told'.removed
      /\ \A s \in Outputs : told'.out[s] = None
  BY <1>1, <1>2 DEF NothingTold, Told
<1>4. /\ Whole(box') /\ (box' = box \/ box'.state = "absent") /\ (~named => box'.state = "absent")
      /\ box'.auto = box.auto /\ box'.taken = box.taken
  BY <1>1, <1>2, RemovedIsWhole
<1>5. Shapes'
  BY <1>1, <1>3, <1>4 DEF RunInv, Shapes, Whole
<1>6. Life'
  BY <1>1, <1>4 DEF RunInv, Life, Before, Afterwards
<1>7. Reads'
  BY <1>1, <1>3 DEF RunInv, Reads, Ahead, Afterwards
<1>8. Tells'
  BY <1>1, <1>3, <1>4 DEF Tells, Before, Ahead, Exists
<1>9. Cycles'
  BY <1>1, <1>4 DEF RunInv, Cycles, RemoveAfter
<1> QED BY <1>5, <1>6, <1>7, <1>8, <1>9 DEF RunInv

\* Without a timeout the call ends with its re-read.
LEMMA DescribeStep ==
  ASSUME RunInv, Describe
  PROVE  RunInv'
<1>1. /\ run = "reread" /\ run' \in {"done", "raised"} /\ UNCHANGED <<req, box, cycle>>
      /\ told' \in Told
  BY DEF Describe, RunInv, Shapes, Told, Raise, Goto
<1>2. ~req.timed
  BY <1>1 DEF RunInv, Reads
<1>3. Shapes' /\ Life'
  BY <1>1, <1>2 DEF RunInv, Shapes, Life, Before, Afterwards
<1>4. Reads'
  BY <1>1, <1>2 DEF Reads
<1>5. Tells'
  BY <1>1, <1>2 DEF Tells, Before, Ahead
<1>6. Cycles'
  BY <1>1 DEF RunInv, Cycles, Exists, RemoveAfter
<1> QED BY <1>3, <1>4, <1>5, <1>6 DEF RunInv

\* A wait that ended in time saw the exit.
LEMMA AwaitStep ==
  ASSUME RunInv, AwaitExit
  PROVE  RunInv'
<1>1. /\ run = "wait" /\ told = NothingTold /\ UNCHANGED <<req, box, cycle>> /\ Whole(box)
  BY DEF AwaitExit, RunInv, Tells, Life
<1>2. NothingTold \in Told /\ ~NothingTold.removed /\ \A s \in Outputs : NothingTold.out[s] = None
  BY DEF NothingTold, Told
<1>3. /\ told' \in Told /\ ~told'.removed /\ \A s \in Outputs : told'.out[s] = None
      /\ \/ run' = "raised" /\ told'.id
         \/ run' = "stdout" /\ told'.timedOut
         \/ run' = "stdout" /\ (~Live \/ box.exits > 0)
  BY <1>1, <1>2 DEF AwaitExit, Raise, Goto, Told
<1>4. Shapes' /\ Life'
  <2>1. box.state # "created"
    BY <1>1 DEF RunInv, Life
  <2> QED BY <1>1, <1>3, <2>1 DEF RunInv, Shapes, Life, Before, Ahead, Afterwards
<1>5. Reads'
  <2> SUFFICES ASSUME req.timed PROVE Reads'
    BY <1>1 DEF Reads
  <2>1. Exists \/ box.taken
    BY <1>1 DEF RunInv, Reads, Ahead
  <2>2. ~Live => box.exits > 0 \/ box.taken
    BY <1>1, <2>1 DEF RunInv, Life, Whole, Box, States, Exists, Live
  <2> QED BY <1>1, <1>3, <2>1, <2>2 DEF Reads, Afterwards, Exists, Ahead
<1>6. Tells'
  BY <1>1, <1>3 DEF Tells, Before, Ahead
<1>7. Cycles'
  BY <1>1 DEF RunInv, Cycles, Exists, RemoveAfter
<1> QED BY <1>4, <1>5, <1>6, <1>7 DEF RunInv

\* So what is read then holds what was written before it.
LEMMA ReadStep ==
  ASSUME RunInv, Read("stdout", "stderr") \/ Read("stderr", "remove")
  PROVE  RunInv'
<1>1. PICK s \in Outputs : Read(s, IF s = "stdout" THEN "stderr" ELSE "remove")
  BY DEF Outputs
<1> DEFINE next == IF s = "stdout" THEN "stderr" ELSE "remove"
           n == Capped(box.out[s])
<1>2. /\ run = s /\ run' = next /\ UNCHANGED <<req, box, cycle>> /\ Whole(box) /\ told \in Told
  BY <1>1 DEF Read, Goto, RunInv, Life, Shapes
<1>3. n \in Nat /\ n >= Capped(box.first[s])
  BY <1>2, BoundsAssumption DEF Whole, Box, Capped
<1>4. n # None
  BY <1>3, NoneAssumption
<1> HIDE DEF n
<1>5. /\ told' \in Told /\ told'.removed = told.removed /\ told'.timedOut = told.timedOut
      /\ \A u \in Outputs \ {s} : told'.out[u] = told.out[u]
      /\ told.error => told'.error
      /\ \/ Exists /\ told'.out[s] = n
         \/ told'.out = told.out /\ told'.error
  <2>1. CASE Exists /\ told' = [told EXCEPT !.out[s] = n]
    <3> DEFINE out == [told.out EXCEPT ![s] = n]
    <3>1. /\ out \in [Outputs -> Nat \cup {None}] /\ out[s] = n
          /\ \A u \in Outputs \ {s} : out[u] = told.out[u]
      BY <1>2, <1>3 DEF Told
    <3>2. told' = [told EXCEPT !.out = out]
      BY <1>2, <2>1 DEF Told
    <3> HIDE DEF out
    <3> QED BY <1>2, <2>1, <3>1, <3>2 DEF Told
  <2>2. CASE told' = [told EXCEPT !.error = TRUE]
    BY <1>2, <2>2 DEF Told
  <2> QED BY <1>1, <2>1, <2>2 DEF Read, n
<1>6. Shapes' /\ Life'
  BY <1>2, <1>5 DEF RunInv, Shapes, Life, Before, Ahead, Afterwards, Outputs
<1>7. Reads'
  <2> SUFFICES ASSUME req.timed PROVE Reads'
    BY <1>2 DEF Reads
  <2>1. Exists \/ box.taken
    BY <1>2 DEF RunInv, Reads, Ahead, Outputs
  <2>2. ~told.timedOut => box.exits > 0 \/ box.taken
    BY <1>2 DEF RunInv, Reads, Afterwards, Outputs
  <2>3. next \in Ahead /\ next \in Afterwards /\ next \notin {"reread", "done"}
    BY DEF Ahead, Afterwards
  <2>4. ASSUME NEW u \in Outputs, told'.out[u] # None, ~told.timedOut
        PROVE  box.exits > 0 /\ told'.out[u] >= Capped(box.first[u])
    <3>1. CASE u = s /\ Exists /\ told'.out[s] = n
      <4>1. ~box.taken
        BY <1>2, <3>1 DEF Whole, Exists
      <4>2. box.exits > 0
        BY <2>2, <2>4, <4>1
      <4> QED BY <1>3, <3>1, <4>2
    <3>2. CASE told'.out[u] = told.out[u]
      BY <1>2, <2>4, <3>2 DEF RunInv, Reads
    <3> QED BY <1>5, <3>1, <3>2
  <2> QED BY <1>2, <1>5, <2>1, <2>2, <2>3, <2>4 DEF Reads, Exists
<1>8. Tells'
  BY <1>2, <1>4, <1>5 DEF RunInv, Tells, Before, Ahead, Outputs
<1>9. Cycles'
  BY <1>2 DEF RunInv, Cycles, Exists, RemoveAfter
<1> QED BY <1>6, <1>7, <1>8, <1>9 DEF RunInv

\* And the removal comes after both reads, or not at all.
LEMMA FinishStep ==
  ASSUME RunInv, Finish
  PROVE  RunInv'
<1>1. /\ run = "remove" /\ run' = "done" /\ UNCHANGED <<req, cycle>> /\ Whole(box)
      /\ told \in Told
  BY DEF Finish, Goto, RunInv, Life, Shapes
<1>2. /\ told' \in Told /\ told'.id /\ told'.out = told.out /\ told'.timedOut = told.timedOut
      /\ told.error => told'.error
      /\ \/ /\ box' = box /\ told'.removed = told.removed
            /\ told'.error \/ ~RemoveAfter \/ Keeps
         \/ /\ RemoveAfter /\ ~Keeps /\ box' = Removed(box)
            /\ told'.removed \/ told'.error
  <2>1. CASE /\ box' = box /\ told' = [told EXCEPT !.id = TRUE]
             /\ ~RemoveAfter \/ Keeps
    BY <1>1, <2>1 DEF Told
  <2>2. ASSUME NEW lost \in BOOLEAN, RemoveAfter, ~Keeps, box' = Removed(box),
               told' = [told EXCEPT !.id = TRUE, !.removed = ~lost, !.error = @ \/ lost]
        PROVE  /\ told' \in Told /\ told'.id /\ told'.out = told.out
               /\ told'.timedOut = told.timedOut /\ (told.error => told'.error)
               /\ told'.removed \/ told'.error
    <3> DEFINE e == told.error \/ lost
    <3>1. told' = [told EXCEPT !.id = TRUE, !.removed = ~lost, !.error = e]
      BY <1>1, <2>2 DEF Told
    <3>2. e \in BOOLEAN /\ (told.error => e) /\ (~lost \/ e)
      OBVIOUS
    <3> HIDE DEF e
    <3> QED BY <1>1, <3>1, <3>2 DEF Told
  <2>3. CASE box' = box /\ told' = [told EXCEPT !.id = TRUE, !.error = TRUE]
    BY <1>1, <2>3 DEF Told
  <2> QED BY <2>1, <2>2, <2>3 DEF Finish
<1>3. /\ Whole(box') /\ (box' = box \/ (RemoveAfter /\ box'.state = "absent"))
      /\ box'.auto = box.auto /\ box'.taken = box.taken /\ box'.exits = box.exits
      /\ box'.first = box.first
  BY <1>1, <1>2, RemovedIsWhole
<1>4. Shapes'
  BY <1>1, <1>2, <1>3 DEF RunInv, Shapes, Whole
<1>5. Life'
  BY <1>1, <1>3 DEF RunInv, Life, Before, Afterwards
<1>6. Reads'
  <2> SUFFICES ASSUME req.timed PROVE Reads'
    BY <1>1 DEF Reads
  <2>1. Exists \/ box.taken
    BY <1>1 DEF RunInv, Reads, Ahead
  <2>2. Keeps' <=> Keeps
    BY <1>2 DEF Keeps
  <2>3. Exists' \/ box'.taken \/ ~Keeps'
    BY <1>2, <2>1, <2>2 DEF Exists
  <2>4. ~told'.timedOut => box'.exits > 0 \/ box'.taken
    BY <1>1, <1>2, <1>3 DEF RunInv, Reads, Afterwards
  <2>5. \A s \in Outputs : told'.out[s] # None /\ ~told'.timedOut =>
          box'.exits > 0 /\ told'.out[s] >= Capped(box'.first[s])
    BY <1>1, <1>2, <1>3 DEF RunInv, Reads
  <2> QED BY <1>1, <2>3, <2>4, <2>5 DEF Reads, Ahead
<1>7. Tells'
  <2>1. ~told.removed
    BY <1>1 DEF RunInv, Tells, Ahead
  <2>2. req.timed => (told.out["stdout"] # None \/ told.error)
                     /\ (told.out["stderr"] # None \/ told.error)
    BY <1>1 DEF RunInv, Tells
  <2>3. req.timed /\ Keeps => told.timedOut \/ told.error
    BY <2>2 DEF Keeps, Outputs
  <2>4. told'.removed => ~Exists'
    BY <1>2, <1>1, <2>1, RemovedIsWhole DEF Exists
  <2>5. req.timed /\ req.auto => told'.removed \/ told'.timedOut \/ told'.error
    BY <1>2, <2>3 DEF RemoveAfter
  <2> QED BY <1>1, <1>2, <2>2, <2>4, <2>5 DEF Tells, Before, Ahead
<1>8. Cycles'
  BY <1>1, <1>3 DEF RunInv, Cycles, Exists, RemoveAfter
<1> QED BY <1>4, <1>5, <1>6, <1>7, <1>8 DEF RunInv

\* The invariant holds throughout the life of the container.
LEMMA RunInvariance == RunSpec => []RunInv
<1>1. RunInv /\ [RunNext]_runVars => RunInv'
  BY BeforeStep, StartStep, CleanUpStep, DescribeStep, AwaitStep, ReadStep, FinishStep, OthersStep,
     RereadStep, WaitStep DEF RunNext, ContainerRun
<1> QED BY InitRunInv, <1>1, PTL DEF RunSpec

\* A timed container_run destroys no output that it has not read, whichever of
\* its daemon calls fail and whoever else starts or stops the container.
THEOREM OutputAlwaysSurvives == RunSpec => []OutputSurvives
<1>1. RunInv => OutputSurvives
  BY DEF RunInv, Reads, Keeps, Afterwards, OutputSurvives
<1> QED BY RunInvariance, <1>1, PTL

\* container_run and the lifecycle tools account for the container they leave,
\* and do not report as missing one the daemon removed behind their back.
THEOREM EndsAreAccounted == RunSpec => []EndIsAccounted
<1>1. RunInv => EndIsAccounted
  BY DEF RunInv, Tells, Cycles, EndIsAccounted
<1> QED BY RunInvariance, <1>1, PTL
============================================================================
