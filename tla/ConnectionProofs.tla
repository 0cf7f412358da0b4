-------------------------- MODULE ConnectionProofs --------------------------
(***************************************************************************)
(* How a call reaches its daemon.  The per-call proxy of DialStdioProxy,   *)
(* for any number of connections and replies: stop() misses no connection, *)
(* a handler leaves nothing open and no reply is lost on a CLI that        *)
(* listens.  And the client pool of ClientPool, for any threads and        *)
(* labels: a pooled client is usable and every open one has one owner.     *)
(***************************************************************************)
EXTENDS DialStdioProxy, ClientPool, TLAPS

------------------------------------------------------------------------------
(* DialStdioProxy.                                                         *)

\* Only the accept thread hands connections over: it holds none between two of
\* them, and the one it holds is listed before its thread is started.
Handover ==
  /\ acceptor \notin {"append", "start"} => current = {}
  /\ acceptor = "start" => current \subseteq listed
  /\ \A c \in Conns :
       /\ client[c] \in {"none", "queued"} => conn[c] = "none"
       /\ conn[c] = "none" <=> c \notin current \cup listed
       /\ handler[c] = "none" <=> c \notin listed
       /\ handler[c] = "made" <=> acceptor = "start" /\ c \in current
       /\ acceptor = "append" => c \notin current \/ c \notin listed

\* How far stop() is, and what it knows when it waited for the accept thread.
Stopping ==
  /\ main # "serving" <=> stopped
  /\ main \in {"serving", "flagged", "unbound"} => ~waited
  /\ waited => acceptor = "done"
  /\ waited /\ main # "joined" => snapshot = listed
  /\ snapshot \subseteq listed

\* A connection's relays run behind its factory, and each closes, when it ends,
\* the end it wrote to.
Relays ==
  \A c \in Conns :
    /\ far[c] # "none" <=> fwd[c] # "none"
    /\ far[c] # "none" <=> bwd[c] # "none"
    /\ far[c] # "none" => handler[c] \in {"pump", "done"} /\ stream[c] # "none"
    /\ handler[c] = "pump" => far[c] # "none"
    /\ handler[c] = "done" => conn[c] = "closed"
    /\ handler[c] = "done" /\ far[c] # "none" => fwd[c] = "done" /\ bwd[c] = "done"
    /\ bwd[c] = "done" => conn[c] = "closed"
    /\ fwd[c] = "done" => stream[c] = "closed"
    /\ ~stopped /\ handler[c] \in {"none", "made", "factory", "exec"} => conn[c] # "closed"

\* Replies that are on their way in our hands.
Delivering(c) == IF bwd[c] = "send" THEN 1 ELSE 0

\* No reply is made up, and as long as the CLI keeps its side open and the call
\* goes on none is lost: our channel closes behind the far side only, and our
\* socket behind the last reply only.
Replies ==
  \A c \in Conns :
    /\ got[c] + unread[c] + Delivering(c) <= sent[c]
    /\ client[c] = "open" /\ ~stopped =>
         /\ got[c] + unread[c] + Delivering(c) = sent[c]
         /\ far[c] # "none" /\ stream[c] = "closed" => far[c] = "ended"
         /\ far[c] # "none" /\ conn[c] = "closed" => bwd[c] = "done"
         /\ bwd[c] = "done" => unread[c] = 0 /\ far[c] = "ended"
    /\ far[c] = "none" => sent[c] = 0

IInv == TypeOK /\ Handover /\ Stopping /\ Relays /\ Replies

------------------------------------------------------------------------------
\* The initial states satisfy the invariant.
LEMMA InitIInv == Init => IInv
<1> SUFFICES ASSUME Init PROVE IInv
  OBVIOUS
<1> USE DEF Init
<1>0. 0 \in 0 .. MaxReplies
  BY ConstantsAssumption
<1>1. TypeOK BY <1>0 DEF TypeOK
<1>2. Handover BY DEF Handover
<1>3. Stopping BY DEF Stopping
<1>4. Relays BY DEF Relays
<1>5. Replies
  <2>1. \A c \in Conns : got[c] = 0 /\ unread[c] = 0 /\ sent[c] = 0 /\ Delivering(c) = 0
    BY DEF Delivering
  <2>2. 0 + 0 + 0 <= 0
    OBVIOUS
  <2>3. \A c \in Conns : client[c] # "open" /\ far[c] = "none"
    OBVIOUS
  <2> QED BY <2>1, <2>2, <2>3, Zenon DEF Replies
<1> QED BY <1>1, <1>2, <1>3, <1>4, <1>5 DEF IInv

\* What the CLI and the far side do keeps the types.
LEMMA TypePeers ==
  ASSUME TypeOK, Replies, NEW c \in Conns,
         Connect(c) \/ ClientHalfCloses(c) \/ ClientCloses(c) \/ RemoteReplies(c) \/ RemoteEnds(c)
  PROVE  TypeOK'
<1> USE DEF TypeOK, ClientFrame, accVars, mainVars, relayVars, Set
<1>1. CASE Connect(c) BY <1>1 DEF Connect
<1>2. CASE ClientHalfCloses(c) BY <1>2 DEF ClientHalfCloses
<1>3. CASE ClientCloses(c) BY <1>3 DEF ClientCloses
<1>4. CASE RemoteReplies(c)
  <2>1. sent[c] \in Nat /\ unread[c] \in Nat /\ got[c] \in Nat /\ MaxReplies \in Nat
    BY ConstantsAssumption
  <2>2. unread[c] <= sent[c] /\ sent[c] + 1 \in 0 .. MaxReplies
    BY <1>4, <2>1 DEF RemoteReplies, Replies, Delivering
  <2>3. unread[c] + 1 \in 0 .. MaxReplies
    BY <2>1, <2>2
  <2> QED BY <1>4, <2>2, <2>3 DEF RemoteReplies
<1>5. CASE RemoteEnds(c) BY <1>5 DEF RemoteEnds
<1> QED BY <1>1, <1>2, <1>3, <1>4, <1>5

\* What the accept thread does keeps the types.
LEMMA TypeAcceptor ==
  ASSUME TypeOK, Acceptor
  PROVE  TypeOK'
<1> USE DEF TypeOK, AcceptorMoves, mainVars, relayVars, Set
<1>1. CASE ChecksStopped BY <1>1 DEF ChecksStopped
<1>2. CASE \E c \in Conns : Accepts(c) BY <1>2 DEF Accepts
<1>3. CASE AcceptTimesOut BY <1>3 DEF AcceptTimesOut
<1>4. CASE AcceptFails BY <1>4 DEF AcceptFails
<1>5. CASE Appends BY <1>5 DEF Appends
<1>6. CASE StartsHandler BY <1>6 DEF StartsHandler
<1> QED BY <1>1, <1>2, <1>3, <1>4, <1>5, <1>6 DEF Acceptor

\* What a handler and its relays do keeps the types.
LEMMA TypeHandler ==
  ASSUME TypeOK, Replies, NEW c \in Conns,
         FactoryOpens(c) \/ FactoryRuns(c) \/ FactoryFails(c) \/ Relay(c)
  PROVE  TypeOK'
<1> USE DEF TypeOK, HandlerFrame, RelayFrame, accVars, mainVars, relayVars, Set, Closed
<1>1. CASE FactoryOpens(c) BY <1>1 DEF FactoryOpens
<1>2. CASE FactoryRuns(c) BY <1>2 DEF FactoryRuns
<1>3. CASE FactoryFails(c) BY <1>3 DEF FactoryFails
<1>4. CASE ForwardFails(c) BY <1>4 DEF ForwardFails
<1>4a. CASE ForwardReceives(c) BY <1>4a DEF ForwardReceives
<1>4b. CASE ForwardSends(c) BY <1>4b DEF ForwardSends
<1>5. CASE ForwardEnds(c) BY <1>5 DEF ForwardEnds
<1>6. CASE BackwardReceives(c)
  <2>1. unread[c] - 1 \in 0 .. MaxReplies
    BY <1>6, ConstantsAssumption DEF BackwardReceives
  <2> QED BY <1>6, <2>1 DEF BackwardReceives
<1>7. CASE BackwardSends(c)
  <2>1. sent[c] \in Nat /\ unread[c] \in Nat /\ got[c] \in Nat /\ MaxReplies \in Nat
        /\ sent[c] <= MaxReplies
    BY ConstantsAssumption
  <2>2. got[c] + unread[c] + 1 <= sent[c]
    BY <1>7 DEF BackwardSends, Replies, Delivering
  <2>3. got[c] + 1 \in 0 .. MaxReplies
    BY <2>1, <2>2
  <2> QED BY <1>7, <2>3 DEF BackwardSends
<1>8. CASE BackwardFails(c) BY <1>8 DEF BackwardFails
<1>9. CASE BackwardEnds(c) BY <1>9 DEF BackwardEnds
<1>10. CASE RelaysJoined(c) BY <1>10 DEF RelaysJoined
<1> QED BY <1>1, <1>2, <1>3, <1>4, <1>4a, <1>4b, <1>5, <1>6, <1>7, <1>8, <1>9, <1>10 DEF Relay

\* What the call's own thread does keeps the types.
LEMMA TypeMain ==
  ASSUME TypeOK, SetsStopped \/ Stop
  PROVE  TypeOK'
<1> USE DEF TypeOK, MainMoves, peerVars, accVars, relayVars
<1>1. CASE SetsStopped BY <1>1 DEF SetsStopped
<1>2. CASE ClosesListener BY <1>2 DEF ClosesListener
<1>3. CASE JoinsAcceptor BY <1>3 DEF JoinsAcceptor
<1>4. CASE CopiesLists BY <1>4 DEF CopiesLists
<1>5. CASE ClosesConnections BY <1>5 DEF ClosesConnections
<1>6. CASE JoinsHandlers BY <1>6 DEF JoinsHandlers
<1>7. CASE ClosesTransport BY <1>7 DEF ClosesTransport
<1> QED BY <1>1, <1>2, <1>3, <1>4, <1>5, <1>6, <1>7 DEF Stop

------------------------------------------------------------------------------
\* Connections are handed over by the accept thread alone, one at a time.
LEMMA HandoverKept ==
  ASSUME TypeOK, Handover, Stopping, Relays, [Next]_vars
  PROVE  Handover'
<1> USE DEF TypeOK, Handover, Set
<1>1. ASSUME UNCHANGED <<acceptor, current, listed, handler>>,
             \A c \in Conns : client'[c] \in {"none", "queued"} => client[c] \in {"none", "queued"},
             \A c \in Conns : conn'[c] = "none" <=> conn[c] = "none"
      PROVE  Handover'
  BY <1>1
<1>2. CASE \E c \in Conns : Accepts(c)
  BY <1>2 DEF Accepts, AcceptorMoves
<1>3. CASE Appends
  BY <1>3 DEF Appends, AcceptorMoves
<1>4. CASE StartsHandler
  BY <1>4 DEF StartsHandler, AcceptorMoves
<1>5. CASE ChecksStopped \/ AcceptTimesOut \/ AcceptFails
  BY <1>5 DEF ChecksStopped, AcceptTimesOut, AcceptFails, AcceptorMoves
<1>6. ASSUME NEW c \in Conns, handler[c] \in {"factory", "exec", "pump"},
             UNCHANGED <<acceptor, current, listed, client>>,
             handler' \in {handler, Set(handler, c, "exec"), Set(handler, c, "pump"),
                          Set(handler, c, "done")},
             conn' \in {conn, Closed(conn, c)}
      PROVE  Handover'
  BY <1>6 DEF Closed
<1>7. CASE \E c \in Conns : \/ Connect(c) \/ ClientHalfCloses(c) \/ ClientCloses(c)
                            \/ RemoteReplies(c) \/ RemoteEnds(c)
  BY <1>1, <1>7 DEF Connect, ClientHalfCloses, ClientCloses, RemoteReplies, RemoteEnds,
                    ClientFrame, accVars
<1>8. CASE \E c \in Conns : \/ FactoryOpens(c) \/ FactoryRuns(c) \/ FactoryFails(c)
  BY <1>6, <1>8 DEF FactoryOpens, FactoryRuns, FactoryFails, HandlerFrame, accVars
<1>9. CASE \E c \in Conns : Relay(c)
  BY <1>1, <1>6, <1>9 DEF ForwardFails, ForwardReceives, ForwardSends, Relay,
     ForwardEnds, BackwardReceives,
     BackwardSends, BackwardFails,
                    BackwardEnds, RelaysJoined, RelayFrame, HandlerFrame, accVars, Closed
<1>10. CASE SetsStopped \/ Stop
  <2>1. \A c \in snapshot : conn[c] # "none"
    BY DEF Stopping
  <2> QED
    BY <1>1, <1>10, <2>1 DEF SetsStopped, Stop, ClosesListener, JoinsAcceptor, CopiesLists,
         ClosesConnections, JoinsHandlers, ClosesTransport, MainMoves, peerVars, accVars
<1>11. CASE UNCHANGED vars
  BY <1>1, <1>11 DEF vars, accVars, peerVars
<1> QED
  BY <1>2, <1>3, <1>4, <1>5, <1>7, <1>8, <1>9, <1>10, <1>11 DEF Next, Acceptor

\* stop() goes forward, and what it was told of the accept thread stays so.
LEMMA StoppingKept ==
  ASSUME TypeOK, Stopping, [Next]_vars
  PROVE  Stopping'
<1> USE DEF Stopping
<1>1. CASE SetsStopped \/ Stop
  <2> USE DEF MainMoves, accVars
  <2>1. CASE SetsStopped BY <2>1 DEF SetsStopped
  <2>2. CASE ClosesListener BY <2>2 DEF ClosesListener
  <2>3. CASE JoinsAcceptor BY <2>3 DEF JoinsAcceptor
  <2>4. CASE CopiesLists BY <2>4 DEF CopiesLists
  <2>5. CASE ClosesConnections BY <2>5 DEF ClosesConnections
  <2>6. CASE JoinsHandlers BY <2>6 DEF JoinsHandlers
  <2>7. CASE ClosesTransport BY <2>7 DEF ClosesTransport
  <2> QED BY <1>1, <2>1, <2>2, <2>3, <2>4, <2>5, <2>6, <2>7 DEF Stop
<1>2. CASE Acceptor
  BY <1>2 DEF Acceptor, ChecksStopped, Accepts, AcceptTimesOut, AcceptFails, Appends,
              StartsHandler, AcceptorMoves, mainVars
<1>3. CASE UNCHANGED <<acceptor, listed, mainVars>>
  BY <1>3 DEF mainVars
<1>4. CASE \E c \in Conns : \/ Connect(c) \/ ClientHalfCloses(c) \/ ClientCloses(c)
                            \/ RemoteReplies(c) \/ RemoteEnds(c)
  BY <1>3, <1>4 DEF Connect, ClientHalfCloses, ClientCloses, RemoteReplies, RemoteEnds,
                    ClientFrame, accVars
<1>5. CASE \E c \in Conns : \/ FactoryOpens(c) \/ FactoryRuns(c) \/ FactoryFails(c)
                            \/ Relay(c)
  BY <1>3, <1>5 DEF FactoryOpens, FactoryRuns, FactoryFails, ForwardFails, ForwardReceives,
       ForwardSends, Relay, ForwardEnds,
       BackwardReceives, BackwardSends, BackwardFails, BackwardEnds, RelaysJoined, RelayFrame,
       HandlerFrame, accVars
<1> QED
  BY <1>1, <1>2, <1>3, <1>4, <1>5 DEF Next, vars, accVars

\* A handler's relays run, end and close in their order.
LEMMA RelaysKept ==
  ASSUME TypeOK, Handover, Stopping, Relays, [Next]_vars
  PROVE  Relays'
<1> USE DEF TypeOK, Relays, Set, Closed
<1>1. ASSUME UNCHANGED <<far, fwd, bwd, stream, handler, conn>>,
             stopped => stopped'
      PROVE  Relays'
  BY <1>1
<1>2. CASE \E c \in Conns : RemoteEnds(c)
  BY <1>2 DEF RemoteEnds, relayVars, mainVars
<1>3. CASE \E c \in Conns : \/ Connect(c) \/ ClientHalfCloses(c) \/ ClientCloses(c)
                            \/ RemoteReplies(c)
  BY <1>1, <1>3 DEF Connect, ClientHalfCloses, ClientCloses, RemoteReplies, ClientFrame,
       relayVars, mainVars
<1>4. CASE Acceptor
  <2> USE DEF AcceptorMoves, relayVars, mainVars
  <2>1. CASE ChecksStopped \/ AcceptTimesOut \/ AcceptFails
    BY <1>1, <2>1 DEF ChecksStopped, AcceptTimesOut, AcceptFails
  <2>2. CASE \E c \in Conns : Accepts(c)
    BY <2>2 DEF Accepts, Handover
  <2>3. CASE Appends
    BY <2>3 DEF Appends, Handover
  <2>4. CASE StartsHandler
    BY <2>4 DEF StartsHandler, Handover
  <2> QED BY <1>4, <2>1, <2>2, <2>3, <2>4 DEF Acceptor
<1>5. CASE \E c \in Conns : \/ FactoryOpens(c) \/ FactoryRuns(c) \/ FactoryFails(c)
                            \/ Relay(c)
  <2> PICK c \in Conns : \/ FactoryOpens(c) \/ FactoryRuns(c) \/ FactoryFails(c)
                        \/ Relay(c)
    BY <1>5
  <2> USE DEF RelayFrame, HandlerFrame, relayVars, mainVars
  <2>1. CASE FactoryOpens(c) BY <2>1 DEF FactoryOpens
  <2>2. CASE FactoryRuns(c) BY <2>2 DEF FactoryRuns
  <2>3. CASE FactoryFails(c) BY <2>3 DEF FactoryFails, Handover
  <2>4. CASE ForwardFails(c) BY <2>4 DEF ForwardFails
  <2>4a. CASE ForwardReceives(c) BY <2>4a DEF ForwardReceives
  <2>4b. CASE ForwardSends(c) BY <2>4b DEF ForwardSends
  <2>5. CASE ForwardEnds(c) BY <2>5 DEF ForwardEnds
  <2>6. CASE BackwardReceives(c) BY <2>6 DEF BackwardReceives
  <2>7. CASE BackwardSends(c) BY <2>7 DEF BackwardSends
  <2>8. CASE BackwardFails(c) BY <2>8 DEF BackwardFails, Handover
  <2>9. CASE BackwardEnds(c) BY <2>9 DEF BackwardEnds, Handover
  <2>10. CASE RelaysJoined(c) BY <2>10 DEF RelaysJoined
  <2> QED BY <2>1, <2>2, <2>3, <2>4, <2>4a, <2>4b, <2>5, <2>6, <2>7, <2>8, <2>9, <2>10 DEF Relay
<1>6. CASE SetsStopped \/ Stop
  <2> USE DEF MainMoves, peerVars, relayVars
  <2>1. CASE ClosesConnections BY <2>1 DEF ClosesConnections, Stopping
  <2>2. CASE ClosesTransport BY <2>2 DEF ClosesTransport
  <2> QED
    BY <1>1, <1>6, <2>1, <2>2
    DEF SetsStopped, Stop, ClosesListener, JoinsAcceptor, CopiesLists, JoinsHandlers
<1>7. CASE UNCHANGED vars
  BY <1>1, <1>7 DEF vars, peerVars, relayVars, mainVars
<1> QED
  BY <1>2, <1>3, <1>4, <1>5, <1>6, <1>7 DEF Next

\* A reply that was sent is on its way, or has arrived, while anyone waits for it.
LEMMA RepliesKept ==
  ASSUME TypeOK, Handover, Stopping, Relays, Replies, [Next]_vars
  PROVE  Replies'
<1> USE DEF TypeOK, Replies, Delivering, Set, Closed
<1>0. \A c \in Conns : sent[c] \in Nat /\ unread[c] \in Nat /\ got[c] \in Nat
  BY ConstantsAssumption
<1>1. ASSUME UNCHANGED <<relayVars, sent, far, stream, conn>>,
             stopped => stopped',
             \A c \in Conns : client'[c] = "open" => client[c] = "open"
      PROVE  Replies'
  BY <1>1 DEF relayVars
<1>2. CASE \E c \in Conns : \/ Connect(c) \/ ClientHalfCloses(c) \/ ClientCloses(c)
  BY <1>1, <1>2 DEF Connect, ClientHalfCloses, ClientCloses, ClientFrame, mainVars
<1>3. CASE \E c \in Conns : RemoteReplies(c)
  BY <1>0, <1>3 DEF RemoteReplies, mainVars, Relays
<1>4. CASE \E c \in Conns : RemoteEnds(c)
  BY <1>0, <1>4 DEF RemoteEnds, mainVars, relayVars
<1>5. CASE Acceptor
  <2> USE DEF AcceptorMoves, mainVars
  <2>1. CASE ChecksStopped \/ AcceptTimesOut \/ AcceptFails \/ Appends \/ StartsHandler
    BY <1>1, <2>1 DEF ChecksStopped, AcceptTimesOut, AcceptFails, Appends, StartsHandler
  <2>2. CASE \E c \in Conns : Accepts(c)
    BY <1>0, <2>2 DEF Accepts, Handover, Relays, relayVars
  <2> QED BY <1>5, <2>1, <2>2 DEF Acceptor
<1>6. CASE \E c \in Conns : \/ FactoryOpens(c) \/ FactoryRuns(c) \/ FactoryFails(c)
                            \/ Relay(c)
  <2> PICK c \in Conns : \/ FactoryOpens(c) \/ FactoryRuns(c) \/ FactoryFails(c)
                        \/ Relay(c)
    BY <1>6
  <2> USE <1>0 DEF RelayFrame, HandlerFrame, mainVars, Relays
  <2>1. CASE FactoryOpens(c) BY <2>1 DEF FactoryOpens, relayVars
  <2>2. CASE FactoryRuns(c) BY <2>2 DEF FactoryRuns
  <2>3. CASE FactoryFails(c) BY <2>3 DEF FactoryFails, relayVars
  <2>4. CASE ForwardFails(c) BY <2>4 DEF ForwardFails
  <2>4a. CASE ForwardReceives(c) BY <2>4a DEF ForwardReceives
  <2>4b. CASE ForwardSends(c) BY <2>4b DEF ForwardSends
  <2>5. CASE ForwardEnds(c) BY <2>5 DEF ForwardEnds
  <2>6. CASE BackwardReceives(c) BY <2>6 DEF BackwardReceives
  <2>7. CASE BackwardSends(c) BY <2>7 DEF BackwardSends
  <2>8. CASE BackwardFails(c) BY <2>8 DEF BackwardFails
  <2>9. CASE BackwardEnds(c) BY <2>9 DEF BackwardEnds
  <2>10. CASE RelaysJoined(c) BY <2>10 DEF RelaysJoined, relayVars
  <2> QED BY <2>1, <2>2, <2>3, <2>4, <2>4a, <2>4b, <2>5, <2>6, <2>7, <2>8, <2>9, <2>10 DEF Relay
<1>7. CASE SetsStopped \/ Stop
  <2>1. stopped' /\ UNCHANGED <<relayVars, sent, far>>
    BY <1>7 DEF SetsStopped, Stop, ClosesListener, JoinsAcceptor, CopiesLists, ClosesConnections,
         JoinsHandlers, ClosesTransport, MainMoves, peerVars, Stopping
  <2> QED
    BY <2>1 DEF relayVars
<1>8. CASE UNCHANGED vars
  BY <1>1, <1>8 DEF vars, peerVars, mainVars
<1> QED
  BY <1>2, <1>3, <1>4, <1>5, <1>6, <1>7, <1>8 DEF Next

------------------------------------------------------------------------------
\* The types hold from step to step.
LEMMA TypeKept ==
  ASSUME TypeOK, Replies, [Next]_vars
  PROVE  TypeOK'
<1>1. CASE UNCHANGED vars
  BY <1>1 DEF TypeOK, vars, peerVars, relayVars, accVars, mainVars
<1> QED
  BY <1>1, TypePeers, TypeAcceptor, TypeHandler, TypeMain DEF Next

\* The invariant holds of every behaviour.
LEMMA Invariance == Spec => []IInv
<1>1. IInv /\ [Next]_vars => IInv'
  BY TypeKept, HandoverKept, StoppingKept, RelaysKept, RepliesKept DEF IInv
<1> QED
  BY <1>1, InitIInv, PTL DEF Spec

\* Every variable keeps its type: no more replies arrive than were sent.
THEOREM TypeCorrect == Spec => []TypeOK
<1>1. IInv => TypeOK
  BY DEF IInv
<1> QED
  BY <1>1, Invariance, PTL

\* SshDialStdioProxy.stop(), once the accept thread has ended in its join, works on
\* every connection that was ever accepted, and never on a thread that was not
\* started, which it could not join.
THEOREM StopAlwaysSeesAll == Spec => []StopSeesAll
<1>1. IInv => StopSeesAll
  BY DEF IInv, Handover, Stopping, StopSeesAll
<1> QED
  BY <1>1, Invariance, PTL

\* _handle_connection ends with its socket closed, and with its channel closed if
\* the relays ran (_pump_duplex).
THEOREM HandlersLeaveNothingOpen == Spec => []HandlerLeavesNothingOpen
<1>1. IInv => HandlerLeavesNothingOpen
  BY DEF IInv, Relays, HandlerLeavesNothingOpen
<1> QED
  BY <1>1, Invariance, PTL

\* No reply is lost by the relays on a CLI that keeps its side open: they end
\* behind the last reply, however many there were.
THEOREM RepliesAlwaysReachClient == Spec => []RepliesReachClient
<1>1. ASSUME IInv PROVE RepliesReachClient
  <2> SUFFICES ASSUME NEW c \in Conns, handler[c] = "done", far[c] # "none",
                      client[c] = "open", ~stopped
               PROVE  got[c] = sent[c]
    BY DEF RepliesReachClient
  <2>1. bwd[c] = "done"
    BY <1>1 DEF IInv, Relays
  <2>2. unread[c] = 0 /\ Delivering(c) = 0 /\ got[c] + unread[c] + Delivering(c) = sent[c]
    BY <1>1, <2>1 DEF IInv, Replies, Delivering
  <2>3. got[c] \in Nat
    BY <1>1, ConstantsAssumption DEF IInv, TypeOK
  <2> QED
    BY <2>2, <2>3
<1> QED
  BY <1>1, Invariance, PTL

------------------------------------------------------------------------------
(* ClientPool.                                                             *)

\* A call that works for one host has resolved its label.
LabelKnown ==
  \A t \in Threads : pc[t] \notin {"idle", "close"} => label[t] \in Labels

\* _client_lock is held exactly while a client is built for the pool, which has
\* none for that label yet.
LockWhileBuilding ==
  \A t \in Threads :
    /\ lock = t <=> pc[t] = "building"
    /\ pc[t] = "building" => pool[label[t]] = None

\* Only clients that were built are open.
OpenWereBuilt == open \subseteq 1 .. built

\* What a system_reconnect holds is open; what it is about to swap in was built
\* for its label, and it remembers a swapped-out client only until it closes it.
HandsAreSound ==
  \A t \in Threads :
    /\ \A c \in InHand(t) : c # None => c \in open
    /\ pc[t] \in {"validating", "swap"} => mine[t] # None /\ madeFor[mine[t]] = label[t]
    /\ pc[t] # "discard" => old[t] = None

PoolInv ==
  /\ PoolTypeOK
  /\ LabelKnown /\ LockWhileBuilding /\ OpenWereBuilt /\ HandsAreSound
  /\ PoolIsUsable /\ OwnedOnce /\ NoClientLost

USE PoolAssumption DEF Clients, Places

\* The invariant holds of the empty pool _clients starts as.
LEMMA InitPoolInv == PoolInit => PoolInv
  BY SMTT(30) DEF PoolInit, PoolInv, PoolTypeOK, LabelKnown, LockWhileBuilding, OpenWereBuilt,
     HandsAreSound, PoolIsUsable, OwnedOnce, NoClientLost, InHand

\* Every step of _get_client, system_reconnect and system_close keeps it: a
\* client is handed over by exactly one owner at a time.
LEMMA NextPoolInv == PoolInv /\ [PoolNext]_poolVars => PoolInv'
<1> SUFFICES ASSUME PoolInv, [PoolNext]_poolVars PROVE PoolInv'
  OBVIOUS
<1> PoolTypeOK /\ LabelKnown /\ LockWhileBuilding /\ OpenWereBuilt /\ HandsAreSound
     /\ PoolIsUsable /\ OwnedOnce /\ NoClientLost
  BY DEF PoolInv
<1>1. ASSUME NEW t \in Threads, CallTool(t) PROVE PoolInv'
  BY <1>1 DEF PoolInv, PoolTypeOK, LabelKnown, LockWhileBuilding, OpenWereBuilt,
     HandsAreSound, PoolIsUsable, OwnedOnce, NoClientLost, InHand,
     CallTool, Begin, Moves
<1>2. ASSUME NEW t \in Threads, CallReconnect(t) PROVE PoolInv'
  BY <1>2 DEF PoolInv, PoolTypeOK, LabelKnown, LockWhileBuilding, OpenWereBuilt,
     HandsAreSound, PoolIsUsable, OwnedOnce, NoClientLost, InHand,
     CallReconnect, Begin, Moves
<1>3. ASSUME NEW t \in Threads, CallClose(t) PROVE PoolInv'
  BY <1>3 DEF PoolInv, PoolTypeOK, LabelKnown, LockWhileBuilding, OpenWereBuilt,
     HandsAreSound, PoolIsUsable, OwnedOnce, NoClientLost, InHand,
     CallClose, Begin, Moves
<1>4. ASSUME NEW t \in Threads, GetHit(t) PROVE PoolInv'
  <2> USE <1>4 DEF GetHit, Moves, Unlocked
  <2>1. PoolTypeOK'
    BY DEF PoolTypeOK, LabelKnown
  <2>2. LabelKnown'
    BY DEF LabelKnown, PoolTypeOK
  <2>3. LockWhileBuilding'
    BY DEF LockWhileBuilding, PoolTypeOK
  <2>4. OpenWereBuilt'
    BY DEF OpenWereBuilt, PoolTypeOK
  <2>5. HandsAreSound'
    BY DEF HandsAreSound, PoolTypeOK, InHand, OpenWereBuilt, OwnedOnce,
       PoolIsUsable, LabelKnown
  <2>6. PoolIsUsable'
    BY DEF PoolIsUsable, PoolTypeOK, OpenWereBuilt, OwnedOnce, HandsAreSound,
       InHand, LabelKnown
  <2>7. OwnedOnce'
    BY DEF OwnedOnce, PoolTypeOK, InHand, HandsAreSound, PoolIsUsable,
       OpenWereBuilt, LabelKnown
  <2>8. NoClientLost'
    BY DEF NoClientLost, PoolTypeOK, InHand, HandsAreSound, OwnedOnce,
       PoolIsUsable, LabelKnown
  <2> QED BY <2>1, <2>2, <2>3, <2>4, <2>5, <2>6, <2>7, <2>8 DEF PoolInv
<1>5. ASSUME NEW t \in Threads, GetMiss(t) PROVE PoolInv'
  BY <1>5 DEF PoolInv, PoolTypeOK, LabelKnown, LockWhileBuilding, OpenWereBuilt,
     HandsAreSound, PoolIsUsable, OwnedOnce, NoClientLost, InHand,
     GetMiss, Moves, Unlocked
<1>6. ASSUME NEW t \in Threads, BuildSucceeds(t) PROVE PoolInv'
  <2> USE <1>6 DEF BuildSucceeds, Moves, Build
  <2>0. built + 1 \in Clients /\ label[t] \in Labels
    <3>1. built \in Nat /\ built < MaxClients
      BY DEF PoolTypeOK
    <3>2. label[t] \in Labels
      BY DEF LabelKnown
    <3> QED BY <3>1, <3>2
  <2>1. PoolTypeOK'
    BY <2>0 DEF PoolTypeOK
  <2>2. LabelKnown'
    BY DEF LabelKnown, PoolTypeOK
  <2>3. LockWhileBuilding'
    BY DEF LockWhileBuilding, PoolTypeOK
  <2>4. OpenWereBuilt'
    BY DEF OpenWereBuilt, PoolTypeOK
  <2>5. HandsAreSound'
    BY DEF HandsAreSound, PoolTypeOK, InHand, OpenWereBuilt, OwnedOnce,
       PoolIsUsable, LabelKnown
  <2>6. PoolIsUsable'
    BY DEF PoolIsUsable, PoolTypeOK, OpenWereBuilt, OwnedOnce, HandsAreSound,
       InHand, LabelKnown
  <2>7. OwnedOnce'
    BY DEF OwnedOnce, PoolTypeOK, InHand, HandsAreSound, PoolIsUsable,
       OpenWereBuilt, LabelKnown
  <2>8. NoClientLost'
    <3> SUFFICES ASSUME NEW c \in open'
                 PROVE  \/ \E l \in Labels : pool'[l] = c
                        \/ \E u \in Threads : c \in InHand(u)'
      BY DEF NoClientLost
    <3>0. CASE c = built + 1
      BY <2>0, <3>0 DEF PoolTypeOK
    <3>1. CASE \E l \in Labels : pool[l] = c
      BY <2>0, <3>1 DEF PoolTypeOK, LockWhileBuilding
    <3>2. CASE \E u \in Threads : c \in InHand(u)
      <4> PICK u \in Threads : c \in InHand(u)
        BY <3>2
      <4>1. u # t
        BY DEF InHand, HandsAreSound, OpenWereBuilt, PoolTypeOK
      <4>2. c \in InHand(u)'
        BY <4>1 DEF InHand, PoolTypeOK
      <4> QED BY <4>2
    <3> QED BY <3>0, <3>1, <3>2 DEF NoClientLost
  <2> QED BY <2>1, <2>2, <2>3, <2>4, <2>5, <2>6, <2>7, <2>8 DEF PoolInv
<1>7. ASSUME NEW t \in Threads, BuildFails(t) PROVE PoolInv'
  BY <1>7 DEF PoolInv, PoolTypeOK, LabelKnown, LockWhileBuilding, OpenWereBuilt,
     HandsAreSound, PoolIsUsable, OwnedOnce, NoClientLost, InHand,
     BuildFails, Leaves, Moves
<1>8. ASSUME NEW t \in Threads, ToolReturns(t) PROVE PoolInv'
  <2> USE <1>8 DEF ToolReturns, Leaves, Moves
  <2>1. PoolTypeOK'
    BY DEF PoolTypeOK, LabelKnown
  <2>2. LabelKnown'
    BY DEF LabelKnown, PoolTypeOK
  <2>3. LockWhileBuilding'
    BY DEF LockWhileBuilding, PoolTypeOK
  <2>4. OpenWereBuilt'
    BY DEF OpenWereBuilt, PoolTypeOK
  <2>5. HandsAreSound'
    BY DEF HandsAreSound, PoolTypeOK, InHand, OpenWereBuilt, OwnedOnce,
       PoolIsUsable, LabelKnown
  <2>6. PoolIsUsable'
    BY DEF PoolIsUsable, PoolTypeOK, OpenWereBuilt, OwnedOnce, HandsAreSound,
       InHand, LabelKnown
  <2>7. OwnedOnce'
    BY DEF OwnedOnce, PoolTypeOK, InHand, HandsAreSound, PoolIsUsable,
       OpenWereBuilt, LabelKnown
  <2>8. NoClientLost'
    BY DEF NoClientLost, PoolTypeOK, InHand, HandsAreSound, OwnedOnce,
       PoolIsUsable, LabelKnown
  <2> QED BY <2>1, <2>2, <2>3, <2>4, <2>5, <2>6, <2>7, <2>8 DEF PoolInv
<1>9. ASSUME NEW t \in Threads, RebuildSucceeds(t) PROVE PoolInv'
  <2> USE <1>9 DEF RebuildSucceeds, Moves, Build
  <2>0. built + 1 \in Clients /\ label[t] \in Labels
    <3>1. built \in Nat /\ built < MaxClients
      BY DEF PoolTypeOK
    <3>2. label[t] \in Labels
      BY DEF LabelKnown
    <3> QED BY <3>1, <3>2
  <2>1. PoolTypeOK'
    BY <2>0 DEF PoolTypeOK
  <2>2. LabelKnown'
    BY DEF LabelKnown, PoolTypeOK
  <2>3. LockWhileBuilding'
    BY DEF LockWhileBuilding, PoolTypeOK
  <2>4. OpenWereBuilt'
    BY DEF OpenWereBuilt, PoolTypeOK
  <2>5. HandsAreSound'
    BY DEF HandsAreSound, PoolTypeOK, InHand, OpenWereBuilt, OwnedOnce,
       PoolIsUsable, LabelKnown
  <2>6. PoolIsUsable'
    BY DEF PoolIsUsable, PoolTypeOK, OpenWereBuilt, OwnedOnce, HandsAreSound,
       InHand, LabelKnown
  <2>7. OwnedOnce'
    BY DEF OwnedOnce, PoolTypeOK, InHand, HandsAreSound, PoolIsUsable,
       OpenWereBuilt, LabelKnown
  <2>8. NoClientLost'
    BY DEF NoClientLost, PoolTypeOK, InHand, HandsAreSound, OwnedOnce,
       PoolIsUsable, LabelKnown
  <2> QED BY <2>1, <2>2, <2>3, <2>4, <2>5, <2>6, <2>7, <2>8 DEF PoolInv
<1>10. ASSUME NEW t \in Threads, RebuildFails(t) PROVE PoolInv'
  <2> USE <1>10 DEF RebuildFails, Leaves, Moves
  <2>1. PoolTypeOK'
    BY DEF PoolTypeOK, LabelKnown
  <2>2. LabelKnown'
    BY DEF LabelKnown, PoolTypeOK
  <2>3. LockWhileBuilding'
    BY DEF LockWhileBuilding, PoolTypeOK
  <2>4. OpenWereBuilt'
    BY DEF OpenWereBuilt, PoolTypeOK
  <2>5. HandsAreSound'
    BY DEF HandsAreSound, PoolTypeOK, InHand, OpenWereBuilt, OwnedOnce,
       PoolIsUsable, LabelKnown
  <2>6. PoolIsUsable'
    BY DEF PoolIsUsable, PoolTypeOK, OpenWereBuilt, OwnedOnce, HandsAreSound,
       InHand, LabelKnown
  <2>7. OwnedOnce'
    BY DEF OwnedOnce, PoolTypeOK, InHand, HandsAreSound, PoolIsUsable,
       OpenWereBuilt, LabelKnown
  <2>8. NoClientLost'
    BY DEF NoClientLost, PoolTypeOK, InHand, HandsAreSound, OwnedOnce,
       PoolIsUsable, LabelKnown
  <2> QED BY <2>1, <2>2, <2>3, <2>4, <2>5, <2>6, <2>7, <2>8 DEF PoolInv
<1>11. ASSUME NEW t \in Threads, VersionAnswers(t) PROVE PoolInv'
  <2> USE <1>11 DEF VersionAnswers, Moves
  <2>1. PoolTypeOK'
    BY DEF PoolTypeOK, LabelKnown
  <2>2. LabelKnown'
    BY DEF LabelKnown, PoolTypeOK
  <2>3. LockWhileBuilding'
    BY DEF LockWhileBuilding, PoolTypeOK
  <2>4. OpenWereBuilt'
    BY DEF OpenWereBuilt, PoolTypeOK
  <2>5. HandsAreSound'
    BY DEF HandsAreSound, PoolTypeOK, InHand, OpenWereBuilt, OwnedOnce,
       PoolIsUsable, LabelKnown
  <2>6. PoolIsUsable'
    BY DEF PoolIsUsable, PoolTypeOK, OpenWereBuilt, OwnedOnce, HandsAreSound,
       InHand, LabelKnown
  <2>7. OwnedOnce'
    BY DEF OwnedOnce, PoolTypeOK, InHand, HandsAreSound, PoolIsUsable,
       OpenWereBuilt, LabelKnown
  <2>8. NoClientLost'
    BY DEF NoClientLost, PoolTypeOK, InHand, HandsAreSound, OwnedOnce,
       PoolIsUsable, LabelKnown
  <2> QED BY <2>1, <2>2, <2>3, <2>4, <2>5, <2>6, <2>7, <2>8 DEF PoolInv
<1>12. ASSUME NEW t \in Threads, VersionFails(t) PROVE PoolInv'
  <2> USE <1>12 DEF VersionFails, Leaves, Moves
  <2>1. PoolTypeOK'
    BY DEF PoolTypeOK, LabelKnown
  <2>2. LabelKnown'
    BY DEF LabelKnown, PoolTypeOK
  <2>3. LockWhileBuilding'
    BY DEF LockWhileBuilding, PoolTypeOK
  <2>4. OpenWereBuilt'
    BY DEF OpenWereBuilt, PoolTypeOK
  <2>5. HandsAreSound'
    BY DEF HandsAreSound, PoolTypeOK, InHand, OpenWereBuilt, OwnedOnce,
       PoolIsUsable, LabelKnown
  <2>6. PoolIsUsable'
    BY DEF PoolIsUsable, PoolTypeOK, OpenWereBuilt, OwnedOnce, HandsAreSound,
       InHand, LabelKnown
  <2>7. OwnedOnce'
    BY DEF OwnedOnce, PoolTypeOK, InHand, HandsAreSound, PoolIsUsable,
       OpenWereBuilt, LabelKnown
  <2>8. NoClientLost'
    <3> SUFFICES ASSUME NEW c \in open'
                 PROVE  \/ \E l \in Labels : pool'[l] = c
                        \/ \E u \in Threads : c \in InHand(u)'
      BY DEF NoClientLost
    <3>1. CASE \E l \in Labels : pool[l] = c
      BY <3>1
    <3>2. CASE \E u \in Threads : c \in InHand(u)
      <4> PICK u \in Threads : c \in InHand(u)
        BY <3>2
      <4>1. u # t
        BY DEF InHand, HandsAreSound, OpenWereBuilt, PoolTypeOK
      <4>2. c \in InHand(u)'
        BY <4>1 DEF InHand, PoolTypeOK
      <4> QED BY <4>2
    <3> QED BY <3>1, <3>2 DEF NoClientLost
  <2> QED BY <2>1, <2>2, <2>3, <2>4, <2>5, <2>6, <2>7, <2>8 DEF PoolInv
<1>13. ASSUME NEW t \in Threads, Swap(t) PROVE PoolInv'
  <2> USE <1>13 DEF Swap, Moves, Unlocked
  <2>1. PoolTypeOK'
    BY DEF PoolTypeOK, LabelKnown
  <2>2. LabelKnown'
    BY DEF LabelKnown, PoolTypeOK
  <2>3. LockWhileBuilding'
    BY DEF LockWhileBuilding, PoolTypeOK
  <2>4. OpenWereBuilt'
    BY DEF OpenWereBuilt, PoolTypeOK
  <2>5. HandsAreSound'
    BY DEF HandsAreSound, PoolTypeOK, InHand, OpenWereBuilt, OwnedOnce,
       PoolIsUsable, LabelKnown
  <2>6. PoolIsUsable'
    BY DEF PoolIsUsable, PoolTypeOK, OpenWereBuilt, OwnedOnce, HandsAreSound,
       InHand, LabelKnown
  <2>7. OwnedOnce'
    BY DEF OwnedOnce, PoolTypeOK, InHand, HandsAreSound, PoolIsUsable,
       OpenWereBuilt, LabelKnown
  <2>8. NoClientLost'
    BY DEF NoClientLost, PoolTypeOK, InHand, HandsAreSound, OwnedOnce,
       PoolIsUsable, LabelKnown
  <2> QED BY <2>1, <2>2, <2>3, <2>4, <2>5, <2>6, <2>7, <2>8 DEF PoolInv
<1>14. ASSUME NEW t \in Threads, Discard(t) PROVE PoolInv'
  <2> USE <1>14 DEF Discard, Leaves, Moves
  <2>1. PoolTypeOK'
    BY DEF PoolTypeOK, LabelKnown
  <2>2. LabelKnown'
    BY DEF LabelKnown, PoolTypeOK
  <2>3. LockWhileBuilding'
    BY DEF LockWhileBuilding, PoolTypeOK
  <2>4. OpenWereBuilt'
    BY DEF OpenWereBuilt, PoolTypeOK
  <2>5. HandsAreSound'
    BY DEF HandsAreSound, PoolTypeOK, InHand, OpenWereBuilt, OwnedOnce,
       PoolIsUsable, LabelKnown
  <2>6. PoolIsUsable'
    BY DEF PoolIsUsable, PoolTypeOK, OpenWereBuilt, OwnedOnce, HandsAreSound,
       InHand, LabelKnown
  <2>7. OwnedOnce'
    BY DEF OwnedOnce, PoolTypeOK, InHand, HandsAreSound, PoolIsUsable,
       OpenWereBuilt, LabelKnown
  <2>8. NoClientLost'
    <3> SUFFICES ASSUME NEW c \in open'
                 PROVE  \/ \E l \in Labels : pool'[l] = c
                        \/ \E u \in Threads : c \in InHand(u)'
      BY DEF NoClientLost
    <3>1. CASE \E l \in Labels : pool[l] = c
      BY <3>1
    <3>2. CASE \E u \in Threads : c \in InHand(u)
      <4> PICK u \in Threads : c \in InHand(u)
        BY <3>2
      <4>1. u # t
        BY DEF InHand, HandsAreSound, OpenWereBuilt, PoolTypeOK
      <4>2. c \in InHand(u)'
        BY <4>1 DEF InHand, PoolTypeOK
      <4> QED BY <4>2
    <3> QED BY <3>1, <3>2 DEF NoClientLost
  <2> QED BY <2>1, <2>2, <2>3, <2>4, <2>5, <2>6, <2>7, <2>8 DEF PoolInv
<1>15. ASSUME NEW t \in Threads, Close(t) PROVE PoolInv'
  <2> USE <1>15 DEF Close, Leaves, Moves, Unlocked, Closing
  <2>1. PoolTypeOK'
    BY DEF PoolTypeOK, LabelKnown
  <2>2. LabelKnown'
    BY DEF LabelKnown, PoolTypeOK
  <2>3. LockWhileBuilding'
    BY DEF LockWhileBuilding, PoolTypeOK
  <2>4. OpenWereBuilt'
    BY DEF OpenWereBuilt, PoolTypeOK
  <2>5. HandsAreSound'
    BY DEF HandsAreSound, PoolTypeOK, InHand, OpenWereBuilt, OwnedOnce,
       PoolIsUsable, LabelKnown
  <2>6. PoolIsUsable'
    BY DEF PoolIsUsable, PoolTypeOK, OpenWereBuilt, OwnedOnce, HandsAreSound,
       InHand, LabelKnown
  <2>7. OwnedOnce'
    BY DEF OwnedOnce, PoolTypeOK, InHand, HandsAreSound, PoolIsUsable,
       OpenWereBuilt, LabelKnown
  <2>8. NoClientLost'
    BY DEF NoClientLost, PoolTypeOK, InHand, HandsAreSound, OwnedOnce,
       PoolIsUsable, LabelKnown
  <2> QED BY <2>1, <2>2, <2>3, <2>4, <2>5, <2>6, <2>7, <2>8 DEF PoolInv
<1>16. CASE UNCHANGED poolVars
  BY <1>16 DEF PoolInv, PoolTypeOK, LabelKnown, LockWhileBuilding, OpenWereBuilt,
     HandsAreSound, PoolIsUsable, OwnedOnce, NoClientLost, InHand, poolVars
<1> QED
  BY <1>1, <1>2, <1>3, <1>4, <1>5, <1>6, <1>7, <1>8,
     <1>9, <1>10, <1>11, <1>12, <1>13, <1>14, <1>15, <1>16 DEF PoolNext, Step

\* It holds of every behaviour of the pool.
LEMMA PoolInvAlways == PoolSpec => []PoolInv
  BY InitPoolInv, NextPoolInv, PTL DEF PoolSpec

\* Type correctness of the pool, its lock and every thread's variables.
THEOREM PoolTypeCorrect == PoolSpec => []PoolTypeOK
<1>1. PoolInv => PoolTypeOK
  BY DEF PoolInv
<1> QED BY PoolInvAlways, <1>1, PTL

\* A pooled client is always open and was built for its label, whatever close
\* and reconnect calls overlap.
THEOREM PoolStaysUsable == PoolSpec => []PoolIsUsable
<1>1. PoolInv => PoolIsUsable
  BY DEF PoolInv
<1> QED BY PoolInvAlways, <1>1, PTL

\* No two calls ever own the same discarded or not yet installed client.
THEOREM ClientsOwnedOnce == PoolSpec => []OwnedOnce
<1>1. PoolInv => OwnedOnce
  BY DEF PoolInv
<1> QED BY PoolInvAlways, <1>1, PTL

\* No open connection is ever forgotten.
THEOREM NoConnectionLeak == PoolSpec => []NoClientLost
<1>1. PoolInv => NoClientLost
  BY DEF PoolInv
<1> QED BY PoolInvAlways, <1>1, PTL

\* A failed system_reconnect changes nothing in the pool: what it closes is its
\* own client, which by OwnedOnce is not a pooled one.
THEOREM ReconnectKeepsClient == PoolSpec => FailedReconnectKeepsClient
<1> DEFINE Keeps ==
      \A t \in Threads :
        pc[t] \in {"rebuild", "validating"} /\ pc'[t] = "idle"
          => pool' = pool /\ \A l \in Labels : pool[l] # None => pool[l] \in open'
<1>1. ASSUME PoolInv, [PoolNext]_poolVars PROVE [Keeps]_poolVars
  <2> SUFFICES ASSUME NEW t \in Threads, pc[t] \in {"rebuild", "validating"},
                      pc'[t] = "idle"
               PROVE  pool' = pool /\ \A l \in Labels : pool[l] # None => pool[l] \in open'
    OBVIOUS
  <2>1. RebuildFails(t) \/ VersionFails(t)
    <3>1. PICK u \in Threads : CallTool(u) \/ CallReconnect(u) \/ CallClose(u) \/ Step(u)
      BY <1>1 DEF PoolNext, poolVars
    <3>2. PICK to \in Places : pc' = [pc EXCEPT ![u] = to]
      BY <3>1 DEF Step, CallTool, CallReconnect, CallClose, Begin, GetHit, GetMiss,
         BuildSucceeds, BuildFails, ToolReturns, RebuildSucceeds, RebuildFails,
         VersionAnswers, VersionFails, Swap, Discard, Close, Moves, Leaves
    <3>3. u = t
      BY <1>1, <3>2 DEF PoolInv, PoolTypeOK
    <3> QED
      BY <1>1, <3>1, <3>3 DEF PoolInv, PoolTypeOK, Step, CallTool, CallReconnect, CallClose,
         Begin, GetHit, GetMiss, BuildSucceeds, BuildFails, ToolReturns,
         RebuildSucceeds, VersionAnswers, Swap, Discard, Close, Moves, Leaves
  <2>2. CASE RebuildFails(t)
    BY <1>1, <2>2 DEF RebuildFails, PoolInv, PoolIsUsable
  <2>3. CASE VersionFails(t)
    <3>1. pool' = pool /\ open' = open \ {mine[t]}
      BY <2>3 DEF VersionFails
    <3>2. mine[t] \in Clients /\ \A l \in Labels : pool[l] # mine[t]
      BY <1>1, <2>3 DEF VersionFails, Leaves, Moves, PoolInv, PoolTypeOK, HandsAreSound,
         OwnedOnce, InHand
    <3> QED BY <1>1, <3>1, <3>2 DEF PoolInv, PoolIsUsable
  <2> QED BY <2>1, <2>2, <2>3
<1> QED BY PoolInvAlways, <1>1, PTL DEF PoolSpec, FailedReconnectKeepsClient
=============================================================================
