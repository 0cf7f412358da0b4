---------------------------- MODULE DialStdioProxy ----------------------------
(***************************************************************************)
(* SshDialStdioProxy, _pump_duplex and ssh_proxy_for_docker_host            *)
(* (docker_mcp/tools/_ssh_proxy.py): the per-call localhost listener that   *)
(* carries a local docker CLI's connections over SSH channels running      *)
(* `docker system dial-stdio`, with its accept thread, one handler thread  *)
(* and two relay threads per connection, and the bounded teardown.         *)
(***************************************************************************)
EXTENDS Integers

CONSTANTS
  Conns,       \* connections the CLI may open during the call
  Talkative,   \* bound: connections with data and half-closes on them
  MaxReplies   \* bound: replies it sends on one of them

ASSUME ConstantsAssumption == Talkative \subseteq Conns /\ MaxReplies \in Nat

VARIABLES
  client,    \* the CLI's end of each connection
  conn,      \* the proxy's accepted socket
  stream,    \* the remote channel, on our side
  far,       \* the far side of it: `docker system dial-stdio` runs, or has ended
  sent,      \* replies the far side has sent
  unread,    \* replies the channel holds for the backward relay
  got,       \* replies that reached the CLI
  handler,   \* _handle_connection's thread
  fwd, bwd,  \* the relay threads
  listener,  \* open or closed
  acceptor,  \* the accept thread
  current,   \* the connections it has accepted and not yet handed over
  listed,    \* _connections (and _pump_threads, appended under the same lock)
  stopped,   \* the _stopped event
  main,      \* the thread that runs the `with` block and then stop()
  snapshot,  \* what stop() copied of `listed`
  waited,    \* the accept thread had ended when stop() went on
  transport  \* the SSH connection is up

peerVars  == <<client, far, sent>>
relayVars == <<unread, got, fwd, bwd>>
accVars   == <<acceptor, current, listed>>
mainVars  == <<stopped, main, snapshot, waited>>
vars == <<peerVars, conn, stream, relayVars, handler, listener, accVars,
          mainVars, transport>>

TypeOK ==
  /\ client \in [Conns -> {"none", "queued", "open", "half", "gone"}]
  /\ conn \in [Conns -> {"none", "open", "closed"}]
  /\ stream \in [Conns -> {"none", "open", "closed"}]
  /\ far \in [Conns -> {"none", "live", "ended"}]
  /\ sent \in [Conns -> 0 .. MaxReplies]
  /\ unread \in [Conns -> 0 .. MaxReplies]
  /\ got \in [Conns -> 0 .. MaxReplies]
  /\ handler \in [Conns -> {"none", "made", "factory", "exec", "pump", "done"}]
  /\ fwd \in [Conns -> {"none", "recv", "send", "done"}]
  /\ bwd \in [Conns -> {"none", "recv", "send", "done"}]
  /\ listener \in {"open", "closed"}
  /\ acceptor \in {"check", "accept", "append", "start", "done"}
  /\ current \subseteq Conns /\ listed \subseteq Conns /\ snapshot \subseteq Conns
  /\ stopped \in BOOLEAN /\ waited \in BOOLEAN /\ transport \in BOOLEAN
  /\ main \in {"serving", "flagged", "unbound", "joined", "copied", "closed",
               "stopped", "crashed", "ended"}

Init ==
  /\ client = [c \in Conns |-> "none"] /\ conn = [c \in Conns |-> "none"]
  /\ stream = [c \in Conns |-> "none"] /\ far = [c \in Conns |-> "none"]
  /\ handler = [c \in Conns |-> "none"]
  /\ sent = [c \in Conns |-> 0] /\ unread = [c \in Conns |-> 0]
  /\ got = [c \in Conns |-> 0]
  /\ fwd = [c \in Conns |-> "none"] /\ bwd = [c \in Conns |-> "none"]
  /\ listener = "open" /\ acceptor = "check"
  /\ current = {} /\ listed = {} /\ snapshot = {}
  /\ stopped = FALSE /\ waited = FALSE /\ main = "serving" /\ transport = TRUE

Set(f, c, v) == [f EXCEPT ![c] = v]
\* _close_quietly of one end that exists.
Closed(f, c) == [f EXCEPT ![c] = IF @ = "none" THEN @ ELSE "closed"]

------------------------------------------------------------------------------
(* The CLI and the remote daemon.                                          *)

ClientFrame ==
  UNCHANGED <<far, sent, conn, stream, relayVars, handler, listener, accVars,
              mainVars, transport>>

Connect(c) ==
  /\ client[c] = "none" /\ listener = "open"
  /\ client' = Set(client, c, "queued") /\ ClientFrame

\* CloseWrite: the CLI's stdin ended, it still reads.
ClientHalfCloses(c) ==
  /\ client[c] = "open" /\ c \in Talkative
  /\ client' = Set(client, c, "half") /\ ClientFrame

ClientCloses(c) ==
  /\ client[c] \in {"open", "half"}
  /\ client' = Set(client, c, "gone") /\ ClientFrame

\* A reply sent when our side has closed the channel is thrown away.
RemoteReplies(c) ==
  /\ far[c] = "live" /\ c \in Talkative /\ sent[c] < MaxReplies
  /\ sent' = [sent EXCEPT ![c] = @ + 1]
  /\ unread' = [unread EXCEPT ![c] = IF stream[c] = "open" THEN @ + 1 ELSE @]
  /\ UNCHANGED <<client, far, conn, stream, got, fwd, bwd, handler, listener,
                 accVars, mainVars, transport>>

RemoteEnds(c) ==
  /\ far[c] = "live"
  /\ far' = Set(far, c, "ended")
  /\ UNCHANGED <<client, sent, conn, stream, relayVars, handler, listener,
                 accVars, mainVars, transport>>

------------------------------------------------------------------------------
(* The accept thread: _accept_loop.                                        *)

AcceptorMoves(from, to) ==
  /\ acceptor = from /\ acceptor' = to
  /\ UNCHANGED <<far, sent, stream, relayVars, listener, mainVars, transport>>

ChecksStopped ==
  /\ AcceptorMoves("check", IF stopped THEN "done" ELSE "accept")
  /\ UNCHANGED <<client, conn, handler, current, listed>>

Accepts(c) ==
  /\ listener = "open" /\ client[c] = "queued"
  /\ AcceptorMoves("accept", "append")
  /\ client' = Set(client, c, "open") /\ conn' = Set(conn, c, "open")
  /\ current' = {c}
  /\ UNCHANGED <<handler, listed>>

AcceptTimesOut ==
  /\ AcceptorMoves("accept", "check")
  /\ UNCHANGED <<client, conn, handler, current, listed>>

AcceptFails ==
  /\ listener = "closed"
  /\ AcceptorMoves("accept", "done")
  /\ UNCHANGED <<client, conn, handler, current, listed>>

\* Under _state_lock: the connection and its not yet started thread are listed.
Appends ==
  /\ AcceptorMoves("append", "start")
  /\ listed' = listed \cup current
  /\ handler' = [c \in Conns |-> IF c \in current THEN "made" ELSE handler[c]]
  /\ UNCHANGED <<client, conn, current>>

StartsHandler ==
  /\ AcceptorMoves("start", "check")
  /\ handler' = [c \in Conns |-> IF c \in current THEN "factory" ELSE handler[c]]
  /\ current' = {}
  /\ UNCHANGED <<client, conn, listed>>

------------------------------------------------------------------------------
(* A handler thread and its relays: _handle_connection, _pump_duplex.      *)

HandlerFrame == UNCHANGED <<client, sent, listener, accVars, mainVars, transport>>
RelayFrame == UNCHANGED <<far, handler>> /\ HandlerFrame

\* The factory: open_session, then exec_command.
FactoryOpens(c) ==
  /\ handler[c] = "factory" /\ transport
  /\ handler' = Set(handler, c, "exec") /\ stream' = Set(stream, c, "open")
  /\ UNCHANGED <<far, conn, relayVars>> /\ HandlerFrame

FactoryRuns(c) ==
  /\ handler[c] = "exec" /\ stream[c] = "open"
  /\ handler' = Set(handler, c, "pump") /\ far' = Set(far, c, "live")
  /\ fwd' = Set(fwd, c, "recv") /\ bwd' = Set(bwd, c, "recv")
  /\ UNCHANGED <<conn, stream, unread, got>> /\ HandlerFrame

\* Mutant: the failed handler returns without closing its socket.
FactoryFailsQuietly(c) ==
  /\ handler[c] \in {"factory", "exec"}
  /\ handler' = Set(handler, c, "done")
  /\ UNCHANGED <<far, conn, stream, relayVars>> /\ HandlerFrame

\* A session that was opened stays open: only the transport's close ends it.
FactoryFails(c) ==
  /\ handler[c] \in {"factory", "exec"}
  /\ handler' = Set(handler, c, "done") /\ conn' = Closed(conn, c)
  /\ UNCHANGED <<far, stream, relayVars>> /\ HandlerFrame

\* conn -> stream: recv returns nothing or raises.
ForwardEnds(c) ==
  /\ fwd[c] = "recv"
  /\ client[c] \in {"half", "gone"} \/ conn[c] = "closed"
  /\ fwd' = Set(fwd, c, "done") /\ stream' = Closed(stream, c)
  /\ UNCHANGED <<conn, unread, got, bwd>> /\ RelayFrame

\* What the CLI sent before it closed its side is read before that.
ForwardReceives(c) ==
  /\ fwd[c] = "recv" /\ client[c] = "open" /\ conn[c] = "open" /\ c \in Talkative
  /\ fwd' = Set(fwd, c, "send")
  /\ UNCHANGED <<conn, stream, unread, got, bwd>> /\ RelayFrame

\* stream.sendall blocks until the far side has taken everything.
ForwardSends(c) ==
  /\ fwd[c] = "send" /\ stream[c] = "open" /\ far[c] = "live"
  /\ fwd' = Set(fwd, c, "recv")
  /\ UNCHANGED <<conn, stream, unread, got, bwd>> /\ RelayFrame

ForwardFails(c) ==
  /\ fwd[c] = "send" /\ (stream[c] = "closed" \/ far[c] = "ended")
  /\ fwd' = Set(fwd, c, "done") /\ stream' = Closed(stream, c)
  /\ UNCHANGED <<conn, unread, got, bwd>> /\ RelayFrame

\* stream -> conn, one reply at a time; what the channel holds is read even
\* after it was closed.
BackwardReceives(c) ==
  /\ bwd[c] = "recv" /\ unread[c] > 0
  /\ bwd' = Set(bwd, c, "send") /\ unread' = [unread EXCEPT ![c] = @ - 1]
  /\ UNCHANGED <<conn, stream, got, fwd>> /\ RelayFrame

\* conn.sendall blocks until the CLI has taken everything.
BackwardSends(c) ==
  /\ bwd[c] = "send" /\ conn[c] = "open"
  /\ bwd' = Set(bwd, c, "recv")
  /\ got' = [got EXCEPT ![c] = IF client[c] = "gone" THEN @ ELSE @ + 1]
  /\ UNCHANGED <<conn, stream, unread, fwd>> /\ RelayFrame

BackwardFails(c) ==
  /\ bwd[c] = "send" /\ (conn[c] = "closed" \/ client[c] = "gone")
  /\ bwd' = Set(bwd, c, "done") /\ conn' = Closed(conn, c)
  /\ UNCHANGED <<stream, unread, got, fwd>> /\ RelayFrame

\* Mutant: the relay stops at the end of the stream without reading what the
\* channel still holds.
BackwardEndsEarly(c) ==
  /\ bwd[c] = "recv"
  /\ stream[c] = "closed" \/ far[c] = "ended"
  /\ bwd' = Set(bwd, c, "done") /\ conn' = Closed(conn, c)
  /\ UNCHANGED <<stream, unread, got, fwd>> /\ RelayFrame

BackwardEnds(c) ==
  /\ bwd[c] = "recv" /\ unread[c] = 0
  /\ stream[c] = "closed" \/ far[c] = "ended"
  /\ bwd' = Set(bwd, c, "done") /\ conn' = Closed(conn, c)
  /\ UNCHANGED <<stream, unread, got, fwd>> /\ RelayFrame

RelaysJoined(c) ==
  /\ handler[c] = "pump" /\ fwd[c] = "done" /\ bwd[c] = "done"
  /\ handler' = Set(handler, c, "done")
  /\ UNCHANGED <<far, conn, stream, relayVars>> /\ HandlerFrame

------------------------------------------------------------------------------
(* The call's own thread: stop(), then the finally of the context manager. *)

MainMoves(from, to) ==
  /\ main = from /\ main' = to
  /\ UNCHANGED <<far, sent, relayVars, handler, accVars>>

SetsStopped ==
  /\ MainMoves("serving", "flagged")
  /\ stopped' = TRUE
  /\ UNCHANGED <<client, conn, stream, listener, snapshot, waited, transport>>

\* A connection still in the backlog is reset.
ClosesListener ==
  /\ MainMoves("flagged", "unbound")
  /\ listener' = "closed"
  /\ client' = [c \in Conns |-> IF client[c] = "queued" THEN "gone" ELSE client[c]]
  /\ UNCHANGED <<conn, stream, stopped, snapshot, waited, transport>>

\* Mutant: stop() does not wait for the accept thread.
JoinsAcceptorNever ==
  /\ MainMoves("unbound", "joined")
  /\ waited' = TRUE
  /\ UNCHANGED <<client, conn, stream, listener, stopped, snapshot, transport>>

\* join(timeout): the accept thread has ended, or it is given up on.
JoinsAcceptor ==
  /\ MainMoves("unbound", "joined")
  /\ waited' = (acceptor = "done")
  /\ UNCHANGED <<client, conn, stream, listener, stopped, snapshot, transport>>

CopiesLists ==
  /\ MainMoves("joined", "copied")
  /\ snapshot' = listed
  /\ UNCHANGED <<client, conn, stream, listener, stopped, waited, transport>>

ClosesConnections ==
  /\ MainMoves("copied", "closed")
  /\ conn' = [c \in Conns |-> IF c \in snapshot THEN "closed" ELSE conn[c]]
  /\ UNCHANGED <<client, stream, listener, stopped, snapshot, waited, transport>>

\* join(timeout) of each handler: ended or given up on.  Python refuses to join
\* a thread that was never started: RuntimeError out of stop().
JoinsHandlers ==
  /\ MainMoves("closed", IF \E c \in snapshot : handler[c] = "made"
                           THEN "crashed" ELSE "stopped")
  /\ UNCHANGED <<client, conn, stream, listener, stopped, snapshot, waited,
                 transport>>

\* Mutant: the SSH connection is closed only when stop() returned normally.
ClosesTransportUnlessRaised ==
  /\ main \in {"stopped", "crashed"}
  /\ main' = "ended"
  /\ transport' = (main = "crashed")
  /\ stream' = [c \in Conns |->
       IF main = "crashed" \/ stream[c] = "none" THEN stream[c] ELSE "closed"]
  /\ UNCHANGED <<peerVars, conn, relayVars, handler, listener, accVars, stopped,
                 snapshot, waited>>

\* ssh_client.close(), whether stop() returned or raised.
ClosesTransport ==
  /\ main \in {"stopped", "crashed"}
  /\ main' = "ended" /\ transport' = FALSE
  /\ stream' = [c \in Conns |-> IF stream[c] = "none" THEN "none" ELSE "closed"]
  /\ UNCHANGED <<peerVars, conn, relayVars, handler, listener, accVars, stopped,
                 snapshot, waited>>

------------------------------------------------------------------------------

Acceptor ==
  \/ ChecksStopped \/ (\E c \in Conns : Accepts(c)) \/ AcceptTimesOut
  \/ AcceptFails \/ Appends \/ StartsHandler
Relay(c) ==
  \/ ForwardReceives(c) \/ ForwardSends(c) \/ ForwardFails(c) \/ ForwardEnds(c)
  \/ BackwardReceives(c) \/ BackwardSends(c) \/ BackwardFails(c) \/ BackwardEnds(c)
  \/ RelaysJoined(c)
Stop ==
  \/ ClosesListener \/ JoinsAcceptor \/ CopiesLists \/ ClosesConnections
  \/ JoinsHandlers \/ ClosesTransport

Next ==
  \/ \E c \in Conns :
       \/ Connect(c) \/ ClientHalfCloses(c) \/ ClientCloses(c)
       \/ RemoteReplies(c) \/ RemoteEnds(c)
       \/ FactoryOpens(c) \/ FactoryRuns(c) \/ FactoryFails(c)
       \/ Relay(c)
  \/ Acceptor
  \/ SetsStopped \/ Stop

Spec == Init /\ [][Next]_vars

\* The server's own threads run where they are not waiting for the CLI, the far
\* side or the SSH handshake, which promise nothing: a `sendall` is not fair until
\* its other end is closed or gone, and opening a channel fails, and is sure to,
\* on a closed transport only.
FairSpec ==
  /\ Spec
  /\ WF_vars(Acceptor) /\ WF_vars(Stop)
  /\ \A c \in Conns :
       /\ WF_vars(ForwardEnds(c) \/ ForwardFails(c))
       /\ WF_vars(BackwardReceives(c) \/ BackwardFails(c) \/ BackwardEnds(c))
       /\ WF_vars(RelaysJoined(c))
       /\ WF_vars(~transport /\ FactoryFails(c))

------------------------------------------------------------------------------
(* Properties.                                                             *)

\* If the accept thread was waited for, stop() has seen every connection it
\* accepted, and none of them belongs to a thread that was never started.
StopSeesAll ==
  waited /\ main \in {"copied", "closed", "stopped", "ended"} =>
    \A c \in Conns : conn[c] # "none" => c \in snapshot /\ handler[c] # "made"

\* A connection whose relay has ended holds no socket and no channel, and one
\* whose channel could not be opened holds no socket.
HandlerLeavesNothingOpen ==
  \A c \in Conns : handler[c] = "done" =>
    conn[c] = "closed" /\ (far[c] # "none" => stream[c] = "closed")

\* Every reply of the remote side reaches a CLI that kept its own side open,
\* unless the call was being stopped: neither relay ends ahead of the data.
RepliesReachClient ==
  \A c \in Conns :
    handler[c] = "done" /\ far[c] # "none" /\ client[c] = "open" /\ ~stopped
      => got[c] = sent[c]

\* The backward relay is in its sendall, and the CLI is there and not reading.
HeldByClient(c) == bwd[c] = "send" /\ conn[c] = "open" /\ client[c] \in {"open", "half"}

\* A CLI that hangs up takes the remote channel down with it, without stop(),
\* unless a far side that stopped reading holds the forward relay for ever; and
\* once the call is over every thread ends and everything it opened is closed,
\* even if the accept thread or a handler blocked in the factory was given up on,
\* unless a CLI that outlives the call holds the backward relay for ever.
TornDown ==
  \A c \in Conns :
    /\ []<>(fwd[c] # "send") =>
         (client[c] = "gone" /\ handler[c] = "pump"
            ~> stream[c] = "closed" /\ handler[c] = "done")
    /\ []<>~HeldByClient(c) =>
         (main # "serving" ~>
            /\ main = "ended" /\ acceptor = "done"
            /\ handler[c] \in {"none", "done"}
            /\ conn[c] # "open" /\ stream[c] # "open")
==============================================================================
