---------------------------- MODULE ContainerExec ----------------------------
(***************************************************************************)
(* container_exec (docker_mcp/tools/containers.py): a command in a         *)
(* running container whose output a daemon thread reads into bounded       *)
(* buffers, while the call waits for that thread for at most               *)
(* `timeout_seconds` and then goes on without it.                          *)
(***************************************************************************)
EXTENDS Integers, Sequences

CONSTANTS
  MaxBytes,   \* max_bytes, what is kept of each stream
  MaxChunk,   \* bound: the longest chunk
  MaxChunks   \* bound: the chunks the command writes

ASSUME ConstantsAssumption == {MaxBytes, MaxChunk, MaxChunks} \subseteq Nat \ {0}

VARIABLES
  request,    \* the arguments of the call that matter here
  closable,   \* the transport can close a stream (not ssh://)
  command,    \* the command in the container
  written,    \* what it wrote to each stream the call asked for
  pending,    \* chunks the daemon has sent and the reader has not taken
  remote,     \* the daemon's end of the stream
  closed,     \* the stream was closed on our side
  reader,     \* the reader thread
  chunk,      \* the chunk it holds
  buffers, cut, truncated, error, abandoned,  \* what the two threads share
  call,       \* how far container_exec has come
  timedOut,
  answer      \* what it returns

daemonVars == <<command, written, pending, remote>>
sharedVars == <<buffers, cut, truncated, error>>
callVars   == <<call, timedOut, answer>>
vars == <<request, closable, daemonVars, closed, reader, chunk, sharedVars,
          abandoned, callVars>>

Streams == {"out", "err"}
Chunks  == [stream : Streams, size : 1 .. MaxChunk]
NoChunk == [stream |-> "none", size |-> 0]
Empty   == [s \in Streams |-> 0]
NoAnswer == [kept |-> Empty, truncated |-> FALSE, timedOut |-> FALSE, exit |-> "none"]

\* Without demux everything arrives as one stream, in the first buffer.
Slot(s) == IF request.demux THEN s ELSE "out"
\* What the daemon attaches to: a TTY merges stderr into stdout.
Attached == {s \in Streams : IF s = "out" THEN request.stdout
                                          ELSE request.stderr /\ ~request.tty}
\* Mutant: a stderr that merges into stdout is waited for.
NotRequested ==
  [s \in Streams |-> IF request.demux
                       THEN ~(IF s = "out" THEN request.stdout ELSE request.stderr)
                       ELSE s = "err"]

\* The streams that start out cut.
NeverDelivers ==
  [s \in Streams |-> IF request.demux THEN s \notin Attached ELSE s = "err"]
AllCut(c) == \A s \in Streams : c[s]

TypeOK ==
  /\ request \in [demux : BOOLEAN, stdout : BOOLEAN, stderr : BOOLEAN, tty : BOOLEAN,
                  valid : BOOLEAN]
  /\ closable \in BOOLEAN /\ closed \in BOOLEAN
  /\ command \in {"none", "running", "exited"}
  /\ written \in [Streams -> Nat]
  /\ pending \in Seq(Chunks)
  /\ remote \in {"open", "eof", "broken"}
  /\ reader \in {"none", "next", "hold", "done"}
  /\ chunk \in Chunks \cup {NoChunk}
  /\ buffers \in [Streams -> 0 .. MaxBytes]
  /\ cut \in [Streams -> BOOLEAN]
  /\ truncated \in BOOLEAN /\ error \in BOOLEAN /\ abandoned \in BOOLEAN
  /\ call \in {"start", "refused", "created", "joining", "joined", "observed",
               "abandoned", "closed", "decoded", "returned", "failed", "raised"}
  /\ timedOut \in BOOLEAN
  /\ answer \in [kept : [Streams -> 0 .. MaxBytes], truncated : BOOLEAN,
                 timedOut : BOOLEAN, exit : {"none", "null", "code"}]

Init ==
  /\ request \in [demux : BOOLEAN, stdout : BOOLEAN, stderr : BOOLEAN, tty : BOOLEAN,
                  valid : BOOLEAN]
  /\ closable \in BOOLEAN
  /\ command = "none" /\ written = Empty /\ pending = <<>> /\ remote = "open"
  /\ closed = FALSE /\ reader = "none" /\ chunk = NoChunk
  /\ buffers = Empty /\ cut = [s \in Streams |-> FALSE]
  /\ truncated = FALSE /\ error = FALSE /\ abandoned = FALSE
  /\ call = "start" /\ timedOut = FALSE /\ answer = NoAnswer

------------------------------------------------------------------------------
(* The command and the daemon's end of the stream.                         *)

Write ==
  /\ command = "running" /\ remote = "open" /\ Len(pending) < MaxChunks
  /\ \E s \in Attached, n \in 1 .. MaxChunk :
       /\ written[Slot(s)] + n <= MaxChunks * MaxChunk
       /\ written' = [written EXCEPT ![Slot(s)] = @ + n]
       /\ pending' = Append(pending, [stream |-> Slot(s), size |-> n])
  /\ UNCHANGED <<request, closable, command, remote, closed, reader, chunk,
                 sharedVars, abandoned, callVars>>

Exit ==
  /\ command = "running" /\ command' = "exited"
  /\ UNCHANGED <<request, closable, written, pending, remote, closed, reader, chunk,
                 sharedVars, abandoned, callVars>>

\* The end of the output follows the end of the command; a connection can drop
\* at any time.
StreamEnds ==
  /\ remote = "open" /\ command # "none"
  /\ remote' \in {"broken"} \cup (IF command = "exited" THEN {"eof"} ELSE {})
  /\ UNCHANGED <<request, closable, command, written, pending, closed, reader, chunk,
                 sharedVars, abandoned, callVars>>

------------------------------------------------------------------------------
(* The reader thread.                                                      *)

Take ==
  /\ reader = "next" /\ pending # <<>>
  /\ chunk' = Head(pending) /\ pending' = Tail(pending)
  /\ reader' = "hold"
  /\ UNCHANGED <<request, closable, command, written, remote, closed, sharedVars,
                 abandoned, callVars>>

\* The stream is at its end, or it raises: a close on our side may show as either.
NoMore ==
  /\ reader = "next"
  /\ \/ remote = "eof" /\ pending = <<>> /\ error' = FALSE
     \/ remote = "broken" /\ error' \in BOOLEAN
     \/ closed /\ error' \in BOOLEAN
  /\ reader' = "done"
  /\ UNCHANGED <<request, closable, daemonVars, closed, chunk, buffers, cut, truncated,
                 abandoned, callVars>>

Room(kept) == MaxBytes - kept
\* Mutant: a chunk that fits exactly counts as cut.
DropsAtRoom(kept, size) == size >= Room(kept)

\* keep_up_to: what it appends, and whether it drops anything.
Fits(kept, size) == IF size > Room(kept) THEN Room(kept) ELSE size
Drops(kept, size) == size > Room(kept)

\* The body of the loop, under the lock.
KeepChunk ==
  LET s == chunk.stream
      drops == Drops(buffers[s], chunk.size)
  IN  /\ reader = "hold"
      /\ IF cut[s]
           THEN UNCHANGED <<buffers, cut, truncated>>
           ELSE /\ buffers' = [buffers EXCEPT ![s] = @ + Fits(@, chunk.size)]
                /\ cut' = [cut EXCEPT ![s] = drops]
                /\ truncated' = (truncated \/ drops)
      /\ reader' = IF AllCut(cut') THEN "done" ELSE "next"
      /\ chunk' = NoChunk
      /\ UNCHANGED <<request, closable, daemonVars, closed, error, abandoned, callVars>>

\* Mutant: the loop does not look at `abandoned`.
KeepAnyway == KeepChunk

Keep == ~abandoned /\ KeepChunk

Discard ==
  /\ reader = "hold" /\ abandoned
  /\ reader' = "done" /\ chunk' = NoChunk
  /\ UNCHANGED <<request, closable, daemonVars, closed, sharedVars, abandoned, callVars>>

------------------------------------------------------------------------------
(* The call.                                                               *)

Refuse ==
  /\ call = "start" /\ ~request.valid /\ call' = "refused"
  /\ UNCHANGED <<request, closable, daemonVars, closed, reader, chunk, sharedVars,
                 abandoned, timedOut, answer>>

\* containers.get and exec_create: nothing runs yet.
CreateExec ==
  /\ call = "start" /\ request.valid /\ call' \in {"created", "raised"}
  /\ UNCHANGED <<request, closable, daemonVars, closed, reader, chunk, sharedVars,
                 abandoned, timedOut, answer>>

\* exec_start runs the command, whether or not its answer reaches the call.
StartExec ==
  /\ call = "created"
  /\ \/ call' = "raised" /\ command' \in {"none", "running"}
        /\ UNCHANGED <<cut, reader>>
     \/ /\ call' = "joining" /\ command' = "running"
        /\ cut' = NeverDelivers /\ reader' = "next"
  /\ UNCHANGED <<request, closable, written, pending, remote, closed, chunk, buffers,
                 truncated, error, abandoned, timedOut, answer>>

\* reader.join(timeout_seconds), which may end for both reasons at once.
JoinReturns ==
  /\ call = "joining" /\ reader = "done" /\ call' = "joined"
  /\ UNCHANGED <<request, closable, daemonVars, closed, reader, chunk, sharedVars,
                 abandoned, timedOut, answer>>

\* Mutant: join() without a timeout.
JoinWaits == JoinReturns

JoinTimesOut ==
  /\ call = "joining" /\ call' = "joined"
  /\ UNCHANGED <<request, closable, daemonVars, closed, reader, chunk, sharedVars,
                 abandoned, timedOut, answer>>

Observe ==
  /\ call = "joined" /\ call' = "observed"
  /\ timedOut' = (reader # "done")
  /\ UNCHANGED <<request, closable, daemonVars, closed, reader, chunk, sharedVars,
                 abandoned, answer>>

Abandon ==
  /\ call = "observed" /\ call' = "abandoned" /\ abandoned' = TRUE
  /\ UNCHANGED <<request, closable, daemonVars, closed, reader, chunk, sharedVars,
                 timedOut, answer>>

\* close_stream_quietly: on ssh:// the close raises and nothing is closed.
CloseStream ==
  /\ call = "abandoned" /\ call' = "closed" /\ closed' = closable
  /\ UNCHANGED <<request, closable, daemonVars, reader, chunk, sharedVars, abandoned,
                 timedOut, answer>>

RaiseReadError ==
  /\ call = "closed" /\ ~timedOut /\ error /\ call' = "failed"
  /\ UNCHANGED <<request, closable, daemonVars, closed, reader, chunk, sharedVars,
                 abandoned, timedOut, answer>>

Decode ==
  /\ call = "closed" /\ (timedOut \/ ~error) /\ call' = "decoded"
  /\ answer' = [answer EXCEPT !.kept = buffers]
  /\ UNCHANGED <<request, closable, daemonVars, closed, reader, chunk, sharedVars,
                 abandoned, timedOut>>

\* exec_inspect, unless the read timed out; its code is null while the command runs.
Answer ==
  /\ call = "decoded"
  /\ \/ /\ call' = "returned"
        /\ answer' = [answer EXCEPT !.truncated = truncated, !.timedOut = timedOut,
             !.exit = IF timedOut \/ command = "running" THEN "null" ELSE "code"]
     \/ ~timedOut /\ call' = "raised" /\ UNCHANGED answer
  /\ UNCHANGED <<request, closable, daemonVars, closed, reader, chunk, sharedVars,
                 abandoned, timedOut>>

------------------------------------------------------------------------------
ReaderStep == Take \/ NoMore \/ Keep \/ Discard
CallStep == \/ Refuse \/ CreateExec \/ StartExec \/ JoinReturns \/ JoinTimesOut
            \/ Observe \/ Abandon \/ CloseStream \/ RaiseReadError \/ Decode \/ Answer

Next == Write \/ Exit \/ StreamEnds \/ ReaderStep \/ CallStep

Spec == Init /\ [][Next]_vars

\* Threads are scheduled, join returns by its timeout, and the daemon's API calls
\* are answered or fail. The command may run for ever.
FairSpec == Spec /\ WF_vars(ReaderStep) /\ WF_vars(CallStep)

------------------------------------------------------------------------------
(* Properties.                                                             *)

\* What an answer says of itself is so. One that is neither `timed_out` nor
\* `truncated` holds everything the command wrote to the streams asked for, and
\* `truncated` is said exactly when something was dropped: some stream was cut at
\* the cap and more was written to it. Filling the cap exactly is not a cut, and
\* each stream is cut on its own.
TruncationIsTrue ==
  /\ call = "returned" /\ ~answer.timedOut /\ ~answer.truncated /\ remote = "eof"
       => answer.kept = written
  /\ truncated => \E s \in Streams : buffers[s] = MaxBytes /\ written[s] > MaxBytes
  /\ call = "returned" => (answer.truncated <=> truncated)
  /\ reader # "none" => \A s \in Streams :
       cut[s] => NeverDelivers[s] \/ written[s] > MaxBytes

\* Once every stream that delivers anything is cut, the reader does not wait for
\* another chunk, so the call returns at once instead of at its timeout.
CutEndsTheRead ==
  reader = "next" /\ Attached # {} => \E s \in Attached : ~cut[Slot(s)]

\* The error the call raises is the connection's, never one its own close caused.
RaisedErrorIsReal == call = "failed" => remote = "broken"

\* The reader the call went on without keeps nothing more, so what was decoded, the
\* flags and the buffers agree, and it takes no further chunk: on ssh://, where the
\* stream stays open, a command that floods it is not read for ever.
AbandonedReaderStops ==
  [][abandoned => /\ UNCHANGED <<buffers, cut, truncated>>
                  /\ reader = "hold" => reader' # "next"]_vars

\* The call ends, by its timeout at the latest, whatever the command, the daemon's
\* stream and the transport do; and the reader thread does not outlive it for good
\* where the stream can be closed, nor anywhere once the stream has ended.
CallEnds ==
  /\ call = "start" ~> call \in {"refused", "returned", "failed", "raised"}
  /\ abandoned /\ (closable \/ remote # "open") ~> reader = "done"
=============================================================================
