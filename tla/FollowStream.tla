---------------------------- MODULE FollowStream ----------------------------
(***************************************************************************)
(* The tools that read a stream of the daemon:                             *)
(*   follow  container_logs(follow=True) and system_events: a loop over a  *)
(*           live stream, and a watchdog timer that closes the stream at   *)
(*           the deadline;                                                 *)
(*   logs    a snapshot of a log that is returned, join_bounded;           *)
(*   archive an archive that is returned, join_bounded;                    *)
(*   file    an archive written to a file of the host, stream_to_file.     *)
(* An item is a log line, an event or a piece of an archive; a chunk       *)
(* carries one event or several of the others.                             *)
(***************************************************************************)
EXTENDS Integers

CONSTANTS
  Limit,      \* limit_lines, limit; for join_bounded the cap, max_bytes
  MaxItems,   \* bound: items in a chunk
  MaxChunks   \* bound: chunks the daemon sends

\* A limit of 0 acts as 1: it is looked at after an item was added.
ASSUME ConstantsAssumption == {Limit, MaxItems, MaxChunks} \subseteq Nat \ {0}

VARIABLES
  mode,       \* what the tool does with the stream
  overwrite,  \* file: the destination may be replaced
  dest,       \* file: what is at the destination
  tmp,        \* file: the sibling .partial file is there
  closable,   \* the transport can close a stream (not ssh://)
  sent,       \* chunks the daemon has sent
  unread,     \* of those, the ones the loop has not taken
  remote,     \* the daemon's end: open, over (the container exited) or broken
  closed,     \* the stream was closed on our side
  timer,      \* the watchdog
  call,       \* how far the tool has come
  items,      \* what the chunk in hand still holds
  collected,  \* how many items the tool has collected
  error       \* an exception is on its way out of the loop

Modes == {"follow", "logs", "archive", "file"}

streamVars == <<sent, unread, remote>>
fileVars == <<mode, overwrite, dest, tmp>>
vars == <<fileVars, closable, streamVars, closed, timer, call, items, collected, error>>

TypeOK ==
  /\ mode \in Modes /\ overwrite \in BOOLEAN
  /\ dest \in {"absent", "theirs", "partial", "ours"} /\ tmp \in BOOLEAN
  /\ closable \in BOOLEAN /\ closed \in BOOLEAN
  /\ sent \in 0 .. MaxChunks /\ unread \in 0 .. sent
  /\ remote \in {"open", "over", "broken"}
  /\ timer \in {"none", "armed", "firing", "fired", "cancelled"}
  /\ call \in {"start", "check", "opened", "next", "chunk", "replace", "discard",
               "finally", "release", "returned", "raised", "failed", "refused",
               "killed"}
  /\ items \in 0 .. MaxItems
  /\ collected \in 0 .. Limit
  /\ error \in BOOLEAN

Init ==
  /\ mode \in Modes /\ overwrite \in BOOLEAN
  /\ dest \in {"absent", "theirs"} /\ tmp = FALSE
  /\ closable \in BOOLEAN /\ closed = FALSE
  /\ sent = 0 /\ unread = 0 /\ remote = "open"
  /\ timer = "none" /\ call = "start"
  /\ items = 0 /\ collected = 0 /\ error = FALSE

------------------------------------------------------------------------------
(* The daemon and the timer thread.                                        *)

Send ==
  /\ call # "start" /\ remote = "open" /\ ~closed /\ sent < MaxChunks
  /\ sent' = sent + 1 /\ unread' = unread + 1
  /\ UNCHANGED <<fileVars, closable, remote, closed, timer, call, items, collected, error>>

StreamEnds ==
  /\ call # "start" /\ remote = "open" /\ remote' \in {"over", "broken"}
  /\ UNCHANGED <<fileVars, closable, sent, unread, closed, timer, call, items, collected, error>>

\* Past its wait the timer runs its function whether or not it is cancelled now.
Expire ==
  /\ timer = "armed" /\ timer' = "firing"
  /\ UNCHANGED <<fileVars, closable, streamVars, closed, call, items, collected, error>>

\* Mutant: the watchdog sets a flag the blocked read does not see.
FireFlag ==
  /\ timer = "firing" /\ timer' = "fired"
  /\ UNCHANGED <<fileVars, closable, streamVars, closed, call, items, collected, error>>

\* close_stream_quietly, in the timer's thread.
Fire ==
  /\ timer = "firing" /\ timer' = "fired"
  /\ closed' = (closed \/ closable)
  /\ UNCHANGED <<fileVars, closable, streamVars, call, items, collected, error>>

------------------------------------------------------------------------------
(* The tool.                                                               *)

Opens(how, step) ==
  /\ mode \in how /\ call = "start" /\ call' \in {step, "failed"}
  /\ UNCHANGED <<fileVars, closable, streamVars, closed, timer, items, collected, error>>

OpenFollow == Opens({"follow"}, "opened")
OpenJoin == Opens({"logs", "archive"}, "next")
OpenFile == Opens({"file"}, "check")

\* stream_to_file's refusals come when the caller has opened the stream, and
\* before the try that closes it; a temporary file may be refused too.
Check ==
  /\ call = "check"
  /\ \/ call' = "refused" /\ UNCHANGED tmp
     \/ (dest = "absent" \/ overwrite) /\ call' = "next" /\ tmp' = TRUE
  /\ UNCHANGED <<mode, overwrite, dest, closable, streamVars, closed, timer, items, collected, error>>

Arm ==
  /\ call = "opened" /\ call' = "next" /\ timer' = "armed"
  /\ UNCHANGED <<fileVars, closable, streamVars, closed, items, collected, error>>

TakeChunk ==
  /\ call = "next" /\ unread > 0
  /\ call' = "chunk" /\ unread' = unread - 1
  /\ items' \in 1 .. MaxItems
  /\ UNCHANGED <<fileVars, closable, sent, remote, closed, timer, collected, error>>

\* The end of the stream, the container's or our own close, or a lost connection:
\* a log's or the events' CancellableStream may take that for the end, the reader of
\* an archive raises.
EndOfStream ==
  /\ call = "next"
  /\ \/ closed /\ UNCHANGED error
     \/ remote = "over" /\ unread = 0 /\ UNCHANGED error
     \/ remote = "broken" /\ error' \in IF mode \in {"archive", "file"} THEN {TRUE} ELSE BOOLEAN
  /\ call' = CASE mode = "follow" -> "finally" [] mode \in {"logs", "archive"} -> "release"
               [] mode = "file" -> IF error' THEN "discard" ELSE "replace"
  /\ UNCHANGED <<fileVars, closable, streamVars, closed, timer, items, collected>>

Collect ==
  /\ mode = "follow" /\ call = "chunk" /\ items > 0
  /\ collected' = collected + 1 /\ items' = items - 1
  /\ call' = IF collected' >= Limit THEN "finally" ELSE "chunk"
  /\ UNCHANGED <<fileVars, closable, streamVars, closed, timer, error>>

\* Mutant: what is over the cap is cut, as keep_up_to does.
JoinTruncates ==
  /\ mode \in {"logs", "archive"} /\ call = "chunk" /\ items > 0 /\ items' = 0
  /\ IF collected + items > Limit
     THEN call' = "release" /\ collected' = Limit
     ELSE call' = "next" /\ collected' = collected + items
  /\ UNCHANGED <<fileVars, closable, streamVars, closed, timer, error>>

\* The cap is looked at before the chunk is kept.
JoinBounded ==
  /\ mode \in {"logs", "archive"} /\ call = "chunk" /\ items > 0
  /\ IF collected + items > Limit
     THEN call' = "release" /\ error' = TRUE /\ UNCHANGED <<items, collected>>
     ELSE call' = "next" /\ collected' = collected + items /\ items' = 0 /\ UNCHANGED error
  /\ UNCHANGED <<fileVars, closable, streamVars, closed, timer>>

\* The disk may be full at any chunk.
WriteChunk ==
  /\ mode = "file" /\ call = "chunk" /\ items > 0 /\ items' = 0
  /\ \/ call' = "next" /\ UNCHANGED error
     \/ call' = "discard" /\ error' = TRUE
  /\ UNCHANGED <<fileVars, closable, streamVars, closed, timer, collected>>

Replace ==
  /\ call = "replace"
  /\ \/ dest' = "ours" /\ tmp' = FALSE /\ call' = "release" /\ UNCHANGED error
     \/ UNCHANGED <<dest, tmp>> /\ call' = "discard" /\ error' = TRUE
  /\ UNCHANGED <<mode, overwrite, closable, streamVars, closed, timer, items, collected>>

\* Mutant: what was read is moved into place whatever happened.
DiscardKeeps ==
  /\ call = "discard" /\ call' = "release"
  /\ tmp' = FALSE /\ dest' = "partial"
  /\ UNCHANGED <<mode, overwrite, closable, streamVars, closed, timer, items, collected, error>>

Discard ==
  /\ call = "discard" /\ call' = "release"
  /\ tmp' = FALSE /\ UNCHANGED dest
  /\ UNCHANGED <<mode, overwrite, closable, streamVars, closed, timer, items, collected, error>>

\* The server is killed in the middle of a download.
Killed ==
  /\ mode = "file" /\ call \in {"next", "chunk", "replace", "discard"} /\ call' = "killed"
  /\ UNCHANGED <<fileVars, closable, streamVars, closed, timer, items, collected, error>>

\* Someone else puts a file at the destination.
OtherWrites ==
  /\ mode = "file" /\ dest # "theirs" /\ dest' = "theirs"
  /\ UNCHANGED <<mode, overwrite, tmp, closable, streamVars, closed, timer, call, items, collected, error>>

NextChunk ==
  /\ mode = "follow" /\ call = "chunk" /\ items = 0 /\ call' = "next"
  /\ UNCHANGED <<fileVars, closable, streamVars, closed, timer, items, collected, error>>

CancelTimer ==
  /\ call = "finally" /\ call' = "release"
  /\ timer' = IF timer = "armed" THEN "cancelled" ELSE timer
  /\ UNCHANGED <<fileVars, closable, streamVars, closed, items, collected, error>>

\* Mutant: the close is not in the `finally`.
ReleaseReturned ==
  /\ call = "release" /\ call' = IF error THEN "raised" ELSE "returned"
  /\ closed' = (closed \/ (closable /\ ~error))
  /\ UNCHANGED <<fileVars, closable, streamVars, timer, items, collected, error>>

Release ==
  /\ call = "release" /\ call' = IF error THEN "raised" ELSE "returned"
  /\ closed' = (closed \/ closable)
  /\ UNCHANGED <<fileVars, closable, streamVars, timer, items, collected, error>>

------------------------------------------------------------------------------
ToolStep == \/ OpenFollow \/ OpenJoin \/ OpenFile \/ Check \/ Arm \/ TakeChunk \/ EndOfStream \/ Collect \/ NextChunk
            \/ JoinBounded \/ WriteChunk \/ Replace \/ Discard
            \/ CancelTimer \/ Release
TimerStep == Expire \/ Fire

Next == Send \/ StreamEnds \/ TimerStep \/ ToolStep \/ Killed \/ OtherWrites

Spec == Init /\ [][Next]_vars

\* The tool's thread and the timer's are scheduled, and a deadline comes. The
\* container may be silent, or run, for ever.
FairSpec == Spec /\ WF_vars(ToolStep) /\ WF_vars(TimerStep)

------------------------------------------------------------------------------
(* Properties.                                                             *)

\* A call that returns has a reason to stop where it stopped: an archive, returned
\* or written, is all the daemon sent, read to the end of the stream, and one over
\* the cap is never cut; so is a log's snapshot, unless its connection was lost,
\* which the stream does not tell from its end and the call cannot either; a follow
\* may in addition have its limit or its deadline for a reason.
ReturnsForAReason ==
  call = "returned" =>
    \/ mode = "follow" /\ (collected = Limit \/ timer = "fired")
    \/ remote = "over" /\ unread = 0 /\ items = 0
    \/ remote = "broken" /\ mode \in {"follow", "logs"}

\* However the call ends, the watchdog is not left to run out its time, the stream
\* is closed where it can be, whichever of the two threads comes first, and no
\* temporary file stays. (A refused destination leaves the stream open.)
NothingLeftBehind ==
  /\ call \in {"returned", "raised"} => timer # "armed" /\ (closable => closed)
  /\ call \in {"returned", "raised", "refused"} => ~tmp

\* The destination holds what it held, what someone else put there, or the whole
\* download: never a part of it, if the stream breaks, the disk fills up or the
\* server is killed. (Without overwrite it may replace a file that was put there
\* after the check.)
DestinationIsWhole ==
  /\ dest # "partial"
  /\ dest = "ours" => remote = "over" /\ unread = 0

\* The docstrings' bound: the call ends by its deadline where the stream can be
\* closed, and anywhere once the stream is over, a silent container included.
EndsByDeadline ==
  (call = "opened" /\ closable) \/ (call = "next" /\ remote # "open")
    ~> call \in {"returned", "raised", "killed"}
=============================================================================
