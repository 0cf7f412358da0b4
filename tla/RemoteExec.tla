------------------------------ MODULE RemoteExec ------------------------------
(***************************************************************************)
(* One call of exec_remote (docker_mcp/tools/_ssh_proxy.py): the remote     *)
(* `sh` script built by PosixDialect.wrap_with_timeout, with its command   *)
(* and its watchdog subshell, the SSH channel, and the local loop that     *)
(* drains the channel, waits for the exit status and enforces its own      *)
(* deadline.                                                               *)
(*                                                                         *)
(* A tick is the watchdog's one-second `sleep 1`.  The caller's 10 ms polls *)
(* take no tick: one that finds nothing changes nothing, so a sleeping      *)
(* caller wakes at a tick or when the channel has something for it.  The    *)
(* two hosts are either "prompt" (nothing runnable is kept waiting for a    *)
(* whole tick) or "loaded" (anything may be delayed for ever).  An output   *)
(* chunk is one unit of the retention cap.                                  *)
(***************************************************************************)
EXTENDS Integers

CONSTANTS
  Seconds,      \* one-second sleeps the watchdog counts before it fires
  TermGrace,    \* _REMOTE_TERM_GRACE_SECONDS
  LocalGrace,   \* _REMOTE_KILL_GRACE_SECONDS
  SettlePolls,  \* _EXIT_SETTLE_POLLS
  Cap,          \* max_output_bytes, per stream
  Window,       \* chunks the channel buffers before the writer blocks
  MaxWrites,    \* bound: chunks the command itself writes
  MaxLag,       \* bound: settle polls output may trail the exit status by
  Overrun       \* bound: ticks counted past the caller's deadline

ASSUME ConstantsAssumption ==
  /\ Seconds \in Nat \ {0}
  /\ TermGrace \in Nat \ {0}
  /\ LocalGrace \in Nat \ {0}
  /\ SettlePolls \in Nat \ {0}
  /\ Cap \in Nat
  /\ Window \in Nat \ {0}
  /\ MaxWrites \in Nat
  /\ MaxLag \in Nat
  /\ Overrun \in Nat

Streams == {"out", "err"}

\* Exit statuses.  TimeoutCode is _REMOTE_TIMEOUT_EXIT_CODE, the sentinel.
NoStatus    == -2
Dropped     == -1    \* what paramiko reports once the transport is gone
TimeoutCode == 124
OwnCodes    == {0, TimeoutCode}   \* 0 stands for every ordinary status
Codes       == OwnCodes \cup {125, 127, 129, 137, 143}

Deadline == Seconds + LocalGrace
\* The last tick counted.
Horizon  == Deadline + Overrun

VARIABLES
  pace,      \* "prompt": the command never waits for itself; "slow": it may
  stubborn,  \* the command ignores SIGTERM
  survivor,  \* a child of the command outlives it and keeps writing
  load,      \* "prompt" or "loaded" host
  clock,     \* ticks since `started`, saturating at Horizon
  cmd,       \* the command process
  code,      \* how it ended
  todo,      \* chunks it has yet to write
  pid,       \* who owns the pid the script remembers
  shell,     \* the main shell's place in the script
  ec,        \* its $ec
  marker,    \* the marker file
  meddled,   \* the main shell took a HUP, INT or TERM from outside
  wd,        \* the watchdog's place in the script
  wdLeft,    \* ticks left of its current sleep
  wdCount,   \* its $i
  wire,      \* chunks sent and not yet surfaced locally, per stream
  buf,       \* chunks paramiko holds for the caller, per stream
  status,    \* the exit status paramiko holds
  lag,       \* settle polls made with output still on the wire
  caller,    \* the drain loop's place
  naps,      \* settle polls left
  kept,      \* chunks retained, per stream
  taken,     \* chunks read, per stream, saturating at Cap + 1
  truncated, \* some of a stream was dropped at the cap
  paid,      \* passes past the deadline that read something, saturating at Overrun
  lost       \* output was still to come when the caller closed the channel

envVars    == <<pace, stubborn, survivor, load>>
cmdVars    == <<cmd, code, todo>>
shellVars  == <<shell, ec, meddled>>
wdVars     == <<wd, wdLeft, wdCount>>
chanVars   == <<wire, buf, status, lag>>
callerVars == <<caller, naps, kept, taken, truncated, paid, lost>>
vars == <<envVars, clock, cmdVars, pid, shellVars, marker, wdVars,
          chanVars, callerVars>>

Min2(a, b) == IF a < b THEN a ELSE b

Done    == caller \in {"result", "timeout"}
Room    == wire["out"] + wire["err"] + buf["out"] + buf["err"] < Window
\* Mutant: only stdout is drained.
QuietStdout == buf["out"] = 0

Quiet   == \A s \in Streams : buf[s] = 0
OnWire  == \E s \in Streams : wire[s] > 0
Dropout == status = Dropped

TypeOK ==
  /\ pace \in {"prompt", "slow"} /\ load \in {"prompt", "loaded"}
  /\ stubborn \in BOOLEAN /\ survivor \in BOOLEAN
  /\ clock \in 0 .. Horizon
  /\ cmd \in {"unborn", "running", "dead", "reaped"}
  /\ code \in Codes \cup {NoStatus}
  /\ todo \in 0 .. MaxWrites
  /\ pid \in {"none", "cmd", "free", "other"}
  /\ shell \in {"start", "launch", "wait", "check", "exited"}
  /\ ec \in Codes \cup {NoStatus}
  /\ marker \in {"absent", "empty", "fired"}
  /\ meddled \in BOOLEAN
  /\ wd \in {"none", "sleep", "mark", "term", "grace", "done"}
  /\ wdLeft \in 0 .. TermGrace
  /\ wdCount \in 0 .. Seconds
  /\ wire \in [Streams -> 0 .. Window] /\ buf \in [Streams -> 0 .. Window]
  /\ status \in Codes \cup {NoStatus, Dropped}
  /\ lag \in 0 .. MaxLag
  /\ caller \in {"poll", "drained", "status", "asleep", "settle",
                 "result", "timeout"}
  /\ naps \in 0 .. SettlePolls
  /\ kept \in [Streams -> 0 .. Cap] /\ taken \in [Streams -> 0 .. Cap + 1]
  /\ truncated \in BOOLEAN /\ paid \in 0 .. Overrun /\ lost \in BOOLEAN

Init ==
  /\ pace \in {"prompt", "slow"} /\ load \in {"prompt", "loaded"}
  /\ load = "loaded" => pace = "slow"   \* no command is prompt on a loaded host
  /\ stubborn \in BOOLEAN /\ survivor \in BOOLEAN
  /\ clock = 0
  /\ cmd = "unborn" /\ code = NoStatus /\ todo \in 0 .. MaxWrites
  /\ pid = "none"
  /\ shell = "start" /\ ec = NoStatus /\ marker = "absent" /\ meddled = FALSE
  /\ wd = "none" /\ wdLeft = 0 /\ wdCount = 0
  /\ wire = [s \in Streams |-> 0] /\ buf = [s \in Streams |-> 0]
  /\ status = NoStatus /\ lag = 0
  /\ caller = "poll" /\ naps = 0
  /\ kept = [s \in Streams |-> 0] /\ taken = [s \in Streams |-> 0]
  /\ truncated = FALSE /\ paid = 0 /\ lost = FALSE

------------------------------------------------------------------------------
(* The main shell of the script.                                           *)

\* m=$(mktemp ...) || exit 125; the trap is set; cd ... || exit 127 (its EXIT
\* trap removes the marker).
Prepares ==
  /\ shell = "start"
  /\ \/ shell' = "launch" /\ marker' = "empty" /\ ec' = ec
     \/ shell' = "exited" /\ marker' = marker /\ \E c \in {125, 127} : ec' = c
  /\ UNCHANGED <<envVars, clock, cmdVars, pid, meddled, wdVars, chanVars,
                 callerVars>>

\* argv & pid=$!, then the watchdog subshell, then `wait $pid`.
Launch ==
  /\ shell = "launch"
  /\ shell' = "wait"
  /\ cmd' = "running" /\ pid' = "cmd"
  /\ wd' = "sleep" /\ wdLeft' = 1 /\ wdCount' = 0
  /\ UNCHANGED <<envVars, clock, code, todo, ec, meddled, marker,
                 chanVars, callerVars>>

\* `wait $pid` returns: the command is reaped, its pid may be given away.
WaitReturns ==
  /\ shell = "wait" /\ cmd = "dead"
  /\ shell' = "check" /\ ec' = code
  /\ cmd' = "reaped" /\ pid' = "free"
  /\ UNCHANGED <<envVars, clock, code, todo, meddled, marker,
                 wdVars, chanVars, callerVars>>

\* [ -s "$m" ] && ec=124; exit $ec, with the EXIT trap.
CheckMarker ==
  /\ shell = "check"
  /\ ec' = IF marker = "fired" THEN TimeoutCode ELSE ec
  /\ shell' = "exited" /\ marker' = "absent"
  /\ UNCHANGED <<envVars, clock, cmdVars, pid, meddled, wdVars,
                 chanVars, callerVars>>

\* HUP, INT or TERM from outside: the trap removes the marker and returns,
\* it does not exit.  An interrupted `wait` yields 128 + signal; the command
\* is left to init.
ShellSignalled ==
  /\ shell \in {"launch", "wait", "check"}
  /\ ~meddled
  /\ meddled' = TRUE
  /\ marker' = "absent"
  /\ IF shell = "wait" THEN shell' = "check" /\ ec' = 129
                       ELSE UNCHANGED <<shell, ec>>
  /\ UNCHANGED <<envVars, clock, cmdVars, pid, wdVars, chanVars,
                 callerVars>>

------------------------------------------------------------------------------
(* The command, its child and the pid.                                     *)

CommandWrites(s) ==
  /\ cmd = "running" /\ todo > 0 /\ Room /\ ~Done
  /\ todo' = todo - 1
  /\ wire' = [wire EXCEPT ![s] = @ + 1]
  /\ UNCHANGED <<envVars, clock, cmd, code, pid, shellVars, marker,
                 wdVars, buf, status, lag, callerVars>>

CommandExits ==
  /\ cmd = "running" /\ (todo = 0 \/ Done)
  /\ \E c \in OwnCodes : code' = c
  /\ cmd' = "dead"
  /\ UNCHANGED <<envVars, clock, todo, pid, shellVars, marker,
                 wdVars, chanVars, callerVars>>

\* A process the command forked still holds the streams once it is gone.
SurvivorWrites ==
  /\ survivor /\ cmd \in {"dead", "reaped"} /\ Room /\ ~Done
  /\ wire' = [wire EXCEPT !["out"] = @ + 1]
  /\ UNCHANGED <<envVars, clock, cmdVars, pid, shellVars, marker, wdVars, buf,
                 status, lag, callerVars>>

\* An orphan (its shell was interrupted) is reaped by init.
OrphanReaped ==
  /\ cmd = "dead" /\ shell \in {"check", "exited"}
  /\ cmd' = "reaped" /\ pid' = "free"
  /\ UNCHANGED <<envVars, clock, code, todo, shellVars, marker,
                 wdVars, chanVars, callerVars>>

\* The kernel hands a freed pid to an unrelated process, which may end; it
\* matters for as long as the watchdog remembers the pid.
PidMoves ==
  /\ pid \in {"free", "other"} /\ wd # "done"
  /\ pid' = IF pid = "free" THEN "other" ELSE "free"
  /\ UNCHANGED <<envVars, clock, cmdVars, shellVars, marker,
                 wdVars, chanVars, callerVars>>

------------------------------------------------------------------------------
(* The watchdog subshell.                                                  *)

\* sleep 1; kill -0 $pid || exit 0; i=$((i+1)); the loop test.
WatchdogProbes ==
  /\ wd = "sleep" /\ wdLeft = 0
  /\ IF pid = "free"
       THEN wd' = "done" /\ UNCHANGED <<wdLeft, wdCount>>
       ELSE /\ wdCount' = wdCount + 1
            /\ IF wdCount + 1 < Seconds
                 THEN wd' = "sleep" /\ wdLeft' = 1
                 ELSE wd' = "mark" /\ wdLeft' = 0
  /\ UNCHANGED <<envVars, clock, cmdVars, pid, shellVars, marker,
                 chanVars, callerVars>>

\* printf t >"$m" creates the file if the trap has removed it.
WatchdogMarks ==
  /\ wd = "mark"
  /\ wd' = "term"
  /\ marker' = "fired"
  /\ UNCHANGED <<envVars, clock, cmdVars, pid, shellVars, wdLeft,
                 wdCount, chanVars, callerVars>>

\* A signal goes to whoever owns the pid now, the command or a stranger.
Signal(deadly, c) ==
  IF pid = "cmd" /\ cmd = "running" /\ deadly
     THEN cmd' = "dead" /\ code' = c
     ELSE UNCHANGED <<cmd, code>>

WatchdogTerminates ==
  /\ wd = "term"
  /\ Signal(~stubborn, 143)
  /\ wd' = "grace" /\ wdLeft' = TermGrace
  /\ UNCHANGED <<envVars, clock, todo, pid, shellVars, marker, wdCount,
                 chanVars, callerVars>>

WatchdogKills ==
  /\ wd = "grace" /\ wdLeft = 0
  /\ Signal(TRUE, 137)
  /\ wd' = "done"
  /\ UNCHANGED <<envVars, clock, todo, pid, shellVars, marker, wdLeft,
                 wdCount, chanVars, callerVars>>

------------------------------------------------------------------------------
(* The channel.  Output and the exit status surface in any order; once the  *)
(* caller has closed the channel nothing more does.                        *)

Deliver(s) ==
  /\ wire[s] > 0 /\ ~Done /\ ~Dropout
  /\ wire' = [wire EXCEPT ![s] = @ - 1]
  /\ buf' = [buf EXCEPT ![s] = @ + 1]
  /\ UNCHANGED <<envVars, clock, cmdVars, pid, shellVars, marker,
                 wdVars, status, lag, callerVars>>

StatusSurfaces ==
  /\ shell = "exited" /\ status = NoStatus /\ ~Done
  /\ status' = ec
  /\ UNCHANGED <<envVars, clock, cmdVars, pid, shellVars, marker,
                 wdVars, wire, buf, lag, callerVars>>

TransportDrops ==
  /\ status = NoStatus /\ ~Done
  /\ status' = Dropped
  /\ UNCHANGED <<envVars, clock, cmdVars, pid, shellVars, marker,
                 wdVars, wire, buf, lag, callerVars>>

------------------------------------------------------------------------------
(* The caller: _drain_exec_channel, then the attribution in exec_remote.   *)

\* Mutant: `>=` for `>`, so a stream that ends exactly at the cap is reported.
KeepToTheBrim(s, n) ==
  [len |-> kept[s] + Min2(Cap - kept[s], n), cut |-> n >= Cap - kept[s]]

\* keep(): retain what fits under the cap; (retained, some of it dropped).
Keep(s, n) == [len |-> kept[s] + Min2(Cap - kept[s], n), cut |-> n > Cap - kept[s]]

\* One pass reads whatever either stream holds, and goes round again.
DrainPass ==
  /\ caller = "poll" /\ ~Quiet
  /\ kept' = [s \in Streams |-> Keep(s, buf[s]).len]
  /\ truncated' = (truncated \/ \E s \in Streams : buf[s] > 0 /\ Keep(s, buf[s]).cut)
  /\ taken' = [s \in Streams |-> Min2(Cap + 1, taken[s] + buf[s])]
  /\ buf' = [s \in Streams |-> 0]
  /\ paid' = IF clock < Deadline THEN paid ELSE Min2(Overrun, paid + 1)
  /\ caller' = "drained"
  /\ UNCHANGED <<envVars, clock, cmdVars, pid, shellVars, marker,
                 wdVars, wire, status, lag, naps, lost>>

CallerMoves(from, to) ==
  /\ caller = from
  /\ caller' = to
  /\ UNCHANGED <<envVars, clock, cmdVars, pid, shellVars, marker,
                 wdVars, chanVars, kept, taken, truncated, paid, lost>>

\* `if moved: continue`, before the exit status and the deadline are looked at.
ContinuesDraining == CallerMoves("drained", "poll") /\ UNCHANGED naps

QuietPass == Quiet /\ CallerMoves("poll", "status") /\ UNCHANGED naps

\* Mutant: the loop breaks on the first quiet poll with a status.
SeesStatusAndBreaks ==
  /\ status # NoStatus
  /\ CallerMoves("status", "settle")
  /\ naps' = 0

SeesStatus ==
  /\ status # NoStatus
  /\ CallerMoves("status", "settle")
  /\ naps' = SettlePolls

\* Output that trails the status is at most MaxLag settle polls late, if prompt.
SettlePoll ==
  /\ naps > 0 /\ caller = "settle"
  /\ load = "prompt" /\ OnWire /\ ~Dropout => lag < MaxLag \/ ~Quiet
  /\ IF Quiet THEN caller' = "settle" /\ naps' = naps - 1
              ELSE caller' = "poll" /\ naps' = 0
  /\ lag' = IF Quiet /\ OnWire THEN Min2(MaxLag, lag + 1) ELSE lag
  /\ UNCHANGED <<envVars, clock, cmdVars, pid, shellVars, marker, wdVars, wire,
                 buf, status, kept, taken, truncated, paid, lost>>

\* Mutant: the sentinel alone decides.
IsRemoteTimeoutByCode(returncode, elapsed) == returncode = TimeoutCode

\* _is_remote_timeout: the sentinel, and the watchdog's whole sleep elapsed.
IsRemoteTimeout(returncode, elapsed) ==
  returncode = TimeoutCode /\ elapsed >= Seconds

\* The `finally` of exec_remote closes the channel; what it held is gone.
Answer(from, verdict) ==
  /\ caller = from /\ caller' = verdict
  /\ lost' = (~Quiet \/ OnWire)
  /\ wire' = [s \in Streams |-> 0] /\ buf' = [s \in Streams |-> 0] /\ lag' = 0
  /\ UNCHANGED <<envVars, clock, cmdVars, pid, shellVars, marker, wdVars,
                 status, naps, kept, taken, truncated, paid>>

Concludes ==
  /\ naps = 0
  /\ Answer("settle", IF IsRemoteTimeout(status, clock) THEN "timeout" ELSE "result")

DeadlinePasses ==
  /\ status = NoStatus /\ clock >= Deadline
  /\ Answer("status", "timeout")

\* Mutant: no local deadline test.
PollSleepsForEver ==
  /\ status = NoStatus
  /\ CallerMoves("status", "asleep")
  /\ UNCHANGED naps

PollSleeps ==
  /\ status = NoStatus /\ clock < Deadline
  /\ CallerMoves("status", "asleep")
  /\ UNCHANGED naps

Wakes ==
  /\ ~Quiet \/ status # NoStatus
  /\ CallerMoves("asleep", "poll")
  /\ UNCHANGED naps

------------------------------------------------------------------------------
(* Time.                                                                   *)

\* What a prompt host never leaves waiting for a tick.
Runnable ==
  \/ shell \in {"start", "launch", "check"}
  \/ cmd = "dead" /\ shell = "wait"
  \/ cmd = "running" /\ pace = "prompt" /\ (todo = 0 \/ Room)
  \/ ~Done /\ status = NoStatus /\ (OnWire \/ shell = "exited")
  \/ caller = "drained"
  \/ caller = "asleep" /\ (~Quiet \/ status # NoStatus)

Tick ==
  /\ Done \/ caller \in {"asleep", "drained"}
  /\ load = "prompt" => ~Runnable
  /\ clock' = IF clock < (IF Done THEN Seconds ELSE Horizon) THEN clock + 1 ELSE clock
  /\ wdLeft' = IF wdLeft > 0 THEN wdLeft - 1 ELSE 0
  /\ caller' = IF Done THEN caller ELSE "poll"
  /\ UNCHANGED <<envVars, cmdVars, pid, shellVars, marker, wd,
                 wdCount, chanVars, naps, kept, taken, truncated, paid, lost>>

Next ==
  \/ Prepares \/ Launch \/ WaitReturns \/ CheckMarker \/ ShellSignalled
  \/ \E s \in Streams : CommandWrites(s) \/ Deliver(s)
  \/ CommandExits \/ SurvivorWrites \/ OrphanReaped \/ PidMoves
  \/ WatchdogProbes \/ WatchdogMarks
  \/ WatchdogTerminates \/ WatchdogKills
  \/ StatusSurfaces \/ TransportDrops
  \/ DrainPass \/ ContinuesDraining \/ QuietPass \/ SeesStatus \/ SettlePoll
  \/ Concludes \/ DeadlinePasses \/ PollSleeps \/ Wakes
  \/ Tick

Spec == Init /\ [][Next]_vars

------------------------------------------------------------------------------
(* Properties.                                                             *)

\* A command the watchdog killed is never passed off as an ordinary failure:
\* the marker is on disk before the first signal, so while the channel and the
\* wrapper stay up, whoever was killed is reported as a timeout.
KillIsReported ==
  caller = "result" /\ code \in {137, 143} => Dropout \/ meddled

\* A command that never waits for itself is not timed out, however it divides
\* its output between the streams and whatever status it exits with: the drain
\* keeps the channel window open for both streams.
NoSpuriousTimeout ==
  caller = "timeout" /\ load = "prompt" => pace = "slow" \/ meddled

\* When a result is returned, every chunk the command wrote has been read,
\* although the status may surface up to MaxLag settle polls ahead of it.
NoLostOutput ==
  caller = "result" /\ load = "prompt" /\ ~survivor /\ ~meddled /\ ~Dropout
    => ~lost

\* The caller is told of a truncation exactly when a stream exceeded the cap,
\* and then holds that stream's first Cap chunks.
TruncationIsExact ==
  /\ truncated <=> \E s \in Streams : taken[s] > Cap
  /\ \A s \in Streams : kept[s] = Min2(Cap, taken[s])

\* Every second a call outlasts its local deadline has been paid for by a pass
\* that read output, of the command or of a child of it: a remote side that has
\* gone quiet, hung, cut off or with no watchdog left, holds the caller for none.
DeadlineHonoured == clock <= Deadline + paid

\* What RemoteCommand calls the phase, the limit, the severance and the answer.
Phase ==
  CASE cmd = "unborn" -> IF shell = "exited" THEN "refused" ELSE "starting"
    [] cmd = "running" -> "running"
    [] OTHER -> IF code \in {137, 143} THEN "killed" ELSE "finished"
Late    == clock >= Seconds
Severed == meddled \/ Dropout
Told    == IF Done THEN caller ELSE "none"

Promise == INSTANCE RemoteCommand WITH
  phase <- Phase, late <- Late, severed <- Severed, answer <- Told

\* The call keeps the promise of RemoteCommand.
ImplementsRemoteCommand == Promise!Spec
==============================================================================
