--------------------------- MODULE RemoteExecProofs ---------------------------
(***************************************************************************)
(* RemoteExec's type correctness, its account of the retained output, the  *)
(* marker protocol (KillIsReported), and its refinement of RemoteCommand,  *)
(* proved for every timeout, grace period, cap and window.                 *)
(***************************************************************************)
EXTENDS RemoteExec, TLAPS

USE ConstantsAssumption DEF Streams, NoStatus, Dropped, TimeoutCode, OwnCodes,
    Codes, Deadline, Horizon

\* What is on its way never exceeds the channel's window, and a watchdog that
\* still sleeps has sleeps left to count.
Typed ==
  /\ TypeOK
  /\ wire["out"] + wire["err"] + buf["out"] + buf["err"] <= Window
  /\ wd = "sleep" => wdCount < Seconds /\ wdLeft <= 1

Killed == code \in {137, 143}

\* The watchdog's own clock: what it has counted has passed here too, so it
\* marks and signals only after `Seconds`.
WatchdogIsLate ==
  /\ wd = "sleep" => wdCount + 1 - wdLeft <= clock
  /\ wd \in {"mark", "term", "grace"} \/ Killed => clock >= Seconds

\* The order of the script: nothing runs before it is launched, and unless the
\* shell was interrupted it outlives the command.
ScriptOrder ==
  /\ shell \in {"start", "launch"} => cmd = "unborn" /\ wd = "none"
  /\ shell = "wait" => cmd \in {"running", "dead"}
  /\ shell = "check" => cmd # "unborn"
  /\ cmd \in {"unborn", "running"} => code = NoStatus
  /\ ~meddled /\ shell \in {"check", "exited"} => cmd \in {"unborn", "reaped"}

\* The marker is written before the first signal, and found by CheckMarker.
MarkedFirst ==
  /\ ~meddled /\ shell \in {"wait", "check"} /\ (wd \in {"term", "grace"} \/ Killed)
       => marker = "fired"
  /\ ~meddled /\ shell = "exited" /\ Killed => ec = TimeoutCode

\* The status the caller sees is the one the shell exited with.
StatusIsEc ==
  /\ status \notin {NoStatus, Dropped} => status = ec /\ shell = "exited"
  /\ caller \in {"settle", "result"} => status # NoStatus

IInv ==
  /\ Typed
  /\ WatchdogIsLate /\ ScriptOrder /\ MarkedFirst /\ StatusIsEc
  /\ KillIsReported

\* The initial state satisfies the inductive invariant.
LEMMA InitIInv == Init => IInv
<1> SUFFICES ASSUME Init PROVE IInv
  OBVIOUS
<1>1. TypeOK
  <2>1. clock \in 0 .. Horizon /\ wdLeft \in 0 .. TermGrace /\ wdCount \in 0 .. Seconds
    BY DEF Init
  <2>2. lag \in 0 .. MaxLag /\ naps \in 0 .. SettlePolls /\ todo \in 0 .. MaxWrites
        /\ paid \in 0 .. Overrun
    BY DEF Init
  <2>3. /\ wire \in [Streams -> 0 .. Window] /\ buf \in [Streams -> 0 .. Window]
        /\ kept \in [Streams -> 0 .. Cap] /\ taken \in [Streams -> 0 .. Cap + 1]
    BY DEF Init
  <2> QED BY <2>1, <2>2, <2>3 DEF Init, TypeOK
<1>2. Typed
  BY <1>1 DEF Init, Typed
<1>3. WatchdogIsLate /\ ScriptOrder /\ MarkedFirst /\ StatusIsEc /\ KillIsReported
  BY DEF Init, WatchdogIsLate, ScriptOrder, MarkedFirst, StatusIsEc,
     KillIsReported, Killed
<1> QED BY <1>2, <1>3 DEF IInv

\* Every step preserves the types, the window and the watchdog's count.
LEMMA TypedNext == Typed /\ [Next]_vars => Typed'
<1> SUFFICES ASSUME Typed, [Next]_vars PROVE Typed'
  OBVIOUS
<1> USE DEF Typed, TypeOK, envVars, cmdVars, shellVars, wdVars, chanVars,
   callerVars
<1>1. CASE Prepares
  BY <1>1 DEF Prepares
<1>2. CASE Launch
  BY <1>2 DEF Launch
<1>3. CASE WaitReturns
  BY <1>3 DEF WaitReturns
<1>4. CASE CheckMarker
  BY <1>4 DEF CheckMarker
<1>5. CASE ShellSignalled
  BY <1>5 DEF ShellSignalled
<1>6. ASSUME NEW s \in Streams, CommandWrites(s) PROVE Typed'
  BY <1>6 DEF CommandWrites, Room
<1>7. ASSUME NEW s \in Streams, Deliver(s) PROVE Typed'
  BY <1>7 DEF Deliver
<1>8. CASE CommandExits
  BY <1>8 DEF CommandExits
<1>9. CASE SurvivorWrites
  BY <1>9 DEF SurvivorWrites, Room
<1>10. CASE OrphanReaped
  BY <1>10 DEF OrphanReaped
<1>11. CASE PidMoves
  BY <1>11 DEF PidMoves
<1>12. CASE WatchdogProbes
  BY <1>12 DEF WatchdogProbes
<1>13. CASE WatchdogMarks
  BY <1>13 DEF WatchdogMarks
<1>14. CASE WatchdogTerminates
  BY <1>14 DEF WatchdogTerminates, Signal
<1>15. CASE WatchdogKills
  BY <1>15 DEF WatchdogKills, Signal
<1>16. CASE StatusSurfaces
  BY <1>16 DEF StatusSurfaces
<1>17. CASE TransportDrops
  BY <1>17 DEF TransportDrops
<1>18. CASE DrainPass
  BY <1>18 DEF DrainPass, Keep, Min2
<1>19. CASE ContinuesDraining
  BY <1>19 DEF ContinuesDraining, CallerMoves
<1>20. CASE QuietPass
  BY <1>20 DEF QuietPass, CallerMoves
<1>21. CASE SeesStatus
  BY <1>21 DEF SeesStatus, CallerMoves
<1>22. CASE SettlePoll
  BY <1>22 DEF SettlePoll, Min2
<1>23. CASE Concludes
  BY <1>23 DEF Concludes, Answer, IsRemoteTimeout
<1>24. CASE DeadlinePasses
  BY <1>24 DEF DeadlinePasses, Answer
<1>25. CASE PollSleeps
  BY <1>25 DEF PollSleeps, CallerMoves
<1>26. CASE Wakes
  BY <1>26 DEF Wakes, CallerMoves
<1>27. CASE Tick
  BY <1>27 DEF Tick, Done
<1>28. CASE UNCHANGED vars
  BY <1>28 DEF vars
<1> QED
  BY <1>1, <1>2, <1>3, <1>4, <1>5, <1>6, <1>7, <1>8, <1>9, <1>10, <1>11,
     <1>12, <1>13, <1>14, <1>15, <1>16, <1>17, <1>18, <1>19, <1>20, <1>21,
     <1>22, <1>23, <1>24, <1>25, <1>26, <1>27, <1>28 DEF Next

\* Every step preserves the marker protocol.
LEMMA MarkerNext == IInv /\ Typed' /\ [Next]_vars => (WatchdogIsLate /\ ScriptOrder /\ MarkedFirst /\ StatusIsEc /\ KillIsReported)'
<1> SUFFICES ASSUME IInv, Typed', [Next]_vars PROVE (WatchdogIsLate /\ ScriptOrder /\ MarkedFirst /\ StatusIsEc /\ KillIsReported)'
  OBVIOUS
<1> USE DEF IInv, Typed, TypeOK, WatchdogIsLate, ScriptOrder, MarkedFirst,
   StatusIsEc, KillIsReported, Killed, Dropout, envVars, cmdVars, shellVars,
   wdVars, chanVars, callerVars
<1>1. CASE Prepares
  BY <1>1 DEF Prepares
<1>2. CASE Launch
  BY <1>2 DEF Launch
<1>3. CASE WaitReturns
  BY <1>3 DEF WaitReturns
<1>4. CASE CheckMarker
  BY <1>4 DEF CheckMarker
<1>5. CASE ShellSignalled
  BY <1>5 DEF ShellSignalled
<1>6. ASSUME NEW s \in Streams, CommandWrites(s) PROVE (WatchdogIsLate /\ ScriptOrder /\ MarkedFirst /\ StatusIsEc /\ KillIsReported)'
  BY <1>6 DEF CommandWrites, Room
<1>7. ASSUME NEW s \in Streams, Deliver(s) PROVE (WatchdogIsLate /\ ScriptOrder /\ MarkedFirst /\ StatusIsEc /\ KillIsReported)'
  BY <1>7 DEF Deliver
<1>8. CASE CommandExits
  BY <1>8 DEF CommandExits
<1>9. CASE SurvivorWrites
  BY <1>9 DEF SurvivorWrites, Room
<1>10. CASE OrphanReaped
  BY <1>10 DEF OrphanReaped
<1>11. CASE PidMoves
  BY <1>11 DEF PidMoves
<1>12. CASE WatchdogProbes
  <2> USE <1>12 DEF WatchdogProbes
  <2>1. WatchdogIsLate'
    <3>1. clock \in Nat /\ clock' = clock /\ wdCount \in Nat /\ wdCount + 1 <= clock
      OBVIOUS
    <3>2. CASE pid = "free"
      BY <3>2
    <3>3. CASE pid # "free" /\ wdCount + 1 < Seconds
      BY <3>1, <3>3
    <3>4. CASE pid # "free" /\ ~(wdCount + 1 < Seconds)
      BY <3>1, <3>4
    <3> QED BY <3>2, <3>3, <3>4
  <2>2. (ScriptOrder /\ MarkedFirst /\ StatusIsEc /\ KillIsReported)'
    OBVIOUS
  <2> QED BY <2>1, <2>2
<1>13. CASE WatchdogMarks
  BY <1>13 DEF WatchdogMarks
<1>14. CASE WatchdogTerminates
  BY <1>14 DEF WatchdogTerminates, Signal
<1>15. CASE WatchdogKills
  BY <1>15 DEF WatchdogKills, Signal
<1>16. CASE StatusSurfaces
  BY <1>16 DEF StatusSurfaces
<1>17. CASE TransportDrops
  BY <1>17 DEF TransportDrops
<1>18. CASE DrainPass
  BY <1>18 DEF DrainPass, Keep, Min2
<1>19. CASE ContinuesDraining
  BY <1>19 DEF ContinuesDraining, CallerMoves
<1>20. CASE QuietPass
  BY <1>20 DEF QuietPass, CallerMoves
<1>21. CASE SeesStatus
  BY <1>21 DEF SeesStatus, CallerMoves
<1>22. CASE SettlePoll
  BY <1>22 DEF SettlePoll, Min2
<1>23. CASE Concludes
  BY <1>23 DEF Concludes, Answer, IsRemoteTimeout
<1>24. CASE DeadlinePasses
  BY <1>24 DEF DeadlinePasses, Answer
<1>25. CASE PollSleeps
  BY <1>25 DEF PollSleeps, CallerMoves
<1>26. CASE Wakes
  BY <1>26 DEF Wakes, CallerMoves
<1>27. CASE Tick
  BY <1>27 DEF Tick, Done
<1>28. CASE UNCHANGED vars
  BY <1>28 DEF vars
<1> QED
  BY <1>1, <1>2, <1>3, <1>4, <1>5, <1>6, <1>7, <1>8, <1>9, <1>10, <1>11,
     <1>12, <1>13, <1>14, <1>15, <1>16, <1>17, <1>18, <1>19, <1>20, <1>21,
     <1>22, <1>23, <1>24, <1>25, <1>26, <1>27, <1>28 DEF Next

\* Type correctness, for every value of the constants.
THEOREM TypeCorrect == Spec => []TypeOK
<1>1. Init => Typed
  BY InitIInv DEF IInv
<1>2. Typed => TypeOK
  BY DEF Typed
<1> QED BY <1>1, <1>2, TypedNext, PTL DEF Spec

\* A command the watchdog killed is always reported as a timeout, unless the
\* transport dropped or the wrapper was interrupted.
THEOREM KillsAreReported == Spec => []KillIsReported
<1>1. IInv /\ [Next]_vars => IInv'
  BY TypedNext, MarkerNext DEF IInv
<1>2. IInv => KillIsReported
  BY DEF IInv
<1> QED BY InitIInv, <1>1, <1>2, PTL DEF Spec

\* The caller is told of a truncation exactly when a stream exceeded the cap,
\* however the output was divided into chunks.
THEOREM TruncationAlwaysExact == Spec => []TruncationIsExact
<1>1. Init => TruncationIsExact
  BY DEF Init, TruncationIsExact, Min2
<1>2. Typed /\ TruncationIsExact /\ [Next]_vars => TruncationIsExact'
  <2> SUFFICES ASSUME Typed, TruncationIsExact, [Next]_vars PROVE TruncationIsExact'
    OBVIOUS
  <2>1. CASE DrainPass
    <3>1. \A s \in Streams :
            /\ taken[s] \in 0 .. Cap + 1 /\ kept[s] = Min2(Cap, taken[s])
            /\ buf[s] \in Nat
      BY DEF Typed, TypeOK, TruncationIsExact
    <3>2. \A s \in Streams :
            /\ kept'[s] = kept[s] + Min2(Cap - kept[s], buf[s])
            /\ taken'[s] = Min2(Cap + 1, taken[s] + buf[s])
      BY <2>1 DEF DrainPass, Keep
    <3>3. \A s \in Streams :
            taken'[s] > Cap <=> taken[s] > Cap \/ (buf[s] > 0 /\ Keep(s, buf[s]).cut)
      <4> TAKE s \in Streams
      <4>1. Keep(s, buf[s]).cut <=> buf[s] > Cap - kept[s]
        BY DEF Keep
      <4>2. CASE taken[s] <= Cap
        <5>1. kept[s] = taken[s] /\ taken[s] \in Nat
          BY <3>1, <4>2 DEF Min2
        <5> QED BY <3>1, <3>2, <4>1, <4>2, <5>1 DEF Min2
      <4>3. CASE taken[s] = Cap + 1
        BY <3>1, <3>2, <4>1, <4>3 DEF Min2
      <4> QED BY <3>1, <4>2, <4>3
    <3>4. \A s \in Streams : kept'[s] = Min2(Cap, taken'[s])
      <4> TAKE s \in Streams
      <4>1. CASE taken[s] <= Cap
        BY <3>1, <3>2, <4>1 DEF Min2
      <4>2. CASE taken[s] = Cap + 1
        BY <3>1, <3>2, <4>2 DEF Min2
      <4> QED BY <3>1, <4>1, <4>2
    <3>5. truncated' = (truncated \/ \E s \in Streams : buf[s] > 0 /\ Keep(s, buf[s]).cut)
      BY <2>1 DEF DrainPass
    <3>6. truncated' <=> \E s \in Streams : taken'[s] > Cap
      BY <3>3, <3>5, Zenon DEF TruncationIsExact
    <3> QED BY <3>4, <3>6 DEF TruncationIsExact
  <2>2. CASE UNCHANGED <<kept, taken, truncated>>
    BY <2>2 DEF TruncationIsExact
  <2> QED
    BY <2>1, <2>2 DEF Next, vars, callerVars, Prepares, Launch, WaitReturns,
       CheckMarker, ShellSignalled, CommandWrites, Deliver, CommandExits,
       SurvivorWrites, OrphanReaped, PidMoves, WatchdogProbes, WatchdogMarks,
       WatchdogTerminates, WatchdogKills, StatusSurfaces, TransportDrops,
       ContinuesDraining, QuietPass, SeesStatus, SettlePoll, Concludes,
       DeadlinePasses, PollSleeps, Wakes, Tick, CallerMoves, Answer
<1>3. Init => Typed
  BY InitIInv DEF IInv
<1> QED BY <1>1, <1>2, <1>3, TypedNext, PTL DEF Spec

\* Every step of the call is a step of the promise, or changes none of it.
LEMMA PromiseStep == IInv /\ IInv' /\ [Next]_vars => [Promise!Next]_Promise!cmdVars
<1> SUFFICES ASSUME IInv, IInv', [Next]_vars
             PROVE  Promise!Next \/ UNCHANGED Promise!cmdVars
  OBVIOUS
<1> USE DEF IInv, Typed, TypeOK, Promise!cmdVars, Phase, Late, Severed, Told,
    Done, Dropout, envVars, cmdVars, shellVars, wdVars, chanVars, callerVars
<1>1. ASSUME Prepares PROVE Promise!Refuse \/ UNCHANGED Promise!cmdVars
  BY <1>1 DEF Prepares, ScriptOrder, Promise!Refuse, Promise!Become
<1>2. ASSUME Launch PROVE Promise!Start
  BY <1>2 DEF Launch, ScriptOrder, Promise!Start, Promise!Become
<1>3. ASSUME WaitReturns PROVE UNCHANGED Promise!cmdVars
  BY <1>3 DEF WaitReturns, ScriptOrder
<1>4. ASSUME CheckMarker PROVE UNCHANGED Promise!cmdVars
  BY <1>4 DEF CheckMarker, ScriptOrder
<1>5. ASSUME ShellSignalled PROVE Promise!Sever
  BY <1>5 DEF ShellSignalled, ScriptOrder, Promise!Sever
<1>6. ASSUME NEW s \in Streams, CommandWrites(s)
      PROVE  UNCHANGED Promise!cmdVars
  BY <1>6 DEF CommandWrites, Room
<1>7. ASSUME NEW s \in Streams, Deliver(s)
      PROVE  UNCHANGED Promise!cmdVars
  BY <1>7 DEF Deliver
<1>8. ASSUME CommandExits PROVE Promise!Finish
  BY <1>8 DEF CommandExits, ScriptOrder, Promise!Finish, Promise!Become
<1>9. ASSUME SurvivorWrites PROVE UNCHANGED Promise!cmdVars
  BY <1>9 DEF SurvivorWrites, Room
<1>10. ASSUME OrphanReaped PROVE UNCHANGED Promise!cmdVars
  BY <1>10 DEF OrphanReaped
<1>11. ASSUME PidMoves PROVE UNCHANGED Promise!cmdVars
  BY <1>11 DEF PidMoves
<1>12. ASSUME WatchdogProbes PROVE UNCHANGED Promise!cmdVars
  BY <1>12 DEF WatchdogProbes
<1>13. ASSUME WatchdogMarks PROVE UNCHANGED Promise!cmdVars
  BY <1>13 DEF WatchdogMarks
<1>14. ASSUME WatchdogTerminates PROVE Promise!Kill \/ UNCHANGED Promise!cmdVars
  BY <1>14 DEF WatchdogTerminates, Signal, WatchdogIsLate, ScriptOrder,
     Promise!Kill, Promise!Become
<1>15. ASSUME WatchdogKills PROVE Promise!Kill \/ UNCHANGED Promise!cmdVars
  BY <1>15 DEF WatchdogKills, Signal, WatchdogIsLate, ScriptOrder,
     Promise!Kill, Promise!Become
<1>16. ASSUME StatusSurfaces PROVE UNCHANGED Promise!cmdVars
  BY <1>16 DEF StatusSurfaces
<1>17. ASSUME TransportDrops PROVE Promise!Sever
  BY <1>17 DEF TransportDrops, Promise!Sever
<1>18. ASSUME DrainPass PROVE UNCHANGED Promise!cmdVars
  BY <1>18 DEF DrainPass, Keep, Min2
<1>19. ASSUME ContinuesDraining PROVE UNCHANGED Promise!cmdVars
  BY <1>19 DEF ContinuesDraining, CallerMoves
<1>20. ASSUME QuietPass PROVE UNCHANGED Promise!cmdVars
  BY <1>20 DEF QuietPass, CallerMoves
<1>21. ASSUME SeesStatus PROVE UNCHANGED Promise!cmdVars
  BY <1>21 DEF SeesStatus, CallerMoves
<1>22. ASSUME SettlePoll PROVE UNCHANGED Promise!cmdVars
  BY <1>22 DEF SettlePoll, Min2
<1>23. ASSUME Concludes PROVE \E a \in {"result", "timeout"} : Promise!Answer(a)
  BY <1>23 DEF Concludes, Answer, IsRemoteTimeout, StatusIsEc, ScriptOrder,
     MarkedFirst, WatchdogIsLate, Killed, KillIsReported, Promise!Answer
<1>24. ASSUME DeadlinePasses PROVE Promise!Answer("timeout")
  BY <1>24 DEF DeadlinePasses, Answer, Promise!Answer
<1>25. ASSUME PollSleeps PROVE UNCHANGED Promise!cmdVars
  BY <1>25 DEF PollSleeps, CallerMoves
<1>26. ASSUME Wakes PROVE UNCHANGED Promise!cmdVars
  BY <1>26 DEF Wakes, CallerMoves
<1>27. ASSUME Tick PROVE Promise!LimitPasses \/ UNCHANGED Promise!cmdVars
  BY <1>27 DEF Tick, Promise!LimitPasses
<1>28. CASE UNCHANGED vars
  BY <1>28 DEF vars
<1> QED
  BY <1>1, <1>2, <1>3, <1>4, <1>5, <1>6, <1>7, <1>8, <1>9, <1>10, <1>11,
     <1>12, <1>13, <1>14, <1>15, <1>16, <1>17, <1>18, <1>19, <1>20, <1>21,
     <1>22, <1>23, <1>24, <1>25, <1>26, <1>27, <1>28 DEF Next, Promise!Next,
     Promise!Answers

\* exec_remote keeps the promise of RemoteCommand for every timeout, window and
\* cap: one answer, a timeout only once the limit has passed, and an ordinary
\* result never for a command its watchdog killed.
THEOREM KeepsPromise == Spec => ImplementsRemoteCommand
<1>1. Init => Promise!Init
  BY DEF Init, Promise!Init, Phase, Late, Severed, Told, Done, Dropout
<1>2. IInv /\ [Next]_vars => IInv'
  BY TypedNext, MarkerNext DEF IInv
<1> QED BY InitIInv, <1>1, <1>2, PromiseStep, PTL DEF Spec, ImplementsRemoteCommand, Promise!Spec
------------------------------------------------------------------------------
(* What the caller's loop guarantees.                                      *)

\* A command that is prompt on a prompt host never costs the caller a tick.
PromptIsTimeless == load = "prompt" /\ pace = "prompt" /\ ~Done => clock = 0

\* Past the deadline the caller no longer sleeps, so it meets the next tick only
\* on its way round from a pass that read something, and that pass has paid.
DeadlineBudget ==
  /\ DeadlineHonoured
  /\ caller = "asleep" => clock < Deadline
  /\ caller = "drained" /\ Deadline <= clock /\ clock < Horizon => clock < Deadline + paid

\* Nothing stands between an undisturbed command that is over and its output.
Undisturbed == load = "prompt" /\ ~survivor /\ ~meddled /\ ~Dropout

\* While output trails the status, every settle poll made so far had to wait for
\* it; and what is returned as a result has lost none.
SettleCounts ==
  /\ caller = "settle" /\ Undisturbed /\ (OnWire \/ ~Quiet) => lag + naps >= SettlePolls
  /\ NoLostOutput

CallerInv == PromptIsTimeless /\ DeadlineBudget /\ SettleCounts

LEMMA InitCallerInv == Init => CallerInv
BY DEF Init, CallerInv, PromptIsTimeless, DeadlineBudget, SettleCounts, NoLostOutput, Undisturbed,
   DeadlineHonoured, Done

\* On a prompt host a prompt command leaves nothing waiting: until the caller is
\* done there is no tick.
LEMMA PromptNext == IInv /\ PromptIsTimeless /\ [Next]_vars => PromptIsTimeless'
<1> SUFFICES ASSUME IInv, PromptIsTimeless, [Next]_vars PROVE PromptIsTimeless'
  OBVIOUS
<1> USE DEF IInv, Typed, TypeOK, PromptIsTimeless, Done, envVars
<1>1. CASE Tick
  <2>1. ASSUME load = "prompt", pace = "prompt", ~Done PROVE FALSE
    <3> USE <2>1
    <3>1. ~Runnable /\ caller = "asleep"
      BY <1>1 DEF Tick, Runnable
    <3>2. Quiet /\ status = NoStatus /\ ~OnWire /\ shell = "wait"
      BY <3>1 DEF Runnable
    <3>3. Room
      BY <3>2 DEF Room, Quiet, OnWire
    <3>4. cmd \in {"running", "dead"}
      BY <3>2 DEF ScriptOrder
    <3> QED BY <3>1, <3>2, <3>3, <3>4 DEF Runnable
  <2> QED BY <1>1, <2>1 DEF Tick
<1>2. CASE UNCHANGED vars
  BY <1>2 DEF vars, callerVars
<1>3. ASSUME clock' = clock, envVars' = envVars, ~Done' => ~Done
      PROVE  PromptIsTimeless'
  BY <1>3
<1>4. CASE Next /\ ~Tick
  <2>1. clock' = clock /\ envVars' = envVars
    BY <1>4 DEF Next, Prepares, Launch, WaitReturns, CheckMarker, ShellSignalled, CommandWrites,
       Deliver, CommandExits, SurvivorWrites, OrphanReaped, PidMoves, WatchdogProbes,
       WatchdogMarks, WatchdogTerminates, WatchdogKills, StatusSurfaces, TransportDrops,
       DrainPass, ContinuesDraining, QuietPass, SeesStatus, SettlePoll, Concludes,
       DeadlinePasses, PollSleeps, Wakes, CallerMoves, Answer
  <2>2. ~Done' => ~Done
    BY <1>4 DEF Next, Prepares, Launch, WaitReturns, CheckMarker, ShellSignalled, CommandWrites,
       Deliver, CommandExits, SurvivorWrites, OrphanReaped, PidMoves, WatchdogProbes,
       WatchdogMarks, WatchdogTerminates, WatchdogKills, StatusSurfaces, TransportDrops,
       DrainPass, ContinuesDraining, QuietPass, SeesStatus, SettlePoll, Concludes,
       DeadlinePasses, PollSleeps, Wakes, CallerMoves, Answer, callerVars
  <2> QED BY <1>3, <2>1, <2>2
<1> QED BY <1>1, <1>2, <1>4

\* Every step keeps the caller's budget of ticks.
LEMMA BudgetNext == IInv /\ DeadlineBudget /\ [Next]_vars => DeadlineBudget'
<1> SUFFICES ASSUME IInv, DeadlineBudget, [Next]_vars PROVE DeadlineBudget'
  OBVIOUS
<1> USE DEF IInv, Typed, TypeOK, DeadlineBudget, DeadlineHonoured, Done, callerVars
<1>1. CASE DrainPass
  BY <1>1 DEF DrainPass, Min2
<1>2. CASE ContinuesDraining \/ QuietPass \/ SeesStatus \/ PollSleeps \/ Wakes
  BY <1>2 DEF ContinuesDraining, QuietPass, SeesStatus, PollSleeps, Wakes, CallerMoves
<1>3. CASE SettlePoll
  BY <1>3 DEF SettlePoll
<1>4. CASE Concludes \/ DeadlinePasses
  BY <1>4 DEF Concludes, DeadlinePasses, Answer, IsRemoteTimeout
<1>5. CASE Tick
  BY <1>5 DEF Tick
<1>6. CASE \/ Prepares \/ Launch \/ WaitReturns \/ CheckMarker \/ ShellSignalled \/ CommandExits
           \/ SurvivorWrites \/ OrphanReaped \/ PidMoves \/ WatchdogProbes \/ WatchdogMarks
           \/ WatchdogTerminates \/ WatchdogKills \/ StatusSurfaces \/ TransportDrops
           \/ \E s \in Streams : CommandWrites(s) \/ Deliver(s)
  <2>1. UNCHANGED <<clock, caller, paid>>
    BY <1>6 DEF Prepares, Launch, WaitReturns, CheckMarker, ShellSignalled, CommandExits,
       SurvivorWrites, OrphanReaped, PidMoves, WatchdogProbes, WatchdogMarks, WatchdogTerminates,
       WatchdogKills, StatusSurfaces, TransportDrops, CommandWrites, Deliver
  <2> QED BY <2>1
<1>7. CASE UNCHANGED vars
  BY <1>7 DEF vars
<1> QED BY <1>1, <1>2, <1>3, <1>4, <1>5, <1>6, <1>7 DEF Next

\* Every step keeps the count of settle polls, if output trails the status by
\* fewer polls than the caller makes.
LEMMA SettleNext ==
  ASSUME MaxLag < SettlePolls
  PROVE  IInv /\ SettleCounts /\ [Next]_vars => SettleCounts'
<1> SUFFICES ASSUME IInv, SettleCounts, [Next]_vars PROVE SettleCounts'
  OBVIOUS
<1> USE DEF IInv, Typed, TypeOK, SettleCounts, NoLostOutput, Undisturbed, Quiet, OnWire, Dropout,
    Done, envVars, callerVars
<1>1. ASSUME caller \in {"settle", "result"}, Undisturbed
      PROVE  status \notin {NoStatus, Dropped} /\ shell = "exited" /\ cmd \in {"unborn", "reaped"}
  BY <1>1 DEF StatusIsEc, ScriptOrder
<1>2. ASSUME NEW s \in Streams, CommandWrites(s) PROVE SettleCounts'
  <2> QED BY <1>1, <1>2 DEF CommandWrites, shellVars
<1>3. ASSUME NEW s \in Streams, Deliver(s) PROVE SettleCounts'
  BY <1>3 DEF Deliver, shellVars
<1>4. CASE SurvivorWrites
  BY <1>4 DEF SurvivorWrites, shellVars
<1>5. CASE DrainPass
  BY <1>5 DEF DrainPass, shellVars
<1>6. CASE ContinuesDraining \/ QuietPass \/ SeesStatus \/ PollSleeps \/ Wakes
  BY <1>6 DEF ContinuesDraining, QuietPass, SeesStatus, PollSleeps, Wakes, CallerMoves, chanVars,
     shellVars
<1>7. CASE SettlePoll
  BY <1>7 DEF SettlePoll, Min2, shellVars
<1>8. CASE Concludes
  BY <1>8 DEF Concludes, Answer, shellVars
<1>9. CASE DeadlinePasses
  BY <1>9 DEF DeadlinePasses, Answer, shellVars
<1>10. CASE Tick
  BY <1>10 DEF Tick, chanVars, shellVars
<1>11. CASE StatusSurfaces \/ TransportDrops
  BY <1>11 DEF StatusSurfaces, TransportDrops, StatusIsEc, shellVars
<1>12. ASSUME UNCHANGED <<load, survivor, status, wire, buf, lag, caller, naps, lost>>, meddled => meddled'
       PROVE  SettleCounts'
  BY <1>12
<1>13. CASE \/ Prepares \/ Launch \/ WaitReturns \/ CheckMarker \/ ShellSignalled \/ CommandExits
            \/ OrphanReaped \/ PidMoves \/ WatchdogProbes \/ WatchdogMarks
            \/ WatchdogTerminates \/ WatchdogKills
  BY <1>12, <1>13 DEF Prepares, Launch, WaitReturns, CheckMarker, ShellSignalled, CommandExits,
     OrphanReaped, PidMoves, WatchdogProbes, WatchdogMarks, WatchdogTerminates, WatchdogKills,
     chanVars, shellVars
<1>14. CASE UNCHANGED vars
  BY <1>12, <1>14 DEF vars, chanVars, shellVars
<1> QED BY <1>2, <1>3, <1>4, <1>5, <1>6, <1>7, <1>8, <1>9, <1>10, <1>11, <1>13, <1>14 DEF Next

LEMMA IInvHolds == Spec => []IInv
<1>1. IInv /\ [Next]_vars => IInv'
  BY TypedNext, MarkerNext DEF IInv
<1> QED BY InitIInv, <1>1, PTL DEF Spec

\* A prompt command on a prompt host is never reported as timed out: the drain
\* of both streams keeps the channel open for it (_drain_exec_channel), and the
\* sentinel alone is not believed (_is_remote_timeout).
THEOREM TimeoutsAreEarned == Spec => []NoSpuriousTimeout
<1> DEFINE Earned == caller = "timeout" /\ load = "prompt" => pace = "slow"
<1>1. Init => PromptIsTimeless /\ Earned
  BY InitCallerInv DEF CallerInv, Init
<1>2. IInv /\ PromptIsTimeless /\ Earned /\ [Next]_vars => Earned'
  <2> SUFFICES ASSUME IInv, PromptIsTimeless, Earned, [Next]_vars,
                      caller' = "timeout", load' = "prompt"
               PROVE  pace' = "slow"
    OBVIOUS
  <2> USE DEF IInv, Typed, TypeOK, PromptIsTimeless, Done
  <2>1. UNCHANGED envVars
    BY DEF Next, vars, Prepares, Launch, WaitReturns, CheckMarker, ShellSignalled, CommandWrites,
       Deliver, CommandExits, SurvivorWrites, OrphanReaped, PidMoves, WatchdogProbes,
       WatchdogMarks, WatchdogTerminates, WatchdogKills, StatusSurfaces, TransportDrops,
       DrainPass, ContinuesDraining, QuietPass, SeesStatus, SettlePoll, Concludes,
       DeadlinePasses, PollSleeps, Wakes, CallerMoves, Answer, Tick
  <2>2. CASE caller = "timeout"
    BY <2>1, <2>2 DEF envVars
  <2>3. CASE caller # "timeout"
    <3>1. Concludes \/ DeadlinePasses
      BY <2>3 DEF Next, vars, callerVars, Prepares, Launch, WaitReturns, CheckMarker,
         ShellSignalled, CommandWrites, Deliver, CommandExits, SurvivorWrites, OrphanReaped,
         PidMoves, WatchdogProbes, WatchdogMarks, WatchdogTerminates, WatchdogKills,
         StatusSurfaces, TransportDrops, DrainPass, ContinuesDraining, QuietPass, SeesStatus,
         SettlePoll, PollSleeps, Wakes, CallerMoves, Tick
    <3>2. clock > 0 /\ ~Done
      BY <3>1 DEF Concludes, DeadlinePasses, Answer, IsRemoteTimeout
    <3> QED BY <2>1, <3>2 DEF envVars
  <2> QED BY <2>2, <2>3
<1>3. Earned => NoSpuriousTimeout
  BY DEF NoSpuriousTimeout
<1> QED BY <1>1, <1>2, <1>3, IInvHolds, PromptNext, PTL DEF Spec

\* The settle polls buy what they are for: if output trails the exit status by
\* fewer polls than _EXIT_SETTLE_POLLS, an undisturbed call returns all of it.
THEOREM OutputIsKept ==
  ASSUME MaxLag < SettlePolls
  PROVE  Spec => []NoLostOutput
<1>1. Init => SettleCounts
  BY InitCallerInv DEF CallerInv
<1>2. SettleCounts => NoLostOutput
  BY DEF SettleCounts
<1> QED BY <1>1, <1>2, IInvHolds, SettleNext, PTL DEF Spec

\* Whatever the remote side does, no second goes by past the deadline but after
\* a pass that read something: the deadline test of _drain_exec_channel is met by
\* the first pass that finds both streams quiet.
THEOREM DeadlinesAreHonoured == Spec => []DeadlineHonoured
<1>1. Init => DeadlineBudget
  BY InitCallerInv DEF CallerInv
<1>2. DeadlineBudget => DeadlineHonoured
  BY DEF DeadlineBudget
<1> QED BY <1>1, <1>2, IInvHolds, BudgetNext, PTL DEF Spec
===============================================================================
