---------------------------- MODULE TimersProofs ----------------------------
(***************************************************************************)
(* Proofs about the two timers.                                            *)
(*                                                                         *)
(* Timer, for any number of controllers, any intervals and any lateness:   *)
(* the thread never runs on a deleted callback, and it counts the          *)
(* invocations it skips as getSkipped() documents.                         *)
(*                                                                         *)
(* Util::Timer, for any number of tasks and of cancel() calls: cancel()    *)
(* removes what was scheduled when it was called, and a cancelled task     *)
(* does not run again, and nothing that a caller waits for is lost.        *)
(***************************************************************************)
EXTENDS Timer, UtilTimer, FiniteSetTheorems, SequenceTheorems, TLAPS

-----------------------------------------------------------------------------
(* Timer: arithmetic of the inner loop of run(). *)

\* Intervals are a number of units.
LEMMA UnitsNat ==
  ASSUME NEW m \in Nat
  PROVE  Units(m) \in Nat
  BY TimerAssumption DEF Units

\* One turn of the loop is one interval more.
LEMMA OneMoreRound ==
  ASSUME NEW k \in Nat, NEW u \in Nat
  PROVE  (k + 1) * u = k * u + u /\ k * u \in Nat
  OBVIOUS

\* What is cut off a time to whole milliseconds is less than one.
LEMMA WholeMilliseconds ==
  ASSUME NEW n \in Nat
  PROVE  n - (n % PerMs) \in Nat /\ n % PerMs \in Nat /\ n % PerMs < PerMs
  <1>1. n % PerMs \in Nat /\ n % PerMs < PerMs BY TimerAssumption
  <1>2. n % PerMs <= n
    <2>1. n \div PerMs \in Nat /\ n = PerMs * (n \div PerMs) + (n % PerMs) BY TimerAssumption
    <2>2. PerMs * (n \div PerMs) \in Nat BY <2>1, TimerAssumption
    <2> QED BY <1>1, <2>1, <2>2
  <1> QED BY <1>1, <1>2

-----------------------------------------------------------------------------
(* The inductive invariant of Timer. *)

\* One token goes round between the thread, the Event _done and the stop() that took
\* it from there: whoever holds it knows that the callback has not been deleted.
OneToken ==
  /\ tpc # "none" => pCallback /\ ~done
  /\ done => pCallback
  /\ \A c \in Controllers : spc[c] = "lock" => pCallback /\ ~done /\ tpc = "none"
  /\ \A c, d \in Controllers : spc[c] = "lock" /\ spc[d] = "lock" => c = d

\* The thread does not sleep longer than until the next invocation, nor shorter by a
\* whole millisecond.
SleepsInStep ==
  /\ tpc = "sleep" => next < left + PerMs
  /\ tpc = "invoke" => next < PerMs

\* From an invocation until the thread sleeps again, the time since it was due tells
\* when the next one is, and that what has been skipped was past.
DueInStep ==
  sinceDue # NoDue =>
    /\ tpc \in {"callback", "after"} => next = -sinceDue
    /\ tpc = "top" =>
         /\ interval > 0
         /\ next = (skipped + 1) * Units(interval) - sinceDue
         /\ skipped > 0 => sinceDue - skipped * Units(interval) >= PerMs

TimerIInv == TimerTypeOK /\ OneToken /\ SleepsInStep /\ DueInStep

LEMMA TimerInitIInv == TimerInit => TimerIInv
  <1> SUFFICES ASSUME TimerInit PROVE TimerIInv
    OBVIOUS
  <1>1. TimerTypeOK
    <2>1. /\ next \in Int /\ next >= -MaxLate /\ sinceDue \in Int /\ sinceDue >= NoDue
          /\ periodicInterval \in Nat /\ skipped \in Nat /\ interval \in Nat /\ left \in Nat
      BY TimerAssumption DEF TimerInit, NoDue
    <2>2. pCallback \in BOOLEAN /\ wakeUp \in BOOLEAN /\ done \in BOOLEAN BY DEF TimerInit
    <2> QED BY <2>1, <2>2 DEF TimerInit, TimerTypeOK, Places
  <1>2. OneToken /\ SleepsInStep BY DEF TimerInit, OneToken, SleepsInStep
  <1>3. DueInStep BY DEF TimerInit, DueInStep
  <1> QED BY <1>1, <1>2, <1>3 DEF TimerIInv

\* Every step keeps the types: in particular no invocation gets later by skipping, and
\* none is early by a whole millisecond.
LEMMA TimerTypeStep ==
  TimerTypeOK /\ SleepsInStep /\ [TimerNext]_timerVars => TimerTypeOK'
  <1> SUFFICES ASSUME TimerTypeOK, SleepsInStep, [TimerNext]_timerVars PROVE TimerTypeOK'
    OBVIOUS
  <1> USE TimerAssumption
  <1>0. NoDue \in Int BY DEF NoDue
  <1>1. ASSUME NEW c \in Controllers, Use(c) PROVE TimerTypeOK'
    <2>1. ASSUME NEW s \in StartIntervals, start(c, s) PROVE TimerTypeOK'
      <3>0. s \in Nat /\ Units(s) \in Nat BY UnitsNat
      <3>1. /\ next' \in Int /\ next' >= -MaxLate
            /\ interval' \in Nat /\ sinceDue' \in Int /\ sinceDue' >= NoDue
        BY <1>0, <2>1, <3>0 DEF start
      <3>2. pCallback' \in BOOLEAN /\ wakeUp' \in BOOLEAN BY <2>1 DEF start
      <3> QED BY <2>1, <3>1, <3>2 DEF TimerTypeOK, start, Places
    <2>2. CASE StartFails(c) BY <2>2 DEF TimerTypeOK, StartFails, thread
    <2>3. CASE stop(c) BY <2>3 DEF TimerTypeOK, stop, thread
    <2>4. CASE restart(c) BY <2>4 DEF TimerTypeOK, restart, thread
    <2>5. ASSUME NEW m \in Intervals, restartWith(c, m) PROVE TimerTypeOK'
      BY <2>5 DEF TimerTypeOK, restartWith, thread
    <2>6. ASSUME NEW m \in Intervals, setPeriodicInterval(c, m) PROVE TimerTypeOK'
      BY <2>6 DEF TimerTypeOK, setPeriodicInterval, thread
    <2> QED BY <1>1, <2>1, <2>2, <2>3, <2>4, <2>5, <2>6 DEF Use
  <1>2. ASSUME NEW c \in Controllers, StopStep(c) PROVE TimerTypeOK'
    BY <1>2 DEF StopStep, StopWakes, StopWaits, StopEnds, TimerTypeOK, thread
  <1>3. CASE TimerRun
    <2>0. Units(interval) \in Nat /\ Units(periodicInterval) \in Nat
      BY UnitsNat DEF TimerTypeOK
    <2>1. CASE SkipMissed
      <3>1. next' \in Int /\ next' >= -MaxLate /\ skipped' \in Nat
        BY <2>0, <2>1 DEF SkipMissed, TimerTypeOK
      <3> QED BY <2>1, <3>1 DEF SkipMissed, TimerTypeOK, Places
    <2>2. CASE FallAsleep
      <3>1. next >= 0 => next - (next % PerMs) \in Nat
        BY WholeMilliseconds DEF TimerTypeOK
      <3>2. left' \in Nat BY <2>2, <3>1 DEF FallAsleep, TimerTypeOK
      <3> QED BY <2>2, <3>2 DEF FallAsleep, TimerTypeOK, Places
    <2>3. CASE Woken BY <2>3 DEF Woken, TimerTypeOK, Places
    <2>4. CASE Reread
      <3>1. next' \in Int /\ next' >= -MaxLate /\ sinceDue' \in Int /\ sinceDue' >= NoDue
        BY <1>0, <2>0, <2>4 DEF Reread
      <3> QED BY <2>4, <3>1 DEF Reread, NextRound, TimerTypeOK, Places
    <2>5. CASE AfterCallback
      <3>1. next' \in Int /\ next' >= -MaxLate BY <2>0, <2>5 DEF AfterCallback, TimerTypeOK
      <3> QED BY <2>5, <3>1 DEF AfterCallback, NextRound, TimerTypeOK, Places
    <2>6. CASE Exit
      <3>1. next' \in Int /\ next' >= -MaxLate /\ sinceDue' \in Int /\ sinceDue' >= NoDue
        BY <1>0, <2>6 DEF Exit
      <3> QED BY <2>6, <3>1 DEF Exit, TimerTypeOK, Places
    <2>7. CASE TimesOut \/ CallbackEnds BY <2>7 DEF TimesOut, CallbackEnds, TimerTypeOK, Places
    <2>8. CASE Invoke
      <3>1. sinceDue' \in Int /\ sinceDue' >= NoDue
        BY <2>8 DEF Invoke, TimerTypeOK, SleepsInStep, NoDue
      <3> QED BY <2>8, <3>1 DEF Invoke, TimerTypeOK, Places
    <2> QED BY <1>3, <2>1, <2>2, <2>3, <2>4, <2>5, <2>6, <2>7, <2>8 DEF TimerRun
  <1>4. CASE TimerTick
    <2>1. sinceDue' \in Int /\ sinceDue' >= NoDue BY <1>0, <1>4 DEF TimerTick, TimerTypeOK
    <2> QED BY <1>4, <2>1 DEF TimerTick, TimerTypeOK
  <1>5. CASE UNCHANGED timerVars BY <1>5 DEF timerVars, TimerTypeOK
  <1> QED BY <1>1, <1>2, <1>3, <1>4, <1>5 DEF TimerNext

\* Every step keeps the one token.
LEMMA TokenStep == TimerTypeOK /\ OneToken /\ [TimerNext]_timerVars => OneToken'
  <1> SUFFICES ASSUME TimerTypeOK, OneToken, [TimerNext]_timerVars PROVE OneToken'
    OBVIOUS
  <1>1. ASSUME NEW c \in Controllers, Use(c) PROVE OneToken'
    <2>1. ASSUME NEW s \in StartIntervals, start(c, s) PROVE OneToken'
      BY <2>1 DEF TimerTypeOK, OneToken, start
    <2>2. CASE StartFails(c) BY <2>2 DEF OneToken, StartFails, thread
    <2>3. CASE stop(c) BY <2>3 DEF TimerTypeOK, OneToken, stop, thread
    <2>4. CASE restart(c) BY <2>4 DEF OneToken, restart, thread
    <2>5. ASSUME NEW m \in Intervals, restartWith(c, m) PROVE OneToken'
      BY <2>5 DEF OneToken, restartWith, thread
    <2>6. ASSUME NEW m \in Intervals, setPeriodicInterval(c, m) PROVE OneToken'
      BY <2>6 DEF OneToken, setPeriodicInterval, thread
    <2> QED BY <1>1, <2>1, <2>2, <2>3, <2>4, <2>5, <2>6 DEF Use
  <1>2. ASSUME NEW c \in Controllers, StopStep(c) PROVE OneToken'
    <2>1. CASE StopWakes(c) BY <2>1 DEF TimerTypeOK, OneToken, StopWakes, thread
    <2>2. CASE StopWaits(c) BY <2>2 DEF TimerTypeOK, OneToken, StopWaits, thread
    <2>3. CASE StopEnds(c) BY <2>3 DEF TimerTypeOK, OneToken, StopEnds, thread
    <2> QED BY <1>2, <2>1, <2>2, <2>3 DEF StopStep
  <1>3. CASE TimerRun
    <2>1. CASE SkipMissed \/ FallAsleep \/ Woken \/ TimesOut \/ Invoke \/ CallbackEnds
      BY <2>1 DEF SkipMissed, FallAsleep, Woken, TimesOut, Invoke, CallbackEnds, TimerTypeOK, OneToken
    <2>2. CASE Reread \/ AfterCallback
      BY <2>2 DEF Reread, AfterCallback, NextRound, TimerTypeOK, OneToken
    <2>3. CASE Exit BY <2>3 DEF Exit, TimerTypeOK, OneToken
    <2> QED BY <1>3, <2>1, <2>2, <2>3 DEF TimerRun
  <1>4. CASE TimerTick BY <1>4 DEF TimerTick, OneToken
  <1>5. CASE UNCHANGED timerVars BY <1>5 DEF timerVars, OneToken
  <1> QED BY <1>1, <1>2, <1>3, <1>4, <1>5 DEF TimerNext

\* Every step keeps the sleep in step with the next invocation.
LEMMA SleepsStep ==
  TimerTypeOK /\ SleepsInStep /\ [TimerNext]_timerVars => SleepsInStep'
  <1> SUFFICES ASSUME TimerTypeOK, SleepsInStep, [TimerNext]_timerVars PROVE SleepsInStep'
    OBVIOUS
  <1> USE TimerAssumption
  <1>1. ASSUME NEW c \in Controllers, Use(c) PROVE SleepsInStep'
    <2>1. ASSUME NEW s \in StartIntervals, start(c, s) PROVE SleepsInStep'
      BY <2>1 DEF SleepsInStep, start
    <2>2. CASE UNCHANGED thread BY <2>2 DEF SleepsInStep, thread
    <2> QED BY <1>1, <2>1, <2>2
            DEF Use, StartFails, stop, restart, restartWith, setPeriodicInterval
  <1>2. ASSUME NEW c \in Controllers, StopStep(c) PROVE SleepsInStep'
    BY <1>2 DEF StopStep, StopWakes, StopWaits, StopEnds, thread, SleepsInStep
  <1>3. CASE TimerRun
    <2>1. CASE FallAsleep
      <3>1. CASE next < 0
        BY <2>1, <3>1 DEF FallAsleep, TimerTypeOK, SleepsInStep
      <3>2. CASE next >= 0
        <4>1. next % PerMs \in Nat /\ next % PerMs < PerMs
          BY <3>2, WholeMilliseconds DEF TimerTypeOK
        <4>2. left' = next - (next % PerMs) /\ next' = next /\ tpc' = "sleep"
          BY <2>1, <3>2 DEF FallAsleep, TimerTypeOK
        <4>3. next < left' + PerMs BY <4>1, <4>2 DEF TimerTypeOK
        <4> QED BY <4>2, <4>3 DEF SleepsInStep
      <3> QED BY <3>1, <3>2 DEF TimerTypeOK
    <2>2. CASE TimesOut BY <2>2 DEF TimesOut, SleepsInStep
    <2>3. CASE SkipMissed \/ Woken \/ Reread \/ Invoke \/ CallbackEnds \/ AfterCallback \/ Exit
      BY <2>3 DEF SkipMissed, Woken, Reread, Invoke, CallbackEnds, AfterCallback, Exit,
                  NextRound, SleepsInStep
    <2> QED BY <1>3, <2>1, <2>2, <2>3 DEF TimerRun
  <1>4. CASE TimerTick BY <1>4 DEF TimerTick, TimerTypeOK, SleepsInStep
  <1>5. CASE UNCHANGED timerVars BY <1>5 DEF timerVars, SleepsInStep
  <1> QED BY <1>1, <1>2, <1>3, <1>4, <1>5 DEF TimerNext

\* Every step keeps the due times in step.
LEMMA DueStep == TimerTypeOK /\ DueInStep /\ [TimerNext]_timerVars => DueInStep'
  <1> SUFFICES ASSUME TimerTypeOK, DueInStep, [TimerNext]_timerVars PROVE DueInStep'
    OBVIOUS
  <1> USE TimerAssumption
  <1>1. ASSUME NEW c \in Controllers, Use(c) PROVE DueInStep'
    <2>1. ASSUME NEW s \in StartIntervals, start(c, s) PROVE DueInStep'
      BY <2>1 DEF DueInStep, start
    <2>2. CASE UNCHANGED thread BY <2>2 DEF DueInStep, thread
    <2> QED BY <1>1, <2>1, <2>2
            DEF Use, StartFails, stop, restart, restartWith, setPeriodicInterval
  <1>2. ASSUME NEW c \in Controllers, StopStep(c) PROVE DueInStep'
    BY <1>2 DEF StopStep, StopWakes, StopWaits, StopEnds, thread, DueInStep
  <1>3. CASE TimerRun
    <2>1. CASE FallAsleep \/ Woken \/ TimesOut \/ CallbackEnds
      BY <2>1 DEF FallAsleep, Woken, TimesOut, CallbackEnds, TimerTypeOK, DueInStep
    <2>2. CASE Invoke BY <2>2 DEF Invoke, TimerTypeOK, DueInStep
    <2>3. CASE Reread BY <2>3 DEF Reread, DueInStep
    <2>4. CASE AfterCallback
      <3> DEFINE u == Units(periodicInterval)
      <3>1. /\ tpc = "after" /\ next' = next + u /\ skipped' = 0 /\ sinceDue' = sinceDue
            /\ interval' = periodicInterval /\ tpc' \in {"top", "exit"}
            /\ tpc' = "top" => interval' > 0
        BY <2>4 DEF AfterCallback, NextRound
      <3>2. Units(interval)' = u BY <3>1 DEF Units
      <3>3. u \in Nat BY UnitsNat DEF TimerTypeOK
      <3> HIDE DEF u
      <3>4. (skipped' + 1) * u = u BY <3>1, <3>3
      <3>5. sinceDue # NoDue => next' = (skipped' + 1) * u - sinceDue'
        BY <3>1, <3>3, <3>4 DEF DueInStep, TimerTypeOK
      <3>6. ~(skipped' > 0) /\ NoDue' = NoDue BY <3>1 DEF NoDue
      <3> QED BY <3>1, <3>2, <3>5, <3>6 DEF DueInStep
    <2>5. CASE Exit BY <2>5 DEF Exit, DueInStep
    <2>6. CASE SkipMissed
      <3> DEFINE u == Units(interval)
      <3>1. /\ tpc = "top" /\ next <= -PerMs /\ next' = next + u /\ skipped' = skipped + 1
            /\ sinceDue' = sinceDue /\ interval' = interval
        BY <2>6 DEF SkipMissed, Past
      <3>2. Units(interval)' = u BY <3>1 DEF Units
      <3>3. /\ u \in Nat /\ skipped \in Nat /\ skipped + 1 \in Nat
            /\ next \in Int /\ sinceDue \in Int
        BY UnitsNat DEF TimerTypeOK
      <3>4. sinceDue # NoDue => next = (skipped + 1) * u - sinceDue
        BY <3>1 DEF DueInStep
      <3> HIDE DEF u
      <3>5. /\ (skipped + 1 + 1) * u = (skipped + 1) * u + u
            /\ (skipped + 1) * u \in Nat
        BY <3>3, OneMoreRound
      <3>6. sinceDue # NoDue => next + u = (skipped + 1 + 1) * u - sinceDue
        BY <3>3, <3>4, <3>5
      <3>7. sinceDue # NoDue => sinceDue - (skipped + 1) * u >= PerMs
        BY <3>1, <3>3, <3>4, <3>5
      <3>8. sinceDue # NoDue => interval > 0 BY <3>1 DEF DueInStep
      <3>9. tpc' = "top" /\ NoDue' = NoDue BY <2>6 DEF SkipMissed, NoDue
      <3> QED BY <3>1, <3>2, <3>6, <3>7, <3>8, <3>9 DEF DueInStep
    <2> QED BY <1>3, <2>1, <2>2, <2>3, <2>4, <2>5, <2>6 DEF TimerRun
  <1>4. CASE TimerTick
    <2> DEFINE u == Units(interval)
    <2>1. /\ next' = next - 1 /\ UNCHANGED <<skipped, interval, tpc>>
          /\ sinceDue # NoDue => sinceDue' = sinceDue + 1
          /\ sinceDue = NoDue => sinceDue' = NoDue
      BY <1>4 DEF TimerTick
    <2>2. Units(interval)' = u BY <2>1 DEF Units
    <2>3. /\ u \in Nat /\ skipped \in Nat /\ next \in Int /\ sinceDue \in Int
      BY UnitsNat DEF TimerTypeOK
    <2>4. sinceDue # NoDue /\ tpc = "top" =>
            /\ next = (skipped + 1) * u - sinceDue
            /\ skipped > 0 => sinceDue - skipped * u >= PerMs
      BY DEF DueInStep
    <2> HIDE DEF u
    <2>5. (skipped + 1) * u \in Nat /\ skipped * u \in Nat BY <2>3, OneMoreRound
    <2>6. sinceDue # NoDue /\ tpc = "top" =>
            /\ next - 1 = (skipped + 1) * u - (sinceDue + 1)
            /\ skipped > 0 => (sinceDue + 1) - skipped * u >= PerMs
      BY <2>3, <2>4, <2>5
    <2>7. sinceDue # NoDue /\ tpc \in {"callback", "after"} => next - 1 = -(sinceDue + 1)
      BY <2>3 DEF DueInStep
    <2> QED BY <2>1, <2>2, <2>6, <2>7 DEF DueInStep
  <1>5. CASE UNCHANGED timerVars BY <1>5 DEF timerVars, DueInStep, Units
  <1> QED BY <1>1, <1>2, <1>3, <1>4, <1>5 DEF TimerNext

LEMMA TimerIInvStep == TimerIInv /\ [TimerNext]_timerVars => TimerIInv'
  BY TimerTypeStep, TokenStep, SleepsStep, DueStep DEF TimerIInv

LEMMA TimerIInvAlways == TimerSpec => []TimerIInv
  BY TimerInitIInv, TimerIInvStep, PTL DEF TimerSpec

-----------------------------------------------------------------------------
(* The results about Timer. *)

\* Every variable of the timer keeps its type, the bound on lateness holds, and no
\* callback is invoked a millisecond or more before it is due, though the time to sleep
\* is cut to whole milliseconds.
THEOREM TimerTypeCorrect == TimerSpec => []TimerTypeOK
  <1>1. TimerIInv => TimerTypeOK BY DEF TimerIInv
  <1> QED BY <1>1, TimerIInvAlways, PTL

\* run() never uses a deleted callback, and the _done that a stop() waits for is only
\* ever set by a thread that has ended, whatever calls overlap.
THEOREM CallbackStaysAlive == TimerSpec => []CallbackAlive
  <1>1. TimerIInv => CallbackAlive BY DEF TimerIInv, TimerTypeOK, OneToken, CallbackAlive
  <1> QED BY <1>1, TimerIInvAlways, PTL

\* When the thread goes to sleep, the invocations that getSkipped() counts are past by a
\* millisecond or more and the next one is not, for every interval, every resolution of
\* the clock, however late the callback was and returned, and however much time the
\* loop that skips them takes itself.
THEOREM SkippedIsWhatPassed == TimerSpec => SkipsWhatPassed
  <1>1. TimerIInv /\ [TimerNext]_timerVars =>
          [tpc = "top" /\ tpc' = "sleep" /\ sinceDue # NoDue =>
             /\ skipped > 0 => sinceDue - skipped * Units(interval) >= PerMs
             /\ sinceDue - (skipped + 1) * Units(interval) < PerMs]_timerVars
    <2> SUFFICES ASSUME TimerIInv, TimerNext, tpc = "top", tpc' = "sleep", sinceDue # NoDue
                 PROVE  /\ skipped > 0 => sinceDue - skipped * Units(interval) >= PerMs
                        /\ sinceDue - (skipped + 1) * Units(interval) < PerMs
      OBVIOUS
    <2>1. FallAsleep
      BY DEF TimerNext, Use, StopStep, TimerRun, TimerTick, start, StartFails, stop, restart,
         restartWith,
             setPeriodicInterval, StopWakes, StopWaits, StopEnds, Woken, TimesOut, Reread,
             Invoke, CallbackEnds, AfterCallback, NextRound, Exit, SkipMissed, thread
    <2> DEFINE u == Units(interval)
    <2>2. /\ next = (skipped + 1) * u - sinceDue
          /\ skipped > 0 => sinceDue - skipped * u >= PerMs
      BY DEF TimerIInv, DueInStep
    <2>3. interval > 0 BY DEF TimerIInv, DueInStep
    <2>4. next > -PerMs
      BY <2>1, <2>3, TimerAssumption DEF FallAsleep, Past, TimerIInv, TimerTypeOK
    <2>5. u \in Nat /\ next \in Int /\ sinceDue \in Int /\ skipped \in Nat
      BY UnitsNat DEF TimerIInv, TimerTypeOK
    <2> HIDE DEF u
    <2>6. (skipped + 1) * u \in Nat BY <2>5, OneMoreRound
    <2>7. sinceDue - (skipped + 1) * u < PerMs
      BY <2>2, <2>4, <2>5, <2>6, TimerAssumption
    <2> QED BY <2>2, <2>7 DEF u
  <1> QED BY <1>1, TimerIInvAlways, PTL DEF TimerSpec, SkipsWhatPassed


-----------------------------------------------------------------------------
(* Util::Timer: what the operations on the queue do to its content. *)

Notifications == Tasks \cup Cancels \cup {Stop}
Entries == [time : 0..Never, nf : Notifications]

\* An entry that is put in is all that is new.
LEMMA InsertContent ==
  ASSUME NEW S, NEW q \in Seq(S), NEW e \in S, NEW k \in 0..Len(q)
  PROVE  /\ TD!Insert(q, e, k) \in Seq(S)
         /\ Len(TD!Insert(q, e, k)) = Len(q) + 1
         /\ TD!Content(TD!Insert(q, e, k)) = TD!Content(q) \cup {e.nf}
         /\ \A i \in 1..Len(q) : \E j \in 1..(Len(q) + 1) : TD!Insert(q, e, k)[j] = q[i]
  <1> DEFINE a == SubSeq(q, 1, k)
             b == SubSeq(q, k + 1, Len(q))
             s == a \o <<e>> \o b
  <1>1. Len(q) \in Nat /\ k \in Nat /\ k <= Len(q) OBVIOUS
  <1>2. a \in Seq(S) /\ Len(a) = k /\ \A i \in 1..k : a[i] = q[i] BY <1>1
  <1>3. b \in Seq(S) /\ Len(b) = Len(q) - k /\ \A i \in 1..(Len(q) - k) : b[i] = q[k + i]
    BY <1>1
  <1> HIDE DEF a, b
  <1>4. s \in Seq(S) /\ Len(s) = Len(q) + 1
    <2>1. a \o <<e>> \in Seq(S) /\ Len(a \o <<e>>) = k + 1 BY <1>1, <1>2
    <2>2. s \in Seq(S) BY <2>1, <1>3
    <2>3. Len(s) = Len(a \o <<e>>) + Len(b) BY <2>1, <1>3, ConcatProperties
    <2>4. Len(b) = Len(q) - k BY <1>3
    <2> HIDE DEF s
    <2> QED BY <2>1, <2>2, <2>3, <2>4, <1>1
  <1>5. \A i \in 1..Len(s) : s[i] = IF i <= k THEN q[i] ELSE IF i = k + 1 THEN e ELSE q[i - 1]
    <2> SUFFICES ASSUME NEW i \in 1..Len(s)
                 PROVE  s[i] = IF i <= k THEN q[i] ELSE IF i = k + 1 THEN e ELSE q[i - 1]
      OBVIOUS
    <2>1. i \in 1..(Len(q) + 1) BY <1>4
    <2>2. CASE i <= k BY <2>1, <2>2, <1>1, <1>2, <1>3
    <2>3. CASE i = k + 1 BY <2>1, <2>3, <1>1, <1>2, <1>3
    <2>4. CASE i > k + 1
      <3>1. s[i] = b[i - (k + 1)] BY <2>1, <2>4, <1>1, <1>2, <1>3
      <3>2. i - (k + 1) \in 1..(Len(q) - k) BY <2>1, <2>4, <1>1
      <3>3. b[i - (k + 1)] = q[k + (i - (k + 1))] BY <3>2, <1>3
      <3>4. k + (i - (k + 1)) = i - 1 BY <2>1, <1>1
      <3> QED BY <3>1, <3>3, <3>4, <2>4, <2>1, <1>1
    <2> QED BY <2>1, <2>2, <2>3, <2>4, <1>1
  <1>6. TD!Insert(q, e, k) = s BY DEF TD!Insert, a, b
  <1> HIDE DEF s
  <1>7. ASSUME NEW i \in 1..Len(q) PROVE \E j \in 1..Len(s) : s[j] = q[i]
    <2>1. CASE i <= k
      <3>1. i \in 1..Len(s) BY <1>4, <1>1
      <3> QED BY <2>1, <3>1, <1>5
    <2>2. CASE i > k
      <3>1. i + 1 \in 1..Len(s) /\ ~(i + 1 <= k) /\ i + 1 # k + 1 /\ (i + 1) - 1 = i
        BY <1>4, <1>1, <2>2
      <3> QED BY <3>1, <1>5
    <2> QED BY <2>1, <2>2, <1>1
  <1>8. TD!Content(s) = TD!Content(q) \cup {e.nf}
    <2>1. ASSUME NEW i \in 1..Len(s) PROVE s[i].nf \in TD!Content(q) \cup {e.nf}
      <3>1. i \in 1..(Len(q) + 1) BY <1>4
      <3>2. CASE i <= k
        <4>1. i \in 1..Len(q) BY <3>1, <3>2, <1>1
        <4> QED BY <4>1, <3>2, <1>5 DEF TD!Content
      <3>3. CASE i = k + 1 BY <3>3, <3>1, <1>1, <1>5
      <3>4. CASE i > k + 1
        <4>1. i - 1 \in 1..Len(q) /\ ~(i <= k) /\ i # k + 1 BY <3>1, <3>4, <1>1
        <4>2. s[i] = q[i - 1] BY <4>1, <1>5
        <4> QED BY <4>1, <4>2 DEF TD!Content
      <3> QED BY <3>1, <3>2, <3>3, <3>4, <1>1
    <2>2. ASSUME NEW i \in 1..Len(q) PROVE q[i].nf \in TD!Content(s)
      BY <1>7 DEF TD!Content
    <2>3. e.nf \in TD!Content(s)
      <3>1. k + 1 \in 1..Len(s) /\ ~(k + 1 <= k) BY <1>1, <1>4
      <3>2. s[k + 1] = e BY <3>1, <1>5
      <3> QED BY <3>1, <3>2 DEF TD!Content
    <2> QED BY <2>1, <2>2, <2>3 DEF TD!Content
  <1> QED BY <1>4, <1>6, <1>7, <1>8

\* Taking out one entry takes away one notification at most.
LEMMA WithoutContent ==
  ASSUME NEW S, NEW q \in Seq(S), NEW k \in 1..Len(q)
  PROVE  /\ TD!Without(q, k) \in Seq(S)
         /\ Len(TD!Without(q, k)) = Len(q) - 1
         /\ TD!Content(TD!Without(q, k)) \subseteq TD!Content(q)
         /\ TD!Content(q) \subseteq TD!Content(TD!Without(q, k)) \cup {q[k].nf}
  <1> DEFINE a == SubSeq(q, 1, k - 1)
             b == SubSeq(q, k + 1, Len(q))
             s == a \o b
  <1>1. Len(q) \in Nat /\ k \in Nat /\ 1 <= k /\ k <= Len(q) OBVIOUS
  <1>2. a \in Seq(S) /\ Len(a) = k - 1 /\ \A i \in 1..(k - 1) : a[i] = q[i] BY <1>1
  <1>3. b \in Seq(S) /\ Len(b) = Len(q) - k /\ \A i \in 1..(Len(q) - k) : b[i] = q[k + i]
    BY <1>1
  <1> HIDE DEF a, b
  <1>4. s \in Seq(S) /\ Len(s) = Len(q) - 1
    <2>1. s \in Seq(S) BY <1>2, <1>3
    <2>2. Len(s) = Len(a) + Len(b) BY <1>2, <1>3, ConcatProperties
    <2>3. Len(a) = k - 1 /\ Len(b) = Len(q) - k BY <1>2, <1>3
    <2> HIDE DEF s
    <2> QED BY <2>1, <2>2, <2>3, <1>1
  <1>5. \A i \in 1..Len(s) : s[i] = IF i < k THEN q[i] ELSE q[i + 1]
    <2> SUFFICES ASSUME NEW i \in 1..Len(s) PROVE s[i] = IF i < k THEN q[i] ELSE q[i + 1]
      OBVIOUS
    <2>1. i \in 1..(Len(q) - 1) BY <1>4
    <2>2. CASE i < k BY <2>1, <2>2, <1>1, <1>2, <1>3
    <2>3. CASE ~(i < k)
      <3>1. s[i] = b[i - (k - 1)] BY <2>1, <2>3, <1>1, <1>2, <1>3
      <3>2. i - (k - 1) \in 1..(Len(q) - k) BY <2>1, <2>3, <1>1
      <3>3. b[i - (k - 1)] = q[k + (i - (k - 1))] BY <3>2, <1>3
      <3>4. k + (i - (k - 1)) = i + 1 BY <2>1, <1>1
      <3> QED BY <3>1, <3>3, <3>4, <2>3
    <2> QED BY <2>2, <2>3
  <1>6. TD!Without(q, k) = s BY DEF TD!Without, a, b
  <1> HIDE DEF s
  <1>7. ASSUME NEW i \in 1..Len(s) PROVE s[i].nf \in TD!Content(q)
    <2>1. i \in 1..Len(q) /\ i + 1 \in 1..Len(q) BY <1>1, <1>4
    <2> QED BY <2>1, <1>5 DEF TD!Content
  <1>8. ASSUME NEW i \in 1..Len(q) PROVE q[i].nf \in TD!Content(s) \cup {q[k].nf}
    <2>1. CASE i < k
      <3>1. i \in 1..Len(s) BY <2>1, <1>1, <1>4
      <3> QED BY <2>1, <3>1, <1>5 DEF TD!Content
    <2>2. CASE i > k
      <3>1. i - 1 \in 1..Len(s) /\ ~(i - 1 < k) /\ (i - 1) + 1 = i BY <2>2, <1>1, <1>4
      <3>2. s[i - 1] = q[i] BY <3>1, <1>5
      <3> QED BY <3>1, <3>2 DEF TD!Content
    <2> QED BY <2>1, <2>2, <1>1
  <1>9. TD!Content(s) \subseteq TD!Content(q) BY <1>7 DEF TD!Content
  <1>10. TD!Content(q) \subseteq TD!Content(s) \cup {q[k].nf} BY <1>8 DEF TD!Content
  <1> QED BY <1>4, <1>6, <1>9, <1>10

\* The first entry leaves.
LEMMA TailContent ==
  ASSUME NEW S, NEW q \in Seq(S), q # <<>>
  PROVE  /\ Tail(q) \in Seq(S)
         /\ Len(Tail(q)) = Len(q) - 1
         /\ q[1] \in S /\ q[1].nf \in TD!Content(q)
         /\ TD!Content(Tail(q)) \subseteq TD!Content(q)
         /\ TD!Content(q) \subseteq TD!Content(Tail(q)) \cup {q[1].nf}
  <1> DEFINE s == Tail(q)
  <1>1. Len(q) \in Nat /\ Len(q) >= 1 OBVIOUS
  <1>2. s \in Seq(S) /\ Len(s) = Len(q) - 1 /\ \A i \in 1..Len(s) : s[i] = q[i + 1] OBVIOUS
  <1> HIDE DEF s
  <1>3. 1 \in 1..Len(q) BY <1>1
  <1>4. ASSUME NEW i \in 1..Len(s) PROVE s[i].nf \in TD!Content(q)
    <2>1. i + 1 \in 1..Len(q) BY <1>1, <1>2
    <2> QED BY <2>1, <1>2 DEF TD!Content
  <1>5. ASSUME NEW i \in 1..Len(q) PROVE q[i].nf \in TD!Content(s) \cup {q[1].nf}
    <2>1. CASE i > 1
      <3>1. i - 1 \in 1..Len(s) /\ (i - 1) + 1 = i BY <2>1, <1>1, <1>2
      <3>2. s[i - 1] = q[i] BY <3>1, <1>2
      <3> QED BY <3>1, <3>2 DEF TD!Content
    <2> QED BY <2>1, <1>1
  <1>6. s = Tail(q) BY DEF s
  <1> QED BY <1>2, <1>3, <1>4, <1>5, <1>6 DEF TD!Content

\* There are not more notifications than entries.
LEMMA ContentCount ==
  ASSUME NEW S, NEW q \in Seq(S)
  PROVE  IsFiniteSet(TD!Content(q)) /\ Cardinality(TD!Content(q)) <= Len(q)
         /\ Cardinality(TD!Content(q)) \in Nat
  <1>1. Len(q) \in Nat OBVIOUS
  <1>2. 1 \in Int /\ Len(q) \in Int BY <1>1
  <1>3. IsFiniteSet(1..Len(q)) BY <1>2, FS_Interval
  <1>4. Cardinality(1..Len(q)) = IF 1 > Len(q) THEN 0 ELSE Len(q) - 1 + 1
    BY <1>2, FS_Interval
  <1>5. Cardinality(1..Len(q)) = Len(q) BY <1>1, <1>4
  <1> DEFINE f == [i \in 1..Len(q) |-> q[i].nf]
  <1>6. f \in [1..Len(q) -> TD!Content(q)] BY DEF TD!Content
  <1>7. \A n \in TD!Content(q) : \E i \in 1..Len(q) : f[i] = n BY DEF TD!Content
  <1> HIDE DEF f
  <1>8. f \in Surjection(1..Len(q), TD!Content(q)) BY <1>6, <1>7 DEF Surjection
  <1>9. IsFiniteSet(TD!Content(q)) /\ Cardinality(TD!Content(q)) <= Cardinality(1..Len(q))
    BY <1>3, <1>8, FS_Surjection
  <1>10. Cardinality(TD!Content(q)) \in Nat BY <1>9, FS_CardinalityType
  <1> QED BY <1>5, <1>9, <1>10

-----------------------------------------------------------------------------
(* The inductive invariant of Util::Timer. *)

\* The clock and the histories have their types.
HistoryType ==
  /\ now \in 0..MaxTime
  /\ before \in [Cancels -> SUBSET Tasks]
  /\ intruders \in Nat
  /\ runsAfter \in [Tasks -> Nat]
  /\ raced \subseteq isCancelled

\* What the thread executes, by where it is.
Executes ==
  /\ pc = "purge" => pNf \in Cancels
  /\ pc \in {"run", "running", "again"} => pNf \in Tasks

\* A cancel notification exists once cancel() has been called.
Called ==
  \A c \in Cancels : c \in TD!Content(queue) \/ pNf = c \/ c \in finished => cpc[c] # "new"

\* A task that a cancel notification has to remove is in the queue, or it repeats and
\* is being executed.
Tracked ==
  \A c \in Cancels : before[c] \subseteq Scheduled \cup {t \in Repeating : Executing(t)}

\* A stop notification that waits in the queue.
StopQueued == IF Stop \in TD!Content(queue) THEN 1 ELSE 0

\* While a purge counts down, what it will not remove has come in since it began, or is
\* a stop notification.
PurgeSuffices ==
  pc = "purge" => Len(queue) <= numberOfPendingTasks + intruders + StopQueued

\* A cancelled task that is about to run was cancelled after the look at the flag, and
\* has not run since.
RunsOnceMore ==
  /\ pc = "run" /\ pNf \in isCancelled => pNf \in raced /\ runsAfter[pNf] = 0
  /\ \A t \in Tasks : runsAfter[t] # 0 => t \in isCancelled

IInv ==
  /\ TypeOK /\ HistoryType /\ Executes /\ Called
  /\ Tracked /\ PurgeSuffices /\ PaidPurge
  /\ RunsOnceMore /\ CancelStopsTask

\* The notifications in the queue.
LEMMA ContentType ==
  ASSUME TypeOK
  PROVE  queue \in Seq(Entries) /\ TD!Content(queue) \subseteq Notifications
  <1>1. queue \in Seq(Entries) BY DEF TypeOK, Entries, Notifications
  <1>2. \A i \in 1..Len(queue) : queue[i] \in Entries BY <1>1
  <1>3. \A e \in Entries : e.nf \in Notifications BY DEF Entries
  <1> QED BY <1>1, <1>2, <1>3 DEF TD!Content

\* What enqueueNotification() does.
LEMMA EnqueueEffect ==
  ASSUME TypeOK, NEW n \in Notifications, NEW clock \in 0..Never, TD!Enqueue(n, clock)
  PROVE  /\ queue' \in Seq(Entries) /\ Len(queue') = Len(queue) + 1
         /\ TD!Content(queue') = TD!Content(queue) \cup {n}
         /\ n \notin TD!Content(queue)
         /\ \A i \in 1..Len(queue) : \E j \in 1..Len(queue') : queue'[j] = queue[i]
         /\ UNCHANGED <<now, candidate, delivered>>
  <1>1. queue \in Seq(Entries) BY ContentType
  <1>2. [time |-> clock, nf |-> n] \in Entries BY DEF Entries
  <1>3. PICK e \in Entries, k \in 0..Len(queue) : e.nf = n /\ queue' = TD!Insert(queue, e, k)
    BY <1>2 DEF TD!Enqueue
  <1>4. /\ TD!Insert(queue, e, k) \in Seq(Entries)
        /\ Len(TD!Insert(queue, e, k)) = Len(queue) + 1
        /\ TD!Content(TD!Insert(queue, e, k)) = TD!Content(queue) \cup {e.nf}
    BY <1>1, InsertContent
  <1>5. /\ queue' \in Seq(Entries) /\ Len(queue') = Len(queue) + 1
        /\ TD!Content(queue') = TD!Content(queue) \cup {n}
    BY <1>2, <1>3, <1>4
  <1>6. ASSUME NEW i \in 1..Len(queue) PROVE \E j \in 1..Len(queue') : queue'[j] = queue[i]
    <2>1. \E j \in 1..(Len(queue) + 1) : TD!Insert(queue, e, k)[j] = queue[i]
      BY <1>1, InsertContent
    <2> QED BY <2>1, <1>3, <1>5
  <1> QED BY <1>5, <1>6 DEF TD!Enqueue

\* What a wait does that returns a notification.
LEMMA DeliverEffect ==
  ASSUME TypeOK, TD!Deliver
  PROVE  /\ queue' \in Seq(Entries)
         /\ delivered' \in TD!Content(queue) /\ delivered' \in Notifications
         /\ TD!Content(queue') \subseteq TD!Content(queue)
         /\ TD!Content(queue) \subseteq TD!Content(queue') \cup {delivered'}
         /\ UNCHANGED now
  <1>1. queue \in Seq(Entries) /\ TD!Content(queue) \subseteq Notifications BY ContentType
  <1>2. PICK k \in 1..Len(queue) : queue[k] = candidate /\ queue' = TD!Without(queue, k)
    BY DEF TD!Deliver
  <1>3. delivered' = queue[k].nf BY <1>2 DEF TD!Deliver
  <1>4. delivered' \in TD!Content(queue) BY <1>3 DEF TD!Content
  <1>5. /\ queue' \in Seq(Entries)
        /\ TD!Content(queue') \subseteq TD!Content(queue)
        /\ TD!Content(queue) \subseteq TD!Content(queue') \cup {queue[k].nf}
    BY <1>1, <1>2, WithoutContent
  <1> QED BY <1>1, <1>3, <1>4, <1>5 DEF TD!Deliver

\* What dequeueNextNotification() does.
LEMMA TakeEffect ==
  ASSUME TypeOK, TD!TakeNext
  PROVE  /\ queue' \in Seq(Entries) /\ Len(queue') = Len(queue) - 1
         /\ queue[1].nf \in TD!Content(queue) /\ queue[1].nf \in Notifications
         /\ TD!Content(queue') \subseteq TD!Content(queue)
         /\ TD!Content(queue) \subseteq TD!Content(queue') \cup {queue[1].nf}
         /\ UNCHANGED now
  <1>1. queue \in Seq(Entries) /\ TD!Content(queue) \subseteq Notifications BY ContentType
  <1>2. queue # <<>> /\ queue' = Tail(queue) /\ UNCHANGED now BY DEF TD!TakeNext
  <1>3. /\ queue' \in Seq(Entries) /\ Len(queue') = Len(queue) - 1
        /\ queue[1].nf \in TD!Content(queue)
        /\ TD!Content(queue') \subseteq TD!Content(queue)
        /\ TD!Content(queue) \subseteq TD!Content(queue') \cup {queue[1].nf}
    BY <1>1, <1>2, TailContent
  <1> QED BY <1>1, <1>2, <1>3

LEMMA EmptyContent == TD!Content(<<>>) = {} /\ <<>> \in Seq(Entries)
  <1>1. Len(<<>>) = 0 OBVIOUS
  <1>2. 1..0 = {} OBVIOUS
  <1> QED BY <1>1, <1>2 DEF TD!Content

\* A repeated task is due at a time the queue can hold.
LEMMA NextTimeType ==
  ASSUME TypeOK, HistoryType, NEW t \in Repeating
  PROVE  NextTime(t) \in 0..Never
  <1>1. Interval \in Nat /\ MaxTime \in Nat BY ConstantsAssumption
  <1>2. now \in Nat BY <1>1 DEF HistoryType
  <1>3. \A x \in Nat : Later(x) \in 0..Never BY <1>1 DEF Later, Never
  <1>4. CASE t \in Periodic
    <2>1. now + Interval \in Nat BY <1>1, <1>2
    <2> QED BY <1>3, <1>4, <2>1 DEF NextTime
  <1>5. CASE t \notin Periodic
    <2>1. t \in FixedRate BY <1>5 DEF Repeating
    <2>2. nextExecution[t] \in 0..Never BY <2>1 DEF TypeOK
    <2>3. nextExecution[t] \in Nat BY <2>2, <1>1 DEF Never
    <2>4. nextExecution[t] + Interval \in Nat BY <2>3, <1>1
    <2>5. (IF nextExecution[t] + Interval < now THEN now ELSE nextExecution[t] + Interval) \in Nat
      BY <1>2, <2>4
    <2> QED BY <1>3, <1>5, <2>5 DEF NextTime
  <1> QED BY <1>4, <1>5

\* The times of tasks, and that of cancel and stop notifications.
LEMMA TimesType == Times \subseteq 0..Never /\ 0 \in 0..Never
  <1>1. Times \subseteq 0..MaxTime /\ MaxTime \in Nat BY ConstantsAssumption
  <1>2. 0..MaxTime \subseteq 0..Never /\ 0 \in 0..Never BY <1>1 DEF Never
  <1> QED BY <1>1, <1>2

\* The kinds of notifications are told apart.
LEMMA Kinds ==
  /\ \A t \in Tasks : t \notin Cancels /\ t # Stop /\ t # None /\ t \in Notifications
  /\ \A c \in Cancels : c \notin Tasks /\ c # Stop /\ c # None /\ c \in Notifications
  /\ Stop \notin Tasks /\ Stop \notin Cancels /\ Stop # None /\ Stop \in Notifications
  /\ Repeating \subseteq Tasks /\ OneShot \subseteq Tasks /\ FixedRate \subseteq Repeating
  /\ OneShot \cap Repeating = {} /\ Tasks = OneShot \cup Repeating
  BY ConstantsAssumption DEF Tasks, Repeating, Notifications

LEMMA InitIInv == Init => IInv
  <1> SUFFICES ASSUME Init PROVE IInv
    OBVIOUS
  <1> USE DEF Init
  <1>1. queue = <<>> /\ now = 0 /\ candidate = None /\ delivered = None BY DEF TD!Init
  <1>2. TD!Content(queue) = {} /\ queue \in Seq(Entries) BY <1>1, EmptyContent
  <1>3. MaxTime \in Nat /\ None \notin Cancels BY ConstantsAssumption
  <1>4. TypeOK
    <2>1. queue \in Seq([time : 0..Never, nf : Tasks \cup Cancels \cup {Stop}])
      BY <1>2 DEF Entries, Notifications
    <2>2. nextExecution \in [FixedRate -> 0..Never] BY TimesType
    <2> QED BY <2>1, <2>2 DEF TypeOK
  <1>5. now \in 0..MaxTime BY <1>1, <1>3
  <1>6. HistoryType BY <1>5 DEF HistoryType
  <1>7. Called BY <1>2, <1>3 DEF Called
  <1>8. Executes /\ Tracked /\ PurgeSuffices /\ PaidPurge
    BY DEF Executes, Tracked, PurgeSuffices, PaidPurge
  <1>9. RunsOnceMore /\ CancelStopsTask BY DEF RunsOnceMore, CancelStopsTask
  <1> QED BY <1>4, <1>6, <1>7, <1>8, <1>9 DEF IInv

-----------------------------------------------------------------------------
(* Every step preserves the invariant. *)

\* The steps that do not touch the queue.
LEMMA SameQueue ==
  ASSUME TypeOK, HistoryType, UNCHANGED nfq
  PROVE  queue' \in Seq(Entries) /\ now' \in 0..MaxTime
  BY ContentType DEF nfq, HistoryType

\* The queue keeps its type, and the clock.
LEMMA QueueStep ==
  ASSUME TypeOK, HistoryType, Executes, Next
  PROVE  queue' \in Seq(Entries) /\ now' \in 0..MaxTime
  <1>0. queue \in Seq(Entries) /\ now \in 0..MaxTime BY ContentType DEF HistoryType
  <1>1. ASSUME NEW t \in Tasks, NEW clock \in Times, schedule(t, clock)
        PROVE  queue' \in Seq(Entries) /\ now' \in 0..MaxTime
    <2>1. t \in Notifications /\ clock \in 0..Never BY Kinds, TimesType
    <2>2. TD!Enqueue(t, clock) BY <1>1 DEF schedule
    <2> QED BY <1>0, <2>1, <2>2, EnqueueEffect
  <1>2. ASSUME NEW c \in Cancels, NEW wait \in BOOLEAN, cancel(c, wait)
        PROVE  queue' \in Seq(Entries) /\ now' \in 0..MaxTime
    <2>1. c \in Notifications /\ 0 \in 0..Never BY Kinds, TimesType
    <2>2. TD!Enqueue(c, 0) BY <1>2 DEF cancel
    <2> QED BY <1>0, <2>1, <2>2, EnqueueEffect
  <1>3. CASE Destroy
    <2>1. Stop \in Notifications /\ 0 \in 0..Never BY Kinds, TimesType
    <2>2. TD!Enqueue(Stop, 0) BY <1>3 DEF Destroy
    <2> QED BY <1>0, <2>1, <2>2, EnqueueEffect
  <1>4. CASE Look BY <1>0, <1>4 DEF Look, TD!Look
  <1>5. CASE Fetch BY <1>0, <1>5, DeliverEffect DEF Fetch
  <1>6. CASE StopExecute BY <1>0, <1>6, EmptyContent DEF StopExecute, TD!Clear
  <1>7. CASE Purge
    <2>1. CASE TD!TakeNext BY <1>0, <2>1, TakeEffect
    <2>2. CASE queue' = <<>> /\ UNCHANGED now BY <1>0, <2>2, EmptyContent
    <2> QED BY <1>7, <2>1, <2>2 DEF Purge
  <1>8. CASE Again
    <2>1. CASE Reschedules(pNf) /\ TD!Enqueue(pNf, NextTime(pNf))
      <3>1. pNf \in Repeating BY <2>1 DEF Reschedules
      <3>2. pNf \in Notifications /\ NextTime(pNf) \in 0..Never BY <3>1, Kinds, NextTimeType
      <3> QED BY <1>0, <2>1, <3>2, EnqueueEffect
    <2>2. CASE UNCHANGED nfq BY <2>2, SameQueue
    <2> QED BY <1>8, <2>1, <2>2 DEF Again
  <1>9. CASE Tick
    <2>1. MaxTime \in Nat BY ConstantsAssumption
    <2>2. now < MaxTime /\ now' = now + 1 /\ queue' = queue BY <1>9 DEF Tick, TD!Tick
    <2> QED BY <1>0, <2>1, <2>2
  <1>10. CASE CancelExecute \/ PurgeEnds \/ CheckTask \/ RunTask \/ TaskReturns
              \/ (\E t \in Tasks : TaskCancel(t)) \/ (\E c \in Cancels : CancelReturns(c))
    <2>1. UNCHANGED nfq
      BY <1>10 DEF CancelExecute, PurgeEnds, CheckTask, RunTask, TaskReturns, TaskCancel,
                   CancelReturns
    <2> QED BY <2>1, SameQueue
  <1> QED BY <1>1, <1>2, <1>3, <1>4, <1>5, <1>6, <1>7, <1>8, <1>9, <1>10
          DEF Next, Run, Client

\* What the other actions do to the variables of TypeOK and HistoryType.
LEMMA TypeStep == TypeOK /\ HistoryType /\ Executes /\ [Next]_vars => TypeOK' /\ HistoryType'
  <1> SUFFICES ASSUME TypeOK, HistoryType, Executes, [Next]_vars
               PROVE  TypeOK' /\ HistoryType'
    OBVIOUS
  <1>1. CASE UNCHANGED vars
    BY <1>1 DEF vars, nfq, history, TypeOK, HistoryType
  <1>2. CASE Next
    <2>1. /\ queue' \in Seq([time : 0..Never, nf : Tasks \cup Cancels \cup {Stop}])
          /\ now' \in 0..MaxTime
      BY <1>2, QueueStep DEF Entries, Notifications
    <2>2. pc' \in {"wait", "fetched", "run", "running", "again", "purge", "exited"}
      BY <1>2 DEF TypeOK, Next, Run, Client, schedule, TaskCancel, cancel, CancelReturns,
           Destroy, Look, Fetch, StopExecute, CancelExecute, Purge, PurgeEnds, CheckTask,
           RunTask, TaskReturns, Again, Tick
    <2>3. pNf' \in Tasks \cup Cancels \cup {Stop, None}
      <3>1. CASE Fetch
        BY <3>1, DeliverEffect DEF Fetch, Notifications
      <3>2. CASE ~Fetch
        BY <1>2, <3>2 DEF TypeOK, Next, Run, Client, schedule, TaskCancel, cancel, CancelReturns,
           Destroy, Look, StopExecute, CancelExecute, Purge, PurgeEnds, CheckTask,
           RunTask, TaskReturns, Again, Tick
      <3> QED BY <3>1, <3>2
    <2>4. numberOfPendingTasks' \in Nat
      <3>1. CASE CancelExecute BY <3>1 DEF CancelExecute, TypeOK
      <3>2. CASE Purge BY <3>2 DEF Purge, TypeOK
      <3>3. CASE ~CancelExecute /\ ~Purge
        BY <1>2, <3>3 DEF TypeOK, Next, Run, Client, schedule, TaskCancel, cancel, CancelReturns,
           Destroy, Look, Fetch, StopExecute, PurgeEnds, CheckTask,
           RunTask, TaskReturns, Again, Tick
      <3> QED BY <3>1, <3>2, <3>3
    <2>5. finished' \subseteq Cancels
      <3>1. CASE Purge BY <3>1 DEF Purge, TypeOK, Executes
      <3>2. CASE PurgeEnds BY <3>2 DEF PurgeEnds, TypeOK, Executes
      <3>3. CASE ~PurgeEnds /\ ~Purge
        BY <1>2, <3>3 DEF TypeOK, Next, Run, Client, schedule, TaskCancel, cancel, CancelReturns,
           Destroy, Look, Fetch, StopExecute, CancelExecute, CheckTask,
           RunTask, TaskReturns, Again, Tick
      <3> QED BY <3>1, <3>2, <3>3
    <2>6. isCancelled' \subseteq Tasks /\ raced' \subseteq isCancelled'
      <3>1. ASSUME NEW t \in Tasks, TaskCancel(t)
            PROVE  isCancelled' \subseteq Tasks /\ raced' \subseteq isCancelled'
        BY <3>1 DEF TaskCancel, TypeOK, HistoryType
      <3>2. CASE UNCHANGED <<isCancelled, raced>> BY <3>2 DEF TypeOK, HistoryType
      <3>3. (\E t \in Tasks : TaskCancel(t)) \/ UNCHANGED <<isCancelled, raced>>
        BY <1>2 DEF Next, Run, Client, schedule, cancel, CancelReturns,
           Destroy, Look, Fetch, StopExecute, CancelExecute, Purge, PurgeEnds, CheckTask,
           RunTask, TaskReturns, Again, Tick, history
      <3> QED BY <3>1, <3>2, <3>3
    <2>7. nextExecution' \in [FixedRate -> 0..Never]
      <3>1. ASSUME NEW t \in Tasks, NEW clock \in Times, schedule(t, clock)
            PROVE  nextExecution' \in [FixedRate -> 0..Never]
        BY <3>1, TimesType DEF schedule, TypeOK
      <3>2. CASE Again
        <4>1. CASE pNf \in FixedRate
          <5>1. NextTime(pNf) \in 0..Never BY <4>1, Kinds, NextTimeType
          <5> QED BY <3>2, <4>1, <5>1 DEF Again, TypeOK
        <4>2. CASE pNf \notin FixedRate BY <3>2, <4>2 DEF Again, TypeOK
        <4> QED BY <4>1, <4>2
      <3>3. CASE UNCHANGED nextExecution BY <3>3 DEF TypeOK
      <3>4. (\E t \in Tasks, clock \in Times : schedule(t, clock)) \/ Again
            \/ UNCHANGED nextExecution
        BY <1>2 DEF Next, Run, Client, TaskCancel, cancel, CancelReturns,
           Destroy, Look, Fetch, StopExecute, CancelExecute, Purge, PurgeEnds, CheckTask,
           RunTask, TaskReturns, Tick
      <3> QED BY <3>1, <3>2, <3>3, <3>4
    <2>8. cpc' \in [Cancels -> {"new", "waiting", "returned", "left"}]
      <3>1. ASSUME NEW c \in Cancels, NEW wait \in BOOLEAN, cancel(c, wait)
            PROVE  cpc' \in [Cancels -> {"new", "waiting", "returned", "left"}]
        BY <3>1 DEF cancel, TypeOK
      <3>2. ASSUME NEW c \in Cancels, CancelReturns(c)
            PROVE  cpc' \in [Cancels -> {"new", "waiting", "returned", "left"}]
        BY <3>2 DEF CancelReturns, TypeOK
      <3>3. CASE UNCHANGED cpc BY <3>3 DEF TypeOK
      <3>4. (\E c \in Cancels, wait \in BOOLEAN : cancel(c, wait))
            \/ (\E c \in Cancels : CancelReturns(c)) \/ UNCHANGED cpc
        BY <1>2 DEF Next, Run, Client, TaskCancel, schedule,
           Destroy, Look, Fetch, StopExecute, CancelExecute, Purge, PurgeEnds, CheckTask,
           RunTask, TaskReturns, Again, Tick
      <3> QED BY <3>1, <3>2, <3>3, <3>4
    <2>9. destroyed' \in BOOLEAN
      BY <1>2 DEF TypeOK, Next, Run, Client, schedule, TaskCancel, cancel, CancelReturns,
           Destroy, Look, Fetch, StopExecute, CancelExecute, Purge, PurgeEnds, CheckTask,
           RunTask, TaskReturns, Again, Tick
    <2>10. before' \in [Cancels -> SUBSET Tasks]
      <3>1. ASSUME NEW c \in Cancels, NEW wait \in BOOLEAN, cancel(c, wait)
            PROVE  before' \in [Cancels -> SUBSET Tasks]
        <4>1. Scheduled \cup {t \in Repeating : Executing(t)} \subseteq Tasks
          BY Kinds DEF Scheduled
        <4> QED BY <3>1, <4>1 DEF cancel, HistoryType
      <3>2. ASSUME NEW S, Gone(S) PROVE before' \in [Cancels -> SUBSET Tasks]
        BY <3>2 DEF Gone, HistoryType
      <3>3. CASE UNCHANGED before BY <3>3 DEF HistoryType
      <3>4. (\E c \in Cancels, wait \in BOOLEAN : cancel(c, wait)) \/ Fetch \/ StopExecute
            \/ Purge \/ Again \/ UNCHANGED before
        BY <1>2 DEF Next, Run, Client, TaskCancel, schedule, CancelReturns,
           Destroy, Look, CancelExecute, PurgeEnds, CheckTask,
           RunTask, TaskReturns, Tick, history
      <3>5. CASE Fetch \/ StopExecute BY <3>5, <3>2 DEF Fetch, StopExecute
      <3>6. CASE Purge BY <3>6, <3>2 DEF Purge
      <3>7. CASE Again BY <3>7, <3>2, <3>3 DEF Again
      <3> QED BY <3>1, <3>3, <3>4, <3>5, <3>6, <3>7
    <2>11. intruders' \in Nat
      <3>1. CASE CountIntruder BY <3>1 DEF CountIntruder, HistoryType
      <3>2. CASE CancelExecute BY <3>2 DEF CancelExecute
      <3>3. CASE UNCHANGED intruders BY <3>3 DEF HistoryType
      <3>4. CountIntruder \/ CancelExecute \/ UNCHANGED intruders
        BY <1>2 DEF Next, Run, Client, schedule, TaskCancel, cancel, CancelReturns,
           Destroy, Look, Fetch, StopExecute, Purge, PurgeEnds, CheckTask,
           RunTask, TaskReturns, Again, Tick, history
      <3> QED BY <3>1, <3>2, <3>3, <3>4
    <2>12. runsAfter' \in [Tasks -> Nat]
      <3>1. CASE RunTask
        <4>1. pNf \in Tasks /\ runsAfter[pNf] \in Nat BY <3>1 DEF RunTask, Executes, HistoryType
        <4> QED BY <3>1, <4>1 DEF RunTask, HistoryType
      <3>2. CASE ~RunTask
        BY <1>2, <3>2 DEF HistoryType, Next, Run, Client, schedule, TaskCancel, cancel,
           CancelReturns, Destroy, Look, Fetch, StopExecute, CancelExecute, Purge, PurgeEnds,
           CheckTask, TaskReturns, Again, Tick, history
      <3> QED BY <3>1, <3>2
    <2> QED BY <2>1, <2>2, <2>3, <2>4, <2>5, <2>6, <2>7, <2>8, <2>9, <2>10, <2>11, <2>12
            DEF TypeOK, HistoryType
  <1> QED BY <1>1, <1>2

LEMMA ExecutesStep == Executes /\ [Next]_vars => Executes'
  <1> SUFFICES ASSUME Executes, [Next]_vars PROVE Executes'
    OBVIOUS
  <1>1. CASE Fetch BY <1>1 DEF Fetch, Executes
  <1>2. CASE ~Fetch
    BY <1>2 DEF Executes, Next, Run, Client, schedule, TaskCancel, cancel, CancelReturns,
       Destroy, Look, StopExecute, CancelExecute, Purge, PurgeEnds, CheckTask, RunTask,
       TaskReturns, Again, Tick, vars
  <1> QED BY <1>1, <1>2

\* The callers of cancel(): none of them goes back to where it has not called it yet.
LEMMA CallersStep ==
  ASSUME TypeOK, [Next]_vars, NEW c \in Cancels, cpc[c] # "new"
  PROVE  cpc'[c] # "new"
  <1>1. ASSUME NEW b \in Cancels, NEW wait \in BOOLEAN, cancel(b, wait) PROVE cpc'[c] # "new"
    BY <1>1 DEF cancel, TypeOK
  <1>2. ASSUME NEW b \in Cancels, CancelReturns(b) PROVE cpc'[c] # "new"
    BY <1>2 DEF CancelReturns, TypeOK
  <1>3. (\E b \in Cancels, wait \in BOOLEAN : cancel(b, wait))
        \/ (\E b \in Cancels : CancelReturns(b)) \/ UNCHANGED cpc
    BY DEF Next, Run, Client, TaskCancel, schedule, Destroy, Look, Fetch, StopExecute,
       CancelExecute, Purge, PurgeEnds, CheckTask, RunTask, TaskReturns, Again, Tick, vars
  <1> QED BY <1>1, <1>2, <1>3

LEMMA CalledStep == TypeOK /\ HistoryType /\ Executes /\ Called /\ [Next]_vars => Called'
  <1> SUFFICES ASSUME TypeOK, HistoryType, Executes, Called, [Next]_vars,
                      NEW c \in Cancels,
                      c \in TD!Content(queue)' \/ pNf' = c \/ c \in finished'
               PROVE  cpc'[c] # "new"
    BY DEF Called, TD!Content
  <1>0. CASE c \in TD!Content(queue) \/ pNf = c \/ c \in finished
    BY <1>0, CallersStep DEF Called
  <1>1. ASSUME NEW t \in Tasks, NEW clock \in Times, schedule(t, clock) PROVE cpc'[c] # "new"
    <2>1. t \in Notifications /\ clock \in 0..Never /\ t # c BY Kinds, TimesType
    <2>2. TD!Content(queue') = TD!Content(queue) \cup {t}
      BY <1>1, <2>1, EnqueueEffect DEF schedule
    <2> QED BY <1>0, <1>1, <2>1, <2>2 DEF schedule, TD!Content
  <1>2. ASSUME NEW b \in Cancels, NEW wait \in BOOLEAN, cancel(b, wait) PROVE cpc'[c] # "new"
    <2>1. b \in Notifications /\ 0 \in 0..Never BY Kinds, TimesType
    <2>2. TD!Content(queue') = TD!Content(queue) \cup {b}
      BY <1>2, <2>1, EnqueueEffect DEF cancel
    <2>3. CASE b = c BY <1>2, <2>3 DEF cancel, TypeOK
    <2>4. CASE b # c BY <1>0, <1>2, <2>2, <2>4 DEF cancel, TD!Content
    <2> QED BY <2>3, <2>4
  <1>3. CASE Destroy
    <2>1. Stop \in Notifications /\ 0 \in 0..Never /\ Stop # c BY Kinds, TimesType
    <2>2. TD!Content(queue') = TD!Content(queue) \cup {Stop}
      BY <1>3, <2>1, EnqueueEffect DEF Destroy
    <2> QED BY <1>0, <1>3, <2>1, <2>2 DEF Destroy, TD!Content
  <1>4. CASE Fetch
    <2>1. delivered' \in TD!Content(queue) /\ TD!Content(queue') \subseteq TD!Content(queue)
      BY <1>4, DeliverEffect DEF Fetch
    <2> QED BY <1>0, <1>4, <2>1 DEF Fetch, TD!Content
  <1>5. CASE StopExecute
    <2>1. TD!Content(queue') = {} BY <1>5, EmptyContent DEF StopExecute, TD!Clear
    <2> QED BY <1>0, <1>5, <2>1 DEF StopExecute, TD!Content
  <1>6. CASE Purge
    <2>1. CASE TD!TakeNext /\ finished' = finished \cup ({queue[1].nf} \cap Cancels)
      <3>1. queue[1].nf \in TD!Content(queue) /\ TD!Content(queue') \subseteq TD!Content(queue)
        BY <2>1, TakeEffect
      <3> QED BY <1>0, <1>6, <2>1, <3>1 DEF Purge, TD!Content
    <2>2. CASE queue' = <<>> /\ finished' = finished \cup {pNf}
      <3>1. TD!Content(queue') = {} BY <2>2, EmptyContent
      <3> QED BY <1>0, <1>6, <2>2, <3>1 DEF Purge, TD!Content
    <2> QED BY <1>6, <2>1, <2>2 DEF Purge
  <1>7. CASE PurgeEnds BY <1>0, <1>7 DEF PurgeEnds, nfq, TD!Content
  <1>8. CASE Again
    <2>1. CASE Reschedules(pNf) /\ TD!Enqueue(pNf, NextTime(pNf))
      <3>1. pNf \in Repeating BY <2>1 DEF Reschedules
      <3>2. pNf \in Notifications /\ NextTime(pNf) \in 0..Never BY <3>1, Kinds, NextTimeType
      <3>3. TD!Content(queue') = TD!Content(queue) \cup {pNf} BY <2>1, <3>2, EnqueueEffect
      <3> QED BY <1>0, <1>8, <3>3 DEF Again, TD!Content
    <2>2. CASE UNCHANGED nfq BY <1>0, <1>8, <2>2 DEF Again, nfq, TD!Content
    <2> QED BY <1>8, <2>1, <2>2 DEF Again
  <1>9. CASE UNCHANGED <<queue, pNf, finished>> BY <1>0, <1>9 DEF TD!Content
  <1>10. Look \/ CancelExecute \/ CheckTask \/ RunTask \/ TaskReturns \/ Tick
         \/ (\E t \in Tasks : TaskCancel(t)) \/ (\E b \in Cancels : CancelReturns(b))
         \/ UNCHANGED vars => UNCHANGED <<queue, pNf, finished>>
    BY DEF Look, TD!Look, CancelExecute, CheckTask, RunTask, TaskReturns, Tick, TD!Tick,
           TaskCancel, CancelReturns, vars, nfq
  <1> QED BY <1>1, <1>2, <1>3, <1>4, <1>5, <1>6, <1>7, <1>8, <1>9, <1>10 DEF Next, Run, Client

LEMMA TrackedStep == TypeOK /\ HistoryType /\ Executes /\ Tracked /\ [Next]_vars => Tracked'
  <1> SUFFICES ASSUME TypeOK, HistoryType, Executes, Tracked, [Next]_vars,
                      NEW c \in Cancels, NEW t \in before'[c]
               PROVE  \/ t \in TD!Content(queue') /\ t \in Tasks
                      \/ t \in Repeating /\ Executing(t)'
    BY DEF Tracked, Scheduled, TD!Content
  <1> DEFINE Here == \/ t \in TD!Content(queue') /\ t \in Tasks
                     \/ t \in Repeating /\ Executing(t)'
  <1>0. ASSUME t \in before[c]
        PROVE  (t \in TD!Content(queue) /\ t \in Tasks) \/ (t \in Repeating /\ Executing(t))
    BY <1>0 DEF Tracked, Scheduled
  <1>a. CASE t \in before[c] /\ TD!Content(queue) \subseteq TD!Content(queue')
             /\ UNCHANGED <<pc, pNf>>
    BY <1>0, <1>a DEF Executing
  <1>b. ASSUME NEW S, Gone(S) PROVE t \in before[c] /\ t \notin S
    BY <1>b DEF Gone
  <1>1. ASSUME NEW u \in Tasks, NEW clock \in Times, schedule(u, clock) PROVE Here
    <2>1. u \in Notifications /\ clock \in 0..Never BY Kinds, TimesType
    <2>2. TD!Content(queue') = TD!Content(queue) \cup {u}
      BY <1>1, <2>1, EnqueueEffect DEF schedule
    <2> QED BY <1>a, <1>1, <2>2 DEF schedule
  <1>2. ASSUME NEW b \in Cancels, NEW wait \in BOOLEAN, cancel(b, wait) PROVE Here
    <2>1. b \in Notifications /\ 0 \in 0..Never BY Kinds, TimesType
    <2>2. TD!Content(queue') = TD!Content(queue) \cup {b}
      BY <1>2, <2>1, EnqueueEffect DEF cancel
    <2>3. UNCHANGED <<pc, pNf>> BY <1>2 DEF cancel
    <2>4. CASE b = c
      <3>1. before'[c] = Scheduled \cup {u \in Repeating : Executing(u)}
        BY <1>2, <2>4 DEF cancel, HistoryType
      <3> QED BY <2>2, <2>3, <3>1 DEF Scheduled, Executing
    <2>5. CASE b # c
      <3>1. t \in before[c] BY <1>2, <2>5 DEF cancel, HistoryType
      <3> QED BY <1>a, <2>2, <2>3, <3>1
    <2> QED BY <2>4, <2>5
  <1>3. CASE Destroy
    <2>1. Stop \in Notifications /\ 0 \in 0..Never BY Kinds, TimesType
    <2>2. TD!Content(queue') = TD!Content(queue) \cup {Stop}
      BY <1>3, <2>1, EnqueueEffect DEF Destroy
    <2> QED BY <1>a, <1>3, <2>2 DEF Destroy, history
  <1>4. CASE Fetch
    <2>1. TD!Content(queue) \subseteq TD!Content(queue') \cup {delivered'}
      BY <1>4, DeliverEffect DEF Fetch
    <2>2. t \in before[c] /\ t \notin {delivered'} \cap OneShot BY <1>4, <1>b DEF Fetch
    <2>3. ~Executing(t) BY <1>4 DEF Fetch, Executing
    <2>4. t \in TD!Content(queue) /\ t \in Tasks BY <1>0, <2>2, <2>3
    <2>5. CASE t = delivered'
      <3>1. t \in Repeating BY <2>2, <2>4, <2>5, Kinds
      <3>2. Executing(t)' BY <1>4, <2>5 DEF Fetch, Executing
      <3> QED BY <3>1, <3>2
    <2>6. CASE t # delivered' BY <2>1, <2>4, <2>6
    <2> QED BY <2>5, <2>6
  <1>5. CASE StopExecute
    <2>1. t \in before[c] /\ t \notin Tasks BY <1>5, <1>b DEF StopExecute
    <2> QED BY <2>1, <1>0, Kinds
  <1>6. CASE Purge
    <2>1. ~Executing(t) BY <1>6 DEF Purge, Executing
    <2>2. CASE TD!TakeNext /\ Gone({queue[1].nf})
      <3>1. TD!Content(queue) \subseteq TD!Content(queue') \cup {queue[1].nf}
        BY <2>2, TakeEffect
      <3>2. t \in before[c] /\ t # queue[1].nf BY <2>2, <1>b
      <3> QED BY <1>0, <2>1, <3>1, <3>2
    <2>3. CASE Gone(Tasks)
      <3>1. t \in before[c] /\ t \notin Tasks BY <2>3, <1>b
      <3> QED BY <3>1, <1>0, Kinds
    <2> QED BY <1>6, <2>2, <2>3 DEF Purge
  <1>7. CASE Again
    <2>1. CASE Reschedules(pNf) /\ TD!Enqueue(pNf, NextTime(pNf)) /\ UNCHANGED before
      <3>1. pNf \in Repeating BY <2>1 DEF Reschedules
      <3>2. pNf \in Notifications /\ NextTime(pNf) \in 0..Never BY <3>1, Kinds, NextTimeType
      <3>3. TD!Content(queue') = TD!Content(queue) \cup {pNf} BY <2>1, <3>2, EnqueueEffect
      <3>4. t \in before[c] BY <2>1
      <3>5. t \in Tasks BY <1>0, <3>4, Kinds
      <3> QED BY <1>0, <3>3, <3>4, <3>5 DEF Executing
    <2>2. CASE UNCHANGED nfq /\ Gone({pNf} \cap Repeating)
      <3>1. t \in before[c] /\ t \notin {pNf} \cap Repeating BY <2>2, <1>b
      <3>2. t \in TD!Content(queue) /\ t \in Tasks BY <1>0, <3>1 DEF Executing
      <3> QED BY <2>2, <3>2 DEF nfq
    <2> QED BY <1>7, <2>1, <2>2 DEF Again
  <1>8. CASE CancelExecute
    <2>1. queue' = queue /\ before' = before /\ pNf \in Cancels BY <1>8 DEF CancelExecute, nfq
    <2>2. t \notin Repeating \/ ~Executing(t) BY <2>1, Kinds DEF Executing
    <2> QED BY <1>0, <2>1, <2>2
  <1>9. CASE CheckTask \/ RunTask \/ TaskReturns
    <2>1. /\ queue' = queue /\ before' = before /\ pNf' = pNf
          /\ pc' \in {"fetched", "run", "running", "again"}
      BY <1>9 DEF CheckTask, RunTask, TaskReturns, nfq, history
    <2> QED BY <1>0, <2>1 DEF Executing
  <1>10. CASE PurgeEnds
    <2>1. queue' = queue /\ before' = before /\ ~Executing(t)
      BY <1>10 DEF PurgeEnds, nfq, history, Executing
    <2> QED BY <1>0, <2>1
  <1>11. CASE UNCHANGED <<queue, before, pc, pNf>> BY <1>a, <1>11
  <1>12. Look \/ Tick \/ (\E u \in Tasks : TaskCancel(u)) \/ (\E b \in Cancels : CancelReturns(b))
         \/ UNCHANGED vars => UNCHANGED <<queue, before, pc, pNf>>
    BY DEF Look, TD!Look, Tick, TD!Tick, TaskCancel, CancelReturns, vars, nfq, history
  <1> QED BY <1>1, <1>2, <1>3, <1>4, <1>5, <1>6, <1>7, <1>8, <1>9, <1>10, <1>11, <1>12
          DEF Next, Run, Client

\* The tasks a cancel notification has to remove can be counted.
LEMMA BeforeFinite ==
  ASSUME TypeOK, Tracked, NEW c \in Cancels
  PROVE  IsFiniteSet(before[c]) /\ Cardinality(before[c]) \in Nat
  <1>1. IsFiniteSet(TD!Content(queue)) BY ContentType, ContentCount
  <1>2. IsFiniteSet(TD!Content(queue) \cup {pNf}) BY <1>1, FS_AddElement
  <1>3. before[c] \subseteq TD!Content(queue) \cup {pNf}
    BY DEF Tracked, Scheduled, Executing
  <1>4. IsFiniteSet(before[c]) BY <1>2, <1>3, FS_Subset
  <1> QED BY <1>4, FS_CardinalityType

\* The scheduled tasks are fewer than the entries, by one if a stop notification waits.
LEMMA ScheduledCount ==
  ASSUME TypeOK
  PROVE  /\ IsFiniteSet(Scheduled) /\ Cardinality(Scheduled) \in Nat
         /\ Cardinality(Scheduled) + StopQueued <= Len(queue)
  <1> DEFINE C == TD!Content(queue)
  <1>1. IsFiniteSet(C) /\ Cardinality(C) <= Len(queue) /\ Cardinality(C) \in Nat
    BY ContentType, ContentCount
  <1>2. Len(queue) \in Nat BY DEF TypeOK
  <1>3. Scheduled \subseteq C \ {Stop} BY Kinds DEF Scheduled
  <1>4. /\ IsFiniteSet(C \ {Stop})
        /\ Cardinality(C \ {Stop}) = IF Stop \in C THEN Cardinality(C) - 1 ELSE Cardinality(C)
    BY <1>1, FS_RemoveElement
  <1>5. IsFiniteSet(Scheduled) /\ Cardinality(Scheduled) <= Cardinality(C \ {Stop})
    BY <1>3, <1>4, FS_Subset
  <1>6. Cardinality(Scheduled) \in Nat BY <1>5, FS_CardinalityType
  <1>7. StopQueued = IF Stop \in C THEN 1 ELSE 0 BY DEF StopQueued
  <1> HIDE DEF C
  <1> QED BY <1>1, <1>2, <1>4, <1>5, <1>6, <1>7

LEMMA PurgeStep ==
  TypeOK /\ HistoryType /\ Executes /\ PurgeSuffices /\ [Next]_vars => PurgeSuffices'
  <1> SUFFICES ASSUME TypeOK, HistoryType, Executes, PurgeSuffices, [Next]_vars,
                      pc' = "purge"
               PROVE  (Len(queue) <= numberOfPendingTasks + intruders + StopQueued)'
    BY DEF PurgeSuffices
  <1> DEFINE q == IF Stop \in TD!Content(queue') THEN 1 ELSE 0
             Enough == Len(queue') <= numberOfPendingTasks' + intruders' + q
  <1>0. SUFFICES Enough BY DEF StopQueued, TD!Content
  <1>1. Len(queue) \in Nat /\ numberOfPendingTasks \in Nat /\ intruders \in Nat
    BY DEF TypeOK, HistoryType
  <1>2. StopQueued \in {0, 1} /\ (StopQueued = 1 <=> Stop \in TD!Content(queue)) BY DEF StopQueued
  <1>3. q \in {0, 1} /\ (q = 1 <=> Stop \in TD!Content(queue')) OBVIOUS
  <1>4. pc = "purge" => Len(queue) <= numberOfPendingTasks + intruders + StopQueued
    BY DEF PurgeSuffices
  <1> HIDE DEF q
  <1>5. ASSUME NEW u \in Tasks, NEW clock \in Times, schedule(u, clock) PROVE Enough
    <2>1. u \in Notifications /\ clock \in 0..Never /\ u # Stop BY Kinds, TimesType
    <2>2. TD!Content(queue') = TD!Content(queue) \cup {u} /\ Len(queue') = Len(queue) + 1
      BY <1>5, <2>1, EnqueueEffect DEF schedule
    <2>3. pc = "purge" /\ numberOfPendingTasks' = numberOfPendingTasks
          /\ intruders' = intruders + 1
      BY <1>5 DEF schedule, CountIntruder
    <2>4. q = StopQueued BY <1>2, <1>3, <2>1, <2>2
    <2> QED BY <1>1, <1>2, <1>4, <2>2, <2>3, <2>4
  <1>6. ASSUME NEW b \in Cancels, NEW wait \in BOOLEAN, cancel(b, wait) PROVE Enough
    <2>1. b \in Notifications /\ 0 \in 0..Never /\ b # Stop BY Kinds, TimesType
    <2>2. TD!Content(queue') = TD!Content(queue) \cup {b} /\ Len(queue') = Len(queue) + 1
      BY <1>6, <2>1, EnqueueEffect DEF cancel
    <2>3. pc = "purge" /\ numberOfPendingTasks' = numberOfPendingTasks
          /\ intruders' = intruders + 1
      BY <1>6 DEF cancel, CountIntruder
    <2>4. q = StopQueued BY <1>2, <1>3, <2>1, <2>2
    <2> QED BY <1>1, <1>2, <1>4, <2>2, <2>3, <2>4
  <1>7. CASE Destroy
    <2>1. Stop \in Notifications /\ 0 \in 0..Never BY Kinds, TimesType
    <2>2. /\ TD!Content(queue') = TD!Content(queue) \cup {Stop} /\ Len(queue') = Len(queue) + 1
          /\ Stop \notin TD!Content(queue)
      BY <1>7, <2>1, EnqueueEffect DEF Destroy
    <2>3. pc = "purge" /\ numberOfPendingTasks' = numberOfPendingTasks /\ intruders' = intruders
      BY <1>7 DEF Destroy, history
    <2>4. q = 1 /\ StopQueued = 0 BY <1>2, <1>3, <2>2
    <2> QED BY <1>1, <1>4, <2>2, <2>3, <2>4
  <1>8. CASE CancelExecute
    <2>1. queue' = queue /\ numberOfPendingTasks' = Len(queue) /\ intruders' = 0
      BY <1>8 DEF CancelExecute, nfq
    <2> QED BY <1>1, <1>3, <2>1
  <1>9. CASE Purge
    <2>1. /\ pc = "purge" /\ numberOfPendingTasks' = numberOfPendingTasks - 1
          /\ TD!TakeNext /\ queue[1].nf # Stop /\ intruders' = intruders
      BY <1>9 DEF Purge
    <2>2. /\ TD!Content(queue') \subseteq TD!Content(queue) /\ Len(queue') = Len(queue) - 1
          /\ TD!Content(queue) \subseteq TD!Content(queue') \cup {queue[1].nf}
      BY <2>1, TakeEffect
    <2>3. q = StopQueued BY <1>2, <1>3, <2>1, <2>2
    <2> QED BY <1>1, <1>2, <1>4, <2>1, <2>2, <2>3
  <1>10. CASE UNCHANGED <<queue, pc, numberOfPendingTasks, intruders>>
    <2>1. q = StopQueued BY <1>2, <1>3, <1>10
    <2> QED BY <1>4, <1>10, <2>1
  <1>11. \/ Look \/ Tick \/ UNCHANGED vars
         \/ \E u \in Tasks : TaskCancel(u)
         \/ \E b \in Cancels : CancelReturns(b)
         => UNCHANGED <<queue, pc, numberOfPendingTasks, intruders>>
    BY DEF Look, TD!Look, Tick, TD!Tick, TaskCancel, CancelReturns, vars, nfq, history
  <1>12. ~(Fetch \/ StopExecute \/ PurgeEnds \/ CheckTask \/ RunTask \/ TaskReturns \/ Again)
    BY DEF Fetch, StopExecute, PurgeEnds, CheckTask, RunTask, TaskReturns, Again
  <1> QED BY <1>5, <1>6, <1>7, <1>8, <1>9, <1>10, <1>11, <1>12 DEF Next, Run, Client

\* A purge that has ended has removed enough.
LEMMA PaidStep == IInv /\ [Next]_vars => PaidPurge'
  <1> SUFFICES ASSUME IInv, [Next]_vars, NEW c \in finished', pc' # "purge"
               PROVE  Cardinality(before'[c]) <= intruders'
    BY DEF PaidPurge
  <1>0. TypeOK /\ HistoryType /\ Executes /\ Called /\ Tracked /\ PurgeSuffices /\ PaidPurge
    BY DEF IInv
  <1>1. c \in Cancels BY <1>0, TypeStep DEF TypeOK
  <1>2. intruders \in Nat /\ before \in [Cancels -> SUBSET Tasks] BY <1>0 DEF HistoryType
  <1>3. IsFiniteSet(before[c]) /\ Cardinality(before[c]) \in Nat BY <1>0, <1>1, BeforeFinite
  <1>4. ASSUME before'[c] \subseteq before[c]
        PROVE  /\ Cardinality(before'[c]) <= Cardinality(before[c])
               /\ Cardinality(before'[c]) \in Nat
    <2>1. IsFiniteSet(before'[c]) /\ Cardinality(before'[c]) <= Cardinality(before[c])
      BY <1>3, <1>4, FS_Subset
    <2> QED BY <2>1, FS_CardinalityType
  <1>5. CASE pc = "purge"
    <2>1. Purge \/ PurgeEnds
      BY <1>5 DEF Next, Run, Client, schedule, TaskCancel, cancel, CancelReturns, Destroy, Look,
         Fetch, StopExecute, CancelExecute, CheckTask, RunTask, TaskReturns, Again, Tick, vars
    <2>2. CASE Purge
      <3>1. Gone(Tasks) /\ intruders' = intruders BY <1>5, <2>2 DEF Purge
      <3>2. before'[c] = {} BY <1>1, <1>2, <3>1 DEF Gone
      <3>3. Cardinality({}) = 0 BY FS_EmptySet
      <3> QED BY <1>2, <3>1, <3>2, <3>3
    <2>3. CASE PurgeEnds
      <3>1. numberOfPendingTasks = 0 /\ intruders' = intruders /\ before' = before
        BY <2>3 DEF PurgeEnds, history
      <3>2. Len(queue) <= intruders + StopQueued /\ Len(queue) \in Nat
        BY <1>0, <1>2, <1>5, <3>1 DEF PurgeSuffices, TypeOK, StopQueued
      <3>3. /\ IsFiniteSet(Scheduled) /\ Cardinality(Scheduled) \in Nat
            /\ Cardinality(Scheduled) + StopQueued <= Len(queue)
        BY <1>0, ScheduledCount
      <3>4. before[c] \subseteq Scheduled BY <1>0, <1>1, <1>5 DEF Tracked, Executing
      <3>5. Cardinality(before[c]) <= Cardinality(Scheduled) BY <3>3, <3>4, FS_Subset
      <3>6. StopQueued \in {0, 1} BY DEF StopQueued
      <3> QED BY <1>2, <1>3, <3>1, <3>2, <3>3, <3>5, <3>6
    <2> QED BY <2>1, <2>2, <2>3
  <1>6. CASE pc # "purge"
    <2>1. finished' = finished /\ intruders' = intruders
      BY <1>6 DEF Next, Run, Client, schedule, TaskCancel, cancel, CancelReturns, Destroy, Look,
         Fetch, StopExecute, CancelExecute, Purge, PurgeEnds, CheckTask, RunTask, TaskReturns,
         Again, Tick, vars, history, CountIntruder
    <2>2. Cardinality(before[c]) <= intruders BY <1>0, <1>6, <2>1 DEF PaidPurge
    <2>3. ASSUME NEW b \in Cancels, NEW wait \in BOOLEAN, cancel(b, wait)
          PROVE  before'[c] \subseteq before[c]
      <3>1. cpc[c] # "new" BY <1>0, <1>1, <2>1 DEF Called
      <3>2. b # c BY <2>3, <3>1 DEF cancel
      <3> QED BY <1>1, <1>2, <2>3, <3>2 DEF cancel
    <2>4. ASSUME NEW S, Gone(S) PROVE before'[c] \subseteq before[c]
      BY <1>1, <2>4 DEF Gone
    <2>5. ASSUME Fetch \/ StopExecute \/ Again PROVE before'[c] \subseteq before[c]
      <3>1. CASE Fetch BY <2>4, <3>1 DEF Fetch
      <3>2. CASE StopExecute BY <2>4, <3>2 DEF StopExecute
      <3>3. CASE Again BY <2>4, <3>3 DEF Again
      <3> QED BY <2>5, <3>1, <3>2, <3>3
    <2>6. (\E b \in Cancels, wait \in BOOLEAN : cancel(b, wait)) \/ Fetch \/ StopExecute
          \/ Again \/ UNCHANGED before
      BY <1>6 DEF Next, Run, Client, schedule, TaskCancel, CancelReturns, Destroy, Look,
         CancelExecute, Purge, PurgeEnds, CheckTask, RunTask, TaskReturns, Tick, vars, history
    <2>7. before'[c] \subseteq before[c] BY <2>3, <2>5, <2>6
    <2> QED BY <1>2, <1>3, <1>4, <2>1, <2>2, <2>7
  <1> QED BY <1>5, <1>6

\* A cancelled task runs once more at most.
LEMMA RunsStep == IInv /\ [Next]_vars => RunsOnceMore' /\ CancelStopsTask'
  <1> SUFFICES ASSUME IInv, [Next]_vars PROVE RunsOnceMore' /\ CancelStopsTask'
    OBVIOUS
  <1>0. TypeOK /\ HistoryType /\ Executes /\ RunsOnceMore /\ CancelStopsTask BY DEF IInv
  <1>1. ASSUME NEW t \in Tasks, TaskCancel(t) PROVE RunsOnceMore' /\ CancelStopsTask'
    <2>1. /\ t \notin isCancelled /\ isCancelled' = isCancelled \cup {t}
          /\ raced' = IF pc = "run" /\ pNf = t THEN raced \cup {t} ELSE raced
          /\ UNCHANGED <<pc, pNf, runsAfter>>
      BY <1>1 DEF TaskCancel
    <2>2. runsAfter[t] = 0 BY <1>0, <2>1 DEF RunsOnceMore
    <2>3. \A u \in Tasks : runsAfter[u] \in Nat BY <1>0 DEF HistoryType
    <2>4. RunsOnceMore' BY <1>0, <2>1, <2>2 DEF RunsOnceMore
    <2>5. CancelStopsTask' BY <1>0, <2>1, <2>3 DEF CancelStopsTask
    <2> QED BY <2>4, <2>5
  <1>2. CASE CheckTask
    <2>1. /\ pc' = IF pNf \in isCancelled THEN "again" ELSE "run"
          /\ UNCHANGED <<pNf, isCancelled, raced, runsAfter>>
      BY <1>2 DEF CheckTask, history
    <2> QED BY <1>0, <2>1 DEF RunsOnceMore, CancelStopsTask
  <1>3. CASE RunTask
    <2>1. /\ pc = "run" /\ pc' = "running" /\ UNCHANGED <<pNf, isCancelled, raced>>
          /\ runsAfter' = IF pNf \in isCancelled
                          THEN [runsAfter EXCEPT ![pNf] = runsAfter[pNf] + 1] ELSE runsAfter
      BY <1>3 DEF RunTask
    <2>2. CASE pNf \in isCancelled
      <3>1. pNf \in Tasks /\ pNf \in raced /\ runsAfter[pNf] = 0
        BY <1>0, <2>1, <2>2 DEF Executes, RunsOnceMore
      <3>2. runsAfter'[pNf] = 1 /\ \A u \in Tasks : u # pNf => runsAfter'[u] = runsAfter[u]
        BY <1>0, <2>1, <2>2, <3>1 DEF HistoryType
      <3>3. RunsOnceMore' BY <1>0, <2>1, <2>2, <3>2 DEF RunsOnceMore
      <3>4. CancelStopsTask' BY <1>0, <2>1, <3>1, <3>2 DEF CancelStopsTask
      <3> QED BY <3>3, <3>4
    <2>3. CASE pNf \notin isCancelled
      <3>1. runsAfter' = runsAfter BY <2>1, <2>3
      <3> QED BY <1>0, <2>1, <3>1 DEF RunsOnceMore, CancelStopsTask
    <2> QED BY <2>2, <2>3
  <1>4. CASE UNCHANGED <<isCancelled, raced, runsAfter>> /\ (pc' # "run" \/ UNCHANGED <<pc, pNf>>)
    BY <1>0, <1>4 DEF RunsOnceMore, CancelStopsTask
  <1>5. (\E t \in Tasks : TaskCancel(t)) \/ CheckTask \/ RunTask
        \/ (UNCHANGED <<isCancelled, raced, runsAfter>> /\ (pc' # "run" \/ UNCHANGED <<pc, pNf>>))
    BY DEF Next, Run, Client, schedule, cancel, CancelReturns, Destroy, Look, Fetch,
       StopExecute, CancelExecute, Purge, PurgeEnds, TaskReturns, Again, Tick, vars, history
  <1> QED BY <1>1, <1>2, <1>3, <1>4, <1>5

LEMMA IInvStep == IInv /\ [Next]_vars => IInv'
  BY TypeStep, ExecutesStep, CalledStep, TrackedStep, PurgeStep, PaidStep, RunsStep DEF IInv

LEMMA IInvAlways == Spec => []IInv
  BY InitIInv, IInvStep, PTL DEF Spec

-----------------------------------------------------------------------------
(* The results about Util::Timer. *)

\* Every variable keeps its type: what the timer's thread takes from the queue is a task,
\* a cancel or a stop notification, and every entry has a time the queue can order.
THEOREM UtilTimerTypeCorrect == Spec => []TypeOK
  <1>1. IInv => TypeOK BY DEF IInv
  <1> QED BY <1>1, IInvAlways, PTL

\* Once cancel()'s Event is set and the purge is over, every task that was scheduled when
\* cancel() was called has been removed, but for one for each entry that came in meanwhile;
\* for any number of tasks and of cancel() calls (CancelNotification::execute()).
THEOREM PurgeIsPaid == Spec => []PaidPurge
  <1>1. IInv => PaidPurge BY DEF IInv
  <1> QED BY <1>1, IInvAlways, PTL

\* A cancelled task does not run again, but for a run that was about to begin: for any
\* number of tasks, however they repeat (TaskNotification::execute()).
THEOREM CancelledTaskStops == Spec => []CancelStopsTask
  <1>1. IInv => CancelStopsTask BY DEF IInv
  <1> QED BY <1>1, IInvAlways, PTL

-----------------------------------------------------------------------------
(* Nothing that a caller waits for is lost. *)

\* The stop notification that the destructor has enqueued is in the queue or being
\* executed until the thread has ended.
StopKept ==
  /\ destroyed /\ pc # "exited" => Stop \in TD!Content(queue) \/ (pc = "fetched" /\ pNf = Stop)
  /\ Stop \in TD!Content(queue) \/ pNf = Stop \/ pc = "exited" => destroyed

\* The notification a caller of cancel(true) waits for is in the queue, being executed, or
\* has been.
WaitersKept ==
  \A c \in Cancels : cpc[c] = "waiting" =>
    /\ ~destroyed
    /\ c \in finished \/ c \in TD!Content(queue) \/ (pc \in {"fetched", "purge"} /\ pNf = c)

\* The thread uses the queue as the class demands: the entry it waits for is in the queue
\* until the wait returns it, and it dequeues and clears only outside of a wait.
QueueUsed ==
  /\ pc # "wait" => candidate = None
  /\ candidate # None => \E k \in 1..Len(queue) : queue[k] = candidate

KeptInv == IInv /\ StopKept /\ WaitersKept /\ QueueUsed

LEMMA InitKept == Init => KeptInv
  <1> SUFFICES ASSUME Init PROVE KeptInv
    OBVIOUS
  <1>1. queue = <<>> /\ candidate = None BY DEF Init, TD!Init
  <1>2. TD!Content(queue) = {} BY <1>1, EmptyContent
  <1>3. None # Stop BY Kinds
  <1> QED BY <1>1, <1>2, <1>3, InitIInv DEF KeptInv, Init, StopKept, WaitersKept, QueueUsed

LEMMA StopKeptStep == IInv /\ StopKept /\ [Next]_vars => StopKept'
  <1> SUFFICES ASSUME IInv, StopKept, [Next]_vars PROVE StopKept'
    OBVIOUS
  <1>0. TypeOK /\ HistoryType /\ Executes BY DEF IInv
  <1> DEFINE Kept ==
        /\ destroyed' /\ pc' # "exited"
           => Stop \in TD!Content(queue') \/ (pc' = "fetched" /\ pNf' = Stop)
        /\ Stop \in TD!Content(queue') \/ pNf' = Stop \/ pc' = "exited" => destroyed'
  <1>a. SUFFICES Kept BY DEF StopKept, TD!Content
  <1>b. ASSUME Stop \in TD!Content(queue') <=> Stop \in TD!Content(queue),
               UNCHANGED <<pc, pNf, destroyed>>
        PROVE  Kept
    BY <1>b DEF StopKept
  <1>c. ASSUME Stop \in TD!Content(queue') <=> Stop \in TD!Content(queue), UNCHANGED destroyed,
               pc' # "exited", pc # "exited", pNf' # Stop, pNf # Stop
        PROVE  Kept
    BY <1>c DEF StopKept
  <1>1. ASSUME NEW u \in Tasks, NEW clock \in Times, schedule(u, clock) PROVE Kept
    <2>1. u \in Notifications /\ clock \in 0..Never /\ u # Stop BY Kinds, TimesType
    <2>2. TD!Content(queue') = TD!Content(queue) \cup {u}
      BY <1>0, <1>1, <2>1, EnqueueEffect DEF schedule
    <2> QED BY <1>b, <1>1, <2>1, <2>2 DEF schedule
  <1>2. ASSUME NEW b \in Cancels, NEW wait \in BOOLEAN, cancel(b, wait) PROVE Kept
    <2>1. b \in Notifications /\ 0 \in 0..Never /\ b # Stop BY Kinds, TimesType
    <2>2. TD!Content(queue') = TD!Content(queue) \cup {b}
      BY <1>0, <1>2, <2>1, EnqueueEffect DEF cancel
    <2> QED BY <1>b, <1>2, <2>1, <2>2 DEF cancel
  <1>3. CASE Destroy
    <2>1. Stop \in Notifications /\ 0 \in 0..Never BY Kinds, TimesType
    <2>2. TD!Content(queue') = TD!Content(queue) \cup {Stop}
      BY <1>0, <1>3, <2>1, EnqueueEffect DEF Destroy
    <2> QED BY <1>3, <2>2 DEF Destroy
  <1>4. CASE Fetch
    <2>1. /\ delivered' \in TD!Content(queue)
          /\ TD!Content(queue') \subseteq TD!Content(queue)
          /\ TD!Content(queue) \subseteq TD!Content(queue') \cup {delivered'}
      BY <1>0, <1>4, DeliverEffect DEF Fetch
    <2>2. pc = "wait" /\ pc' = "fetched" /\ pNf' = delivered' /\ UNCHANGED destroyed
      BY <1>4 DEF Fetch
    <2> QED BY <2>1, <2>2 DEF StopKept
  <1>5. CASE StopExecute
    <2>1. TD!Content(queue') = {} BY <1>5, EmptyContent DEF StopExecute, TD!Clear
    <2> QED BY <1>5, <2>1 DEF StopExecute, StopKept
  <1>6. CASE Purge
    <2>1. CASE TD!TakeNext /\ queue[1].nf # Stop /\ UNCHANGED pc
      <3>1. /\ TD!Content(queue') \subseteq TD!Content(queue)
            /\ TD!Content(queue) \subseteq TD!Content(queue') \cup {queue[1].nf}
        BY <1>0, <2>1, TakeEffect
      <3> QED BY <1>b, <1>6, <2>1, <3>1 DEF Purge
    <2>2. CASE queue # <<>> /\ queue[1].nf = Stop /\ queue' = <<>> /\ pc' = "exited"
      <3>1. queue[1].nf \in TD!Content(queue) BY <1>0, <2>2, ContentType, TailContent
      <3>2. destroyed BY <2>2, <3>1 DEF StopKept
      <3> QED BY <1>6, <2>2, <3>2 DEF Purge
    <2> QED BY <1>6, <2>1, <2>2 DEF Purge
  <1>7. CASE Again
    <2>0. pNf # Stop BY <1>0, <1>7, Kinds DEF Again, Executes
    <2>1. CASE Reschedules(pNf) /\ TD!Enqueue(pNf, NextTime(pNf))
      <3>1. pNf \in Repeating BY <2>1 DEF Reschedules
      <3>2. pNf \in Notifications /\ NextTime(pNf) \in 0..Never
        BY <1>0, <3>1, Kinds, NextTimeType
      <3>3. TD!Content(queue') = TD!Content(queue) \cup {pNf} BY <1>0, <2>1, <3>2, EnqueueEffect
      <3> QED BY <1>c, <1>7, <2>0, <3>3 DEF Again
    <2>2. CASE UNCHANGED nfq BY <1>c, <1>7, <2>0, <2>2 DEF Again, nfq
    <2> QED BY <1>7, <2>1, <2>2 DEF Again
  <1>8. CASE CancelExecute \/ PurgeEnds \/ CheckTask \/ RunTask \/ TaskReturns
    <2>1. pNf # Stop
      BY <1>0, <1>8, Kinds
         DEF CancelExecute, PurgeEnds, CheckTask, RunTask, TaskReturns, Executes
    <2>2. queue' = queue /\ pc' # "exited" /\ pc # "exited" /\ UNCHANGED <<destroyed, pNf>>
      BY <1>8 DEF CancelExecute, PurgeEnds, CheckTask, RunTask, TaskReturns, nfq
    <2> QED BY <1>c, <2>1, <2>2
  <1>9. CASE UNCHANGED <<queue, pc, pNf, destroyed>> BY <1>b, <1>9
  <1>10. Look \/ Tick \/ (\E u \in Tasks : TaskCancel(u)) \/ (\E b \in Cancels : CancelReturns(b))
         \/ UNCHANGED vars => UNCHANGED <<queue, pc, pNf, destroyed>>
    BY DEF Look, TD!Look, Tick, TD!Tick, TaskCancel, CancelReturns, vars, nfq
  <1> QED BY <1>1, <1>2, <1>3, <1>4, <1>5, <1>6, <1>7, <1>8, <1>9, <1>10 DEF Next, Run, Client

LEMMA WaitersKeptStep == IInv /\ StopKept /\ WaitersKept /\ [Next]_vars => WaitersKept'
  <1> SUFFICES ASSUME IInv, StopKept, WaitersKept, [Next]_vars,
                      NEW c \in Cancels, cpc'[c] = "waiting"
               PROVE  /\ ~destroyed'
                      /\ c \in finished' \/ c \in TD!Content(queue')
                         \/ (pc' \in {"fetched", "purge"} /\ pNf' = c)
    BY DEF WaitersKept, TD!Content
  <1> DEFINE Kept == /\ ~destroyed'
                     /\ c \in finished' \/ c \in TD!Content(queue')
                        \/ (pc' \in {"fetched", "purge"} /\ pNf' = c)
  <1>0. TypeOK /\ HistoryType /\ Executes BY DEF IInv
  <1>1. ASSUME NEW b \in Cancels, NEW wait \in BOOLEAN, cancel(b, wait) PROVE Kept
    <2>1. b \in Notifications /\ 0 \in 0..Never BY Kinds, TimesType
    <2>2. TD!Content(queue') = TD!Content(queue) \cup {b}
      BY <1>0, <1>1, <2>1, EnqueueEffect DEF cancel
    <2>3. ~destroyed' /\ UNCHANGED <<finished, pc, pNf>> BY <1>1 DEF cancel
    <2>4. CASE b = c BY <2>2, <2>3, <2>4
    <2>5. CASE b # c
      <3>1. cpc[c] = "waiting" BY <1>0, <1>1, <2>5 DEF cancel, TypeOK
      <3> QED BY <2>2, <2>3, <3>1 DEF WaitersKept
    <2> QED BY <2>4, <2>5
  <1>2. ASSUME NEW b \in Cancels, CancelReturns(b) PROVE Kept
    <2>1. cpc[c] = "waiting" BY <1>0, <1>2 DEF CancelReturns, TypeOK
    <2> QED BY <1>2, <2>1 DEF CancelReturns, nfq, WaitersKept
  <1>3. CASE ~(\E b \in Cancels, wait \in BOOLEAN : cancel(b, wait))
             /\ ~(\E b \in Cancels : CancelReturns(b))
    <2>1. cpc' = cpc
      BY <1>3 DEF Next, Run, Client, schedule, TaskCancel, Destroy, Look, Fetch, StopExecute,
         CancelExecute, Purge, PurgeEnds, CheckTask, RunTask, TaskReturns, Again, Tick, vars
    <2>2. /\ ~destroyed
          /\ c \in finished \/ c \in TD!Content(queue) \/ (pc \in {"fetched", "purge"} /\ pNf = c)
      BY <2>1 DEF WaitersKept
    <2>3. ASSUME TD!Content(queue) \subseteq TD!Content(queue'), UNCHANGED <<pc, pNf, finished>>,
                 UNCHANGED destroyed
          PROVE  Kept
      BY <2>2, <2>3
    <2>4. ASSUME NEW u \in Tasks, NEW clock \in Times, schedule(u, clock) PROVE Kept
      <3>1. u \in Notifications /\ clock \in 0..Never BY Kinds, TimesType
      <3>2. TD!Content(queue') = TD!Content(queue) \cup {u}
        BY <1>0, <2>4, <3>1, EnqueueEffect DEF schedule
      <3> QED BY <2>3, <2>4, <3>2 DEF schedule
    <2>5. ~Destroy BY <2>1 DEF Destroy
    <2>6. CASE Fetch
      <3>1. TD!Content(queue) \subseteq TD!Content(queue') \cup {delivered'}
        BY <1>0, <2>6, DeliverEffect DEF Fetch
      <3>2. pc = "wait" /\ pc' = "fetched" /\ pNf' = delivered' /\ UNCHANGED <<destroyed,
      finished>>
        BY <2>6 DEF Fetch
      <3> QED BY <2>2, <3>1, <3>2
    <2>7. ~StopExecute BY <2>2 DEF StopExecute, StopKept
    <2>8. CASE Purge
      <3>1. CASE /\ TD!TakeNext /\ UNCHANGED pc
                 /\ finished' = finished \cup ({queue[1].nf} \cap Cancels)
        <4>1. TD!Content(queue) \subseteq TD!Content(queue') \cup {queue[1].nf}
          BY <1>0, <3>1, TakeEffect
        <4> QED BY <2>2, <2>8, <3>1, <4>1 DEF Purge
      <3>2. CASE queue # <<>> /\ queue[1].nf = Stop
        <4>1. queue[1].nf \in TD!Content(queue) BY <1>0, <3>2, ContentType, TailContent
        <4> QED BY <2>2, <3>2, <4>1 DEF StopKept
      <3> QED BY <2>8, <3>1, <3>2 DEF Purge
    <2>9. CASE PurgeEnds BY <2>2, <2>9 DEF PurgeEnds, nfq
    <2>10. CASE CancelExecute BY <2>2, <2>10 DEF CancelExecute, nfq
    <2>11. CASE CheckTask \/ RunTask \/ TaskReturns
      <3>1. pNf # c BY <1>0, <2>11, Kinds DEF CheckTask, RunTask, TaskReturns, Executes
      <3>2. UNCHANGED <<queue, finished, destroyed>>
        BY <2>11 DEF CheckTask, RunTask, TaskReturns, nfq
      <3> QED BY <2>2, <3>1, <3>2
    <2>12. CASE Again
      <3>1. pNf # c BY <1>0, <2>12, Kinds DEF Again, Executes
      <3>2. CASE Reschedules(pNf) /\ TD!Enqueue(pNf, NextTime(pNf))
        <4>1. pNf \in Repeating BY <3>2 DEF Reschedules
        <4>2. pNf \in Notifications /\ NextTime(pNf) \in 0..Never
          BY <1>0, <4>1, Kinds, NextTimeType
        <4>3. TD!Content(queue') = TD!Content(queue) \cup {pNf} BY <1>0, <3>2, <4>2, EnqueueEffect
        <4> QED BY <2>2, <2>12, <3>1, <4>3 DEF Again
      <3>3. CASE UNCHANGED nfq BY <2>2, <2>12, <3>1, <3>3 DEF Again, nfq
      <3> QED BY <2>12, <3>2, <3>3 DEF Again
    <2>13. Look \/ Tick \/ (\E u \in Tasks : TaskCancel(u)) \/ UNCHANGED vars
           => UNCHANGED <<queue, pc, pNf, finished, destroyed>>
      BY DEF Look, TD!Look, Tick, TD!Tick, TaskCancel, vars, nfq
    <2> QED BY <1>3, <2>3, <2>4, <2>5, <2>6, <2>7, <2>8, <2>9, <2>10, <2>11, <2>12, <2>13
            DEF Next, Run, Client
  <1> QED BY <1>1, <1>2, <1>3

LEMMA QueueUsedStep == IInv /\ QueueUsed /\ [Next]_vars => QueueUsed'
  <1> SUFFICES ASSUME IInv, QueueUsed, [Next]_vars PROVE QueueUsed'
    OBVIOUS
  <1>0. TypeOK /\ HistoryType /\ Executes BY DEF IInv
  <1>a. ASSUME NEW n \in Notifications, NEW clock \in 0..Never, TD!Enqueue(n, clock),
               pc' = pc \/ pc = "again"
        PROVE  QueueUsed'
    <2>1. /\ candidate' = candidate
          /\ \A i \in 1..Len(queue) : \E j \in 1..Len(queue') : queue'[j] = queue[i]
      BY <1>0, <1>a, EnqueueEffect
    <2> QED BY <1>a, <2>1 DEF QueueUsed
  <1>1. ASSUME NEW u \in Tasks, NEW clock \in Times, schedule(u, clock) PROVE QueueUsed'
    <2>1. u \in Notifications /\ clock \in 0..Never BY Kinds, TimesType
    <2> QED BY <1>a, <1>1, <2>1 DEF schedule
  <1>2. ASSUME NEW b \in Cancels, NEW wait \in BOOLEAN, cancel(b, wait) PROVE QueueUsed'
    <2>1. b \in Notifications /\ 0 \in 0..Never BY Kinds, TimesType
    <2> QED BY <1>a, <1>2, <2>1 DEF cancel
  <1>3. CASE Destroy
    <2>1. Stop \in Notifications /\ 0 \in 0..Never BY Kinds, TimesType
    <2> QED BY <1>a, <1>3, <2>1 DEF Destroy
  <1>4. CASE Look
    <2>1. pc' = "wait" /\ queue' = queue /\ candidate' = queue[1] /\ queue # <<>>
      BY <1>4 DEF Look, TD!Look
    <2>2. 1 \in 1..Len(queue) BY <1>0, <2>1 DEF TypeOK
    <2> QED BY <2>1, <2>2 DEF QueueUsed
  <1>5. CASE Fetch BY <1>5 DEF Fetch, TD!Deliver, QueueUsed
  <1>6. CASE StopExecute BY <1>6 DEF StopExecute, TD!Clear, QueueUsed
  <1>7. CASE Purge
    <2>1. candidate = None /\ candidate' = None BY <1>7 DEF Purge, TD!TakeNext, QueueUsed
    <2> QED BY <2>1 DEF QueueUsed
  <1>8. CASE Again
    <2>1. CASE Reschedules(pNf) /\ TD!Enqueue(pNf, NextTime(pNf))
      <3>1. pNf \in Repeating BY <2>1 DEF Reschedules
      <3>2. pNf \in Notifications /\ NextTime(pNf) \in 0..Never
        BY <1>0, <3>1, Kinds, NextTimeType
      <3> QED BY <1>a, <1>8, <2>1, <3>2 DEF Again
    <2>2. CASE UNCHANGED nfq BY <1>8, <2>2 DEF Again, nfq, QueueUsed
    <2> QED BY <1>8, <2>1, <2>2 DEF Again
  <1>9. CASE UNCHANGED <<queue, candidate>> /\ (pc' = pc \/ pc # "wait")
    BY <1>9 DEF QueueUsed
  <1>10. CancelExecute \/ PurgeEnds \/ CheckTask \/ RunTask \/ TaskReturns \/ Tick
         \/ (\E u \in Tasks : TaskCancel(u)) \/ (\E b \in Cancels : CancelReturns(b))
         \/ UNCHANGED vars => UNCHANGED <<queue, candidate>> /\ (pc' = pc \/ pc # "wait")
    BY DEF CancelExecute, PurgeEnds, CheckTask, RunTask, TaskReturns, Tick, TD!Tick, TaskCancel,
           CancelReturns, vars, nfq
  <1> QED BY <1>1, <1>2, <1>3, <1>4, <1>5, <1>6, <1>7, <1>8, <1>9, <1>10 DEF Next, Run, Client

LEMMA KeptInvAlways == Spec => []KeptInv
  <1>1. KeptInv /\ [Next]_vars => KeptInv'
    BY IInvStep, StopKeptStep, WaitersKeptStep, QueueUsedStep DEF KeptInv
  <1> QED BY <1>1, InitKept, PTL DEF Spec

\* Nothing that somebody waits for is lost, the safety half of CancelCompletes and
\* StopObeyed: the notification of a caller in cancel(true) is in the queue, being executed
\* or done with, and so is the stop notification of a destructor, whatever purges meet them.
THEOREM NothingAwaitedIsLost == Spec => [](StopKept /\ WaitersKept)
  <1>1. KeptInv => StopKept /\ WaitersKept BY DEF KeptInv
  <1> QED BY <1>1, KeptInvAlways, PTL

\* The timer's thread keeps to what TimedNotificationQueue demands of its one consumer: it
\* dequeues and clears outside of waits only, and the entry a wait looked at stays queued.
THEOREM QueueUsedAsAllowed == Spec => []QueueUsed
  <1>1. KeptInv => QueueUsed BY DEF KeptInv
  <1> QED BY <1>1, KeptInvAlways, PTL

=============================================================================
