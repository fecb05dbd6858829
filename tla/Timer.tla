-------------------------------- MODULE Timer --------------------------------
(***************************************************************************)
(* Poco::Timer: a callback invoked periodically by a thread from a pool.   *)
(*                                                                         *)
(* The thread sleeps on the auto-reset Event _wakeUp until the next        *)
(* invocation; a timeout means "invoke", a set Event "read the interval    *)
(* again".  It ends when it reads an interval of 0, and sets _done.        *)
(* stop() writes 0, releases the mutex, sets _wakeUp and waits for _done,  *)
(* while other threads may restart the timer or change its interval.       *)
(*                                                                         *)
(* Intervals are in milliseconds, but time runs in units PerMs of which    *)
(* make one, and is relative: next is the time left until _nextInvocation, *)
(* negative when it has passed.  Every critical section of the timer's     *)
(* mutex is one action, and so is every turn of the loop that skips missed *)
(* invocations.                                                            *)
(***************************************************************************)
EXTENDS Integers, FiniteSets

CONSTANTS
  Controllers,    \* threads that use the timer
  StartIntervals, \* values of _startInterval
  Period,         \* the interval the timer is started with
  Intervals,      \* arguments of restart(long) and setPeriodicInterval()
  PerMs,          \* the clock's units in a millisecond: 1000
  MaxLate,        \* bound: how late an invocation can be, in units
  MaxSkipped      \* bound: time does not pass in the loop once so many are skipped

ASSUME TimerAssumption ==
  /\ StartIntervals \subseteq Nat
  /\ Period \in Nat \ {0}
  /\ Intervals \subseteq Nat
  /\ PerMs \in Nat \ {0}
  /\ MaxLate \in Nat \ {0} /\ MaxSkipped \in Nat

VARIABLES
  pCallback,        \* _pCallback is not null
  periodicInterval,
  wakeUp, done,     \* auto-reset Events
  next,             \* _nextInvocation, seen from now
  skipped,
  tpc,              \* where the timer's thread is
  interval,         \* its local
  left,             \* time left of tryWait()
  spc,              \* spc[c]: where c is in stop()
  sinceDue          \* history: time since the last invocation was due, or NoDue

timerVars == <<pCallback, periodicInterval, wakeUp, done, next, skipped, tpc, interval,
               left, spc, sinceDue>>

\* Milliseconds in units of the clock.
Units(milliseconds) == milliseconds * PerMs

\* No invocation is as early as this.
NoDue == -PerMs

Places == {"none", "top", "sleep", "woken", "invoke", "callback", "after", "exit"}

TimerTypeOK ==
  /\ pCallback \in BOOLEAN /\ wakeUp \in BOOLEAN /\ done \in BOOLEAN
  /\ periodicInterval \in Nat
  /\ next \in Int /\ next >= -MaxLate
  /\ skipped \in Nat
  /\ tpc \in Places
  /\ interval \in Nat /\ left \in Nat
  /\ spc \in [Controllers -> {"out", "set", "wait", "lock"}]
  /\ sinceDue \in Int /\ sinceDue >= NoDue

TimerInit ==
  /\ pCallback = FALSE
  /\ periodicInterval = Period
  /\ wakeUp = FALSE /\ done = FALSE
  /\ next = 0 /\ skipped = 0
  /\ tpc = "none" /\ interval = 0 /\ left = 0
  /\ spc = [c \in Controllers |-> "out"]
  /\ sinceDue = NoDue

thread == <<next, skipped, tpc, interval, left, sinceDue>>

-----------------------------------------------------------------------------
(* Controllers. *)

\* start() throws if the timer has been started and not been stopped.
start(c, startInterval) ==
  /\ spc[c] = "out"
  /\ ~pCallback
  /\ pCallback' = TRUE
  /\ wakeUp' = FALSE
  /\ next' = Units(startInterval)
  /\ tpc' = "top" /\ interval' = 0
  /\ sinceDue' = NoDue
  /\ UNCHANGED <<periodicInterval, done, skipped, left, spc>>

\* The pool has no thread left: the callback is deleted again.
StartFails(c) ==
  /\ spc[c] = "out"
  /\ ~pCallback
  /\ wakeUp' = FALSE
  /\ UNCHANGED <<pCallback, periodicInterval, done, spc, thread>>

stop(c) ==
  /\ spc[c] = "out"
  /\ pCallback
  /\ periodicInterval' = 0
  /\ spc' = [spc EXCEPT ![c] = "set"]
  /\ UNCHANGED <<pCallback, wakeUp, done, thread>>

\* The mutex has been released.
StopWakes(c) ==
  /\ spc[c] = "set"
  /\ wakeUp' = TRUE
  /\ spc' = [spc EXCEPT ![c] = "wait"]
  /\ UNCHANGED <<pCallback, periodicInterval, done, thread>>

\* Bug: the callback is deleted without waiting for the thread.
StopDoesNotWait(c) ==
  /\ spc[c] = "wait"
  /\ spc' = [spc EXCEPT ![c] = "lock"]
  /\ UNCHANGED <<pCallback, periodicInterval, wakeUp, done, thread>>

StopWaits(c) ==
  /\ spc[c] = "wait"
  /\ done
  /\ done' = FALSE
  /\ spc' = [spc EXCEPT ![c] = "lock"]
  /\ UNCHANGED <<pCallback, periodicInterval, wakeUp, thread>>

StopEnds(c) ==
  /\ spc[c] = "lock"
  /\ pCallback' = FALSE
  /\ spc' = [spc EXCEPT ![c] = "out"]
  /\ UNCHANGED <<periodicInterval, wakeUp, done, thread>>

restart(c) ==
  /\ spc[c] = "out"
  /\ pCallback
  /\ wakeUp' = TRUE
  /\ UNCHANGED <<pCallback, periodicInterval, done, spc, thread>>

restartWith(c, milliseconds) ==
  /\ spc[c] = "out"
  /\ pCallback
  /\ periodicInterval' = milliseconds
  /\ wakeUp' = TRUE
  /\ UNCHANGED <<pCallback, done, spc, thread>>

setPeriodicInterval(c, milliseconds) ==
  /\ spc[c] = "out"
  /\ periodicInterval # milliseconds
  /\ periodicInterval' = milliseconds
  /\ UNCHANGED <<pCallback, wakeUp, done, spc, thread>>

-----------------------------------------------------------------------------
(* The thread: run(). *)

\* Bug: the time left is rounded down, not towards zero.
PastByAnything == next < 0

\* sleep < 0: the time left is divided down to whole milliseconds, towards zero.
Past == next <= -PerMs

\* A turn of the inner loop: an invocation that has passed is skipped and counted.
SkipMissed ==
  /\ tpc = "top"
  /\ Past /\ interval # 0
  /\ next' = next + Units(interval)
  /\ skipped' = skipped + 1
  /\ UNCHANGED <<pCallback, periodicInterval, wakeUp, done, tpc, interval, left, spc,
                 sinceDue>>

\* The last turn: tryWait() is given the whole milliseconds that are left.
FallAsleep ==
  /\ tpc = "top"
  /\ ~Past \/ interval = 0
  /\ left' = IF next < 0 THEN 0 ELSE next - (next % PerMs)
  /\ tpc' = "sleep"
  /\ UNCHANGED <<pCallback, periodicInterval, wakeUp, done, next, skipped, interval, spc,
                 sinceDue>>

\* tryWait() returns true ...
Woken ==
  /\ tpc = "sleep"
  /\ wakeUp
  /\ wakeUp' = FALSE
  /\ tpc' = "woken"
  /\ UNCHANGED <<pCallback, periodicInterval, done, next, skipped, interval, left, spc,
                 sinceDue>>

\* ... or false, although the Event may just have been set.
TimesOut ==
  /\ tpc = "sleep"
  /\ left = 0
  /\ tpc' = "invoke"
  /\ UNCHANGED <<pCallback, periodicInterval, wakeUp, done, next, skipped, interval, left,
                 spc, sinceDue>>

\* What both branches end with: the interval is read under the mutex.
NextRound ==
  /\ interval' = periodicInterval
  /\ skipped' = 0
  /\ tpc' = IF interval' > 0 THEN "top" ELSE "exit"

Reread ==
  /\ tpc = "woken"
  /\ NextRound
  /\ next' = Units(periodicInterval)
  /\ sinceDue' = NoDue
  /\ UNCHANGED <<pCallback, periodicInterval, wakeUp, done, left, spc>>

Invoke ==
  /\ tpc = "invoke"
  /\ tpc' = "callback"
  /\ sinceDue' = -next
  /\ UNCHANGED <<pCallback, periodicInterval, wakeUp, done, next, skipped, interval, left,
                 spc>>

\* The callback returns or throws; exceptions go to the ErrorHandler.
CallbackEnds ==
  /\ tpc = "callback"
  /\ tpc' = "after"
  /\ UNCHANGED <<pCallback, periodicInterval, wakeUp, done, next, skipped, interval, left,
                 spc, sinceDue>>

AfterCallback ==
  /\ tpc = "after"
  /\ NextRound
  /\ next' = next + Units(periodicInterval)
  /\ UNCHANGED <<pCallback, periodicInterval, wakeUp, done, left, spc, sinceDue>>

\* Bug: the thread ends like an interrupted one, without setting _done.
ExitForgetsDone ==
  /\ tpc = "exit"
  /\ tpc' = "none"
  /\ next' = 0 /\ interval' = 0 /\ left' = 0 /\ sinceDue' = NoDue
  /\ UNCHANGED <<pCallback, periodicInterval, wakeUp, done, skipped, spc>>

Exit ==
  /\ tpc = "exit"
  /\ done' = TRUE
  /\ tpc' = "none"
  /\ next' = 0 /\ interval' = 0 /\ left' = 0 /\ sinceDue' = NoDue
  /\ UNCHANGED <<pCallback, periodicInterval, wakeUp, skipped, spc>>

TimerTick ==
  /\ tpc # "none" /\ next > -MaxLate
  /\ tpc = "top" => skipped < MaxSkipped
  /\ next' = next - 1
  /\ left' = IF tpc = "sleep" /\ left > 0 THEN left - 1 ELSE left
  /\ sinceDue' = IF sinceDue = NoDue THEN NoDue ELSE sinceDue + 1
  /\ UNCHANGED <<pCallback, periodicInterval, wakeUp, done, skipped, tpc, interval, spc>>

-----------------------------------------------------------------------------
TimerRun ==
  \/ SkipMissed
  \/ FallAsleep
  \/ Woken
  \/ TimesOut
  \/ Reread
  \/ Invoke
  \/ CallbackEnds
  \/ AfterCallback
  \/ Exit

StopStep(c) == StopWakes(c) \/ StopWaits(c) \/ StopEnds(c)

Use(c) ==
  \/ \E s \in StartIntervals : start(c, s)
  \/ StartFails(c)
  \/ stop(c)
  \/ restart(c)
  \/ \E m \in Intervals : restartWith(c, m) \/ setPeriodicInterval(c, m)

TimerNext ==
  \/ \E c \in Controllers : Use(c) \/ StopStep(c)
  \/ TimerRun
  \/ TimerTick

TimerSpec == TimerInit /\ [][TimerNext]_timerVars

\* The thread keeps running (its callback returns), time passes, and so does stop().
FairTimerSpec ==
  /\ TimerSpec
  /\ WF_timerVars(TimerRun) /\ WF_timerVars(TimerTick)
  /\ \A c \in Controllers : WF_timerVars(StopStep(c))

-----------------------------------------------------------------------------
(* Properties. *)

\* The callback object outlives the thread that calls it, and the Event a stop()
\* waits for is set only by a thread that has ended: whatever stop(), start() and
\* restart() calls overlap, run() never uses a deleted callback.
CallbackAlive ==
  /\ tpc # "none" => pCallback
  /\ done => tpc = "none" /\ pCallback

\* getSkipped(), "the number of skipped invocations since the last invocation": the
\* k-th invocation after the last one is due k intervals later, however late the last
\* one was, however long its callback took and however long the loop itself takes.
\* When the thread goes to sleep, those it has counted are past by a millisecond or
\* more, and the one it waits for is not.
SkipsWhatPassed ==
  [][tpc = "top" /\ tpc' = "sleep" /\ sinceDue # NoDue =>
       /\ skipped > 0 => sinceDue - skipped * Units(interval) >= PerMs
       /\ sinceDue - (skipped + 1) * Units(interval) < PerMs]_timerVars

\* Every other controller is outside stop().
Alone(c) == \A d \in Controllers \ {c} : spc[d] = "out"

\* "Stops the timer": a stop() that has written its 0 while the thread runs, or has
\* ended and left _done set, returns, whatever restarts come in and wherever the
\* thread is; unless another thread overwrites the 0 or stops the timer as well.
StopReturns ==
  \A c \in Controllers :
    spc[c] = "set" /\ periodicInterval = 0 /\ (tpc # "none" \/ done) /\ Alone(c)
      ~> spc[c] = "out" \/ periodicInterval # 0 \/ ~Alone(c)

=============================================================================
