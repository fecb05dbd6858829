------------------------------ MODULE UtilTimer ------------------------------
(***************************************************************************)
(* Poco::Util::Timer on top of the queue's contract TimedDelivery.         *)
(*                                                                         *)
(* One thread takes notifications from a TimedNotificationQueue and        *)
(* executes them: tasks, which reschedule themselves if they repeat;       *)
(* cancel notifications, which remove as many entries as the queue had     *)
(* when they began; and the destructor's stop notification.  Cancel and    *)
(* stop notifications are enqueued for time 0, before everything else.     *)
(* Clients schedule and cancel concurrently with all of that.              *)
(*                                                                         *)
(* A task is identified with the notification that carries it: it is in    *)
(* the queue at most once at a time.                                       *)
(***************************************************************************)
EXTENDS Integers, Sequences, FiniteSets

CONSTANTS
  OneShot, Periodic, FixedRate, \* TimerTasks, by the way they are scheduled
  Cancels,  \* calls of Timer::cancel(), each with its CancelNotification
  Stop,     \* the StopNotification
  Times,    \* the clock values tasks are scheduled for
  Interval, \* the interval of repeated tasks
  MaxTime,  \* bound: the clock stops here
  None

Tasks == OneShot \cup Periodic \cup FixedRate
Repeating == Periodic \cup FixedRate

\* Bound: stands for every time the clock does not reach.
Never == MaxTime + 1

ASSUME ConstantsAssumption ==
  /\ Interval \in Nat /\ MaxTime \in Nat
  /\ Times \subseteq 0..MaxTime
  /\ OneShot \cap Repeating = {} /\ Periodic \cap FixedRate = {}
  /\ Tasks \cap Cancels = {} /\ Stop \notin Tasks \cup Cancels
  /\ None \notin Tasks \cup Cancels \cup {Stop}

VARIABLES
  queue, now, candidate, delivered, \* the TimedNotificationQueue
  pc,            \* where the timer's thread is
  pNf,           \* the notification it executes
  numberOfPendingTasks,             \* in CancelNotification::execute()
  finished,      \* cancel notifications whose Event is set
  isCancelled,   \* the tasks that have been cancelled
  nextExecution, \* nextExecution[t]: the member of a FixedRateTaskNotification
  cpc,           \* cpc[c]: where the caller of cancel() is
  destroyed,     \* the destructor has been called
  before,        \* before[c], history: tasks scheduled when c was enqueued, and since
  intruders,     \* history: entries enqueued during the last purge
  runsAfter,     \* runsAfter[t], history: run() calls since t was cancelled
  raced          \* history: tasks cancelled between the look at the flag and run()

TD == INSTANCE TimedDelivery WITH
        Notifications <- Tasks \cup Cancels \cup {Stop},
        Times <- Times \cup {0, Never}

nfq == <<queue, now, candidate, delivered>>
history == <<before, intruders, runsAfter, raced>>
vars == <<nfq, pc, pNf, numberOfPendingTasks, finished, isCancelled, nextExecution,
          cpc, destroyed, history>>

Scheduled == TD!Content(queue) \cap Tasks

TypeOK ==
  /\ queue \in Seq([time : 0..Never, nf : Tasks \cup Cancels \cup {Stop}])
  /\ pc \in {"wait", "fetched", "run", "running", "again", "purge", "exited"}
  /\ pNf \in Tasks \cup Cancels \cup {Stop, None}
  /\ numberOfPendingTasks \in Nat
  /\ finished \subseteq Cancels
  /\ isCancelled \subseteq Tasks
  /\ nextExecution \in [FixedRate -> 0..Never]
  /\ cpc \in [Cancels -> {"new", "waiting", "returned", "left"}]
  /\ destroyed \in BOOLEAN

Init ==
  /\ TD!Init
  /\ pc = "wait" /\ pNf = None
  /\ numberOfPendingTasks = 0
  /\ finished = {}
  /\ isCancelled = {}
  /\ nextExecution = [t \in FixedRate |-> 0]
  /\ cpc = [c \in Cancels |-> "new"]
  /\ destroyed = FALSE
  /\ before = [c \in Cancels |-> {}]
  /\ intruders = 0
  /\ runsAfter = [t \in Tasks |-> 0]
  /\ raced = {}

-----------------------------------------------------------------------------
(* Clients.  None of them uses a timer that is being destroyed. *)

Executing(t) == pc \in {"fetched", "run", "running", "again"} /\ pNf = t

\* While a purge counts down, an entry that comes in may take another's place: also
\* the notification of a second cancel().
CountIntruder == intruders' = IF pc = "purge" THEN intruders + 1 ELSE intruders

\* schedule() and scheduleAtFixedRate(), all overloads: validateTask() throws if
\* the task has been cancelled.
schedule(t, clock) ==
  /\ ~destroyed
  /\ t \notin isCancelled
  /\ t \in Repeating => ~Executing(t)
  /\ TD!Enqueue(t, clock)
  /\ nextExecution' = IF t \in FixedRate THEN [nextExecution EXCEPT ![t] = clock]
                                         ELSE nextExecution
  /\ CountIntruder
  /\ UNCHANGED <<pc, pNf, numberOfPendingTasks, finished, isCancelled, cpc, destroyed,
                 before, runsAfter, raced>>

\* TimerTask::cancel()
TaskCancel(t) ==
  /\ t \notin isCancelled
  /\ isCancelled' = isCancelled \cup {t}
  /\ raced' = IF pc = "run" /\ pNf = t THEN raced \cup {t} ELSE raced
  /\ UNCHANGED <<nfq, pc, pNf, numberOfPendingTasks, finished, nextExecution, cpc,
                 destroyed, before, intruders, runsAfter>>

\* cancel(wait) enqueues its notification ...
cancel(c, wait) ==
  /\ ~destroyed
  /\ cpc[c] = "new"
  /\ TD!Enqueue(c, 0)
  /\ cpc' = [cpc EXCEPT ![c] = IF wait THEN "waiting" ELSE "left"]
  /\ before' = [before EXCEPT ![c] =
                  Scheduled \cup {t \in Repeating : Executing(t)}]
  /\ CountIntruder
  /\ UNCHANGED <<pc, pNf, numberOfPendingTasks, finished, isCancelled, nextExecution,
                 destroyed, runsAfter, raced>>

\* ... and, if wait is true, waits for its Event.
CancelReturns(c) ==
  /\ cpc[c] = "waiting"
  /\ c \in finished
  /\ cpc' = [cpc EXCEPT ![c] = "returned"]
  /\ UNCHANGED <<nfq, pc, pNf, numberOfPendingTasks, finished, isCancelled,
                 nextExecution, destroyed, history>>

\* ~Timer() enqueues the stop notification and joins the thread.
Destroy ==
  /\ ~destroyed
  /\ \A c \in Cancels : cpc[c] # "waiting"
  /\ TD!Enqueue(Stop, 0)
  /\ destroyed' = TRUE
  /\ UNCHANGED <<pc, pNf, numberOfPendingTasks, finished, isCancelled, nextExecution,
                 cpc, history>>

-----------------------------------------------------------------------------
(* The timer's thread. *)

\* Tasks in S have left the queue for good.
Gone(S) == before' = [c \in Cancels |-> before[c] \ S]

\* waitDequeueNotification(): the queue's contract.
Look ==
  /\ pc = "wait"
  /\ queue # <<>> /\ queue[1] # candidate
  /\ TD!Look
  /\ UNCHANGED <<pc, pNf, numberOfPendingTasks, finished, isCancelled, nextExecution,
                 cpc, destroyed, history>>

Fetch ==
  /\ pc = "wait"
  /\ TD!Deliver
  /\ pc' = "fetched" /\ pNf' = delivered'
  /\ Gone({delivered'} \cap OneShot)
  /\ UNCHANGED <<numberOfPendingTasks, finished, isCancelled, nextExecution, cpc,
                 destroyed, intruders, runsAfter, raced>>

StopExecute ==
  /\ pc = "fetched" /\ pNf = Stop
  /\ TD!Clear
  /\ Gone(Tasks)
  /\ pc' = "exited"
  /\ UNCHANGED <<pNf, numberOfPendingTasks, finished, isCancelled, nextExecution, cpc,
                 destroyed, intruders, runsAfter, raced>>

\* Bug: the notification takes itself to be in the queue still.
CancelCountsItself ==
  /\ pc = "fetched" /\ pNf \in Cancels
  /\ numberOfPendingTasks' = Len(queue) - 1
  /\ pc' = "purge"
  /\ intruders' = 0
  /\ UNCHANGED <<nfq, pNf, finished, isCancelled, nextExecution, cpc, destroyed, before,
                 runsAfter, raced>>

\* CancelNotification::execute(): the size of the queue is read once ...
CancelExecute ==
  /\ pc = "fetched" /\ pNf \in Cancels
  /\ numberOfPendingTasks' = Len(queue)
  /\ pc' = "purge"
  /\ intruders' = 0
  /\ UNCHANGED <<nfq, pNf, finished, isCancelled, nextExecution, cpc, destroyed, before,
                 runsAfter, raced>>

\* Bug: a stop notification is removed like any other.
PurgeIgnoresStop ==
  /\ pc = "purge" /\ numberOfPendingTasks > 0
  /\ TD!TakeNext
  /\ numberOfPendingTasks' = numberOfPendingTasks - 1
  /\ finished' = finished \cup ({queue[1].nf} \cap Cancels)
  /\ Gone({queue[1].nf})
  /\ UNCHANGED <<pc, pNf, isCancelled, nextExecution, cpc, destroyed, intruders, runsAfter, raced>>

\* ... and that many entries are removed, one by one.  The callers of other cancel
\* notifications among them are released at once; a stop notification ends it all.
Purge ==
  /\ pc = "purge" /\ numberOfPendingTasks > 0
  /\ numberOfPendingTasks' = numberOfPendingTasks - 1
  /\ \/ /\ queue # <<>> /\ queue[1].nf # Stop
        /\ TD!TakeNext
        /\ finished' = finished \cup ({queue[1].nf} \cap Cancels)
        /\ Gone({queue[1].nf})
        /\ UNCHANGED pc
     \/ /\ queue # <<>> /\ queue[1].nf = Stop
        /\ queue' = <<>> /\ delivered' = Stop
        /\ UNCHANGED <<now, candidate>>
        /\ finished' = finished \cup {pNf}
        /\ Gone(Tasks)
        /\ pc' = "exited"
  /\ UNCHANGED <<pNf, isCancelled, nextExecution, cpc, destroyed, intruders, runsAfter, raced>>

\* Bug: the caller of the notification that was executed is not released.
PurgeForgetsWaiter ==
  /\ pc = "purge" /\ numberOfPendingTasks = 0
  /\ pc' = "wait"
  /\ UNCHANGED <<nfq, pNf, finished, numberOfPendingTasks, isCancelled, nextExecution,
                 cpc, destroyed, history>>

PurgeEnds ==
  /\ pc = "purge" /\ numberOfPendingTasks = 0
  /\ finished' = finished \cup {pNf}
  /\ pc' = "wait"
  /\ UNCHANGED <<nfq, pNf, numberOfPendingTasks, isCancelled, nextExecution, cpc,
                 destroyed, history>>

\* Bug: the flag is not looked at.
CheckNothing ==
  /\ pc = "fetched" /\ pNf \in Tasks
  /\ pc' = "run"
  /\ UNCHANGED <<nfq, pNf, numberOfPendingTasks, finished, isCancelled, nextExecution,
                 cpc, destroyed, history>>

\* TaskNotification::execute() looks at the task's flag ...
CheckTask ==
  /\ pc = "fetched" /\ pNf \in Tasks
  /\ pc' = IF pNf \in isCancelled THEN "again" ELSE "run"
  /\ UNCHANGED <<nfq, pNf, numberOfPendingTasks, finished, isCancelled, nextExecution,
                 cpc, destroyed, history>>

\* ... and then calls run().
RunTask ==
  /\ pc = "run"
  /\ pc' = "running"
  /\ runsAfter' = IF pNf \in isCancelled
                  THEN [runsAfter EXCEPT ![pNf] = @ + 1] ELSE runsAfter
  /\ UNCHANGED <<nfq, pNf, numberOfPendingTasks, finished, isCancelled, nextExecution,
                 cpc, destroyed, before, intruders, raced>>

\* run() returns or throws; exceptions go to the ErrorHandler.
TaskReturns ==
  /\ pc = "running"
  /\ pc' = "again"
  /\ UNCHANGED <<nfq, pNf, numberOfPendingTasks, finished, isCancelled, nextExecution,
                 cpc, destroyed, history>>

Later(t) == IF t <= MaxTime THEN t ELSE Never

\* When a repeated task is due again: an interval from now, or an interval after it
\* was last due, if that has not passed.
NextTime(t) ==
  IF t \in Periodic THEN Later(now + Interval)
  ELSE LET next == nextExecution[t] + Interval
       IN  Later(IF next < now THEN now ELSE next)

Reschedules(t) == t \in Repeating /\ t \notin isCancelled

\* Repeated tasks go back into the queue unless they have been cancelled.
Again ==
  /\ pc = "again"
  /\ \/ /\ Reschedules(pNf)
        /\ TD!Enqueue(pNf, NextTime(pNf))
        /\ nextExecution' = IF pNf \in FixedRate
                            THEN [nextExecution EXCEPT ![pNf] = NextTime(pNf)]
                            ELSE nextExecution
        /\ UNCHANGED before
     \/ /\ ~Reschedules(pNf)
        /\ Gone({pNf} \cap Repeating)
        /\ UNCHANGED <<nfq, nextExecution>>
  /\ pc' = "wait"
  /\ UNCHANGED <<pNf, numberOfPendingTasks, finished, isCancelled, cpc, destroyed,
                 intruders, runsAfter, raced>>

Tick ==
  /\ TD!Tick
  /\ UNCHANGED <<pc, pNf, numberOfPendingTasks, finished, isCancelled, nextExecution,
                 cpc, destroyed, history>>

Run ==
  \/ Look
  \/ Fetch
  \/ StopExecute
  \/ CancelExecute
  \/ Purge
  \/ PurgeEnds
  \/ CheckTask
  \/ RunTask
  \/ TaskReturns
  \/ Again

Client ==
  \/ \E t \in Tasks, clock \in Times : schedule(t, clock)
  \/ \E t \in Tasks : TaskCancel(t)
  \/ \E c \in Cancels, wait \in BOOLEAN : cancel(c, wait)
  \/ \E c \in Cancels : CancelReturns(c)
  \/ Destroy

Next == Run \/ Client \/ Tick

Spec == Init /\ [][Next]_vars

\* The thread keeps running, tasks return, time passes, released callers return.
FairSpec ==
  Spec /\ WF_vars(Run) /\ WF_vars(Tick) /\ \A c \in Cancels : WF_vars(CancelReturns(c))

-----------------------------------------------------------------------------
(* Properties. *)

\* cancel() "cancels all pending tasks" and, if asked to wait, "waits until the queue
\* has been purged" (Timer.h): when it returns, none of the tasks that were scheduled
\* at the time of the call is still to come.  The code does not keep this: an entry
\* that comes in while CancelNotification::execute() counts down is removed in the
\* place of one that was there before.
CancelPurges == \A c \in Cancels : cpc[c] = "returned" => before[c] = {}

\* What does hold where CancelPurges fails: once its Event is set and the purge that
\* set it is over, every task that was scheduled at the time of the call has been
\* removed, except at most one for each entry that came into the queue while the purge
\* was counting down, cancel()'s own if it was another call's purge
\* (CancelNotification::execute()).
PaidPurge == \A c \in finished : pc # "purge" => Cardinality(before[c]) <= intruders

\* A task that has been cancelled does not run again, but for one run that was just
\* about to begin; this takes the check before run() and the one before a repeated
\* task is rescheduled together.
CancelStopsTask ==
  \A t \in Tasks : runsAfter[t] <= IF t \in raced THEN 1 ELSE 0

\* Every caller of cancel(true) is released, also when another cancel's purge
\* removes its notification (CancelNotification::wait()).
CancelCompletes == \A c \in Cancels : cpc[c] = "waiting" ~> cpc[c] = "returned"

\* The thread ends once the destructor has enqueued its notification, also when a
\* purge comes across it first, so that ~Timer() can join it.
StopObeyed == destroyed ~> pc = "exited"

=============================================================================
