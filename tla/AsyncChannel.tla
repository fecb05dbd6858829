---------------------------- MODULE AsyncChannel ----------------------------
(***************************************************************************)
(* Poco::AsyncChannel: threads log messages into a NotificationQueue, and  *)
(* a background thread, started by the first message, passes them on to    *)
(* the attached channel, which may throw: that ends the thread.  close()   *)
(* waits until the queue is empty, wakes the thread and joins it; log()    *)
(* and close() share no lock.                                              *)
(*                                                                         *)
(* The queue is what module NotificationQueue shows it to be: a waiting    *)
(* consumer is handed the next notification, or null when it is woken up;  *)
(* on an empty queue null is returned at once from a wakeUpAll() to the    *)
(* next notification; and nothing is lost or duplicated.                   *)
(***************************************************************************)
EXTENDS Naturals, Sequences, FiniteSets

CONSTANTS
  Loggers,    \* threads that log
  PerLogger,  \* how many messages each of them logs
  queueSize,  \* the property "queueSize", 0 for unlimited
  CanThrow,   \* whether the attached channel can throw
  NoMessage

VARIABLES
  closed,     \* _closed
  queue,      \* _queue
  wokeUp,     \* _queue._wokeUp
  dropCount,  \* _dropCount
  worker,     \* the background thread: not running, or where it is in run()
  inHand,     \* the message it has dequeued
  lpc,        \* lpc[l]: where l is in log()
  count,      \* count[l]: how many messages l has begun to log
  cpc,        \* where the thread that calls close() is
  written,    \* the messages passed to the channel, in order
  owed,       \* history: messages whose log() had returned when close() was called
  threw,      \* history: the attached channel has thrown
  restarted   \* history: the thread was started between close()'s look at it and its join

history == <<threw, restarted>>
channelVars == <<closed, queue, wokeUp, dropCount, worker, inHand, lpc, count, cpc, written, owed,
                 history>>

\* A message is the logger's n-th.  A report of dropped messages stands for all.
Report == <<NoMessage, 0>>
Current(l) == <<l, count[l]>>
Written == {written[i] : i \in DOMAIN written}

Init ==
  /\ closed = FALSE
  /\ queue = <<>> /\ wokeUp = FALSE /\ dropCount = 0
  /\ worker = "none" /\ inHand = NoMessage
  /\ lpc = [l \in Loggers |-> "out"]
  /\ count = [l \in Loggers |-> 0]
  /\ cpc = "open"
  /\ written = <<>> /\ owed = {}
  /\ threw = FALSE /\ restarted = FALSE

isRunning == worker \notin {"none", "ended"}

\* A notification goes to the waiting thread, or into the queue.
enqueueNotification(m) ==
  /\ wokeUp' = FALSE
  /\ \/ /\ worker = "waiting"
        /\ worker' = "logging" /\ inHand' = m
        /\ UNCHANGED queue
     \/ /\ worker # "waiting"
        /\ queue' = Append(queue, m)
        /\ UNCHANGED <<worker, inHand>>

-----------------------------------------------------------------------------
(* log() *)

\* A closed channel ignores the message.
Log(l) ==
  /\ lpc[l] = "out" /\ count[l] < PerLogger
  /\ count' = [count EXCEPT ![l] = @ + 1]
  /\ lpc' = [lpc EXCEPT ![l] = IF closed THEN "out" ELSE "size"]
  /\ UNCHANGED <<closed, queue, wokeUp, dropCount, worker, inHand, cpc, written, owed, history>>

\* A full queue drops it.  Nothing protects _dropCount: an increment can be lost.
LogSize(l) ==
  /\ lpc[l] = "size"
  /\ IF queueSize # 0 /\ Len(queue) >= queueSize
     THEN /\ dropCount' \in {dropCount, dropCount + 1}
          /\ lpc' = [lpc EXCEPT ![l] = "out"]
     ELSE /\ lpc' = [lpc EXCEPT ![l] = IF dropCount # 0 THEN "report" ELSE "open"]
          /\ UNCHANGED dropCount
  /\ UNCHANGED <<closed, queue, wokeUp, worker, inHand, count, cpc, written, owed, history>>

LogReport(l) ==
  /\ lpc[l] = "report"
  /\ enqueueNotification(Report)
  /\ lpc' = [lpc EXCEPT ![l] = "reset"]
  /\ UNCHANGED <<closed, dropCount, count, cpc, written, owed, history>>

LogReset(l) ==
  /\ lpc[l] = "reset"
  /\ dropCount' = 0
  /\ lpc' = [lpc EXCEPT ![l] = "open"]
  /\ UNCHANGED <<closed, queue, wokeUp, worker, inHand, count, cpc, written, owed, history>>

\* open() starts the thread if it does not run, closed or not.
LogOpen(l) ==
  /\ lpc[l] = "open"
  /\ worker' = IF isRunning THEN worker ELSE "run"
  /\ restarted' = (restarted \/ (~isRunning /\ cpc = "pthread_join"))
  /\ lpc' = [lpc EXCEPT ![l] = "enqueue"]
  /\ UNCHANGED <<closed, queue, wokeUp, dropCount, inHand, count, cpc, written, owed, threw>>

LogEnqueue(l) ==
  /\ lpc[l] = "enqueue"
  /\ enqueueNotification(Current(l))
  /\ lpc' = [lpc EXCEPT ![l] = "out"]
  /\ owed' = IF closed THEN owed ELSE owed \cup {Current(l)}
  /\ UNCHANGED <<closed, dropCount, count, cpc, written, history>>

-----------------------------------------------------------------------------
(* run() *)

\* waitDequeueNotification(): the next notification, null, or a wait.
Dequeue ==
  /\ worker = "run"
  /\ \/ /\ queue # <<>>
        /\ worker' = "logging" /\ inHand' = Head(queue) /\ queue' = Tail(queue)
     \/ /\ queue = <<>>
        /\ worker' = IF wokeUp THEN "woken" ELSE "waiting"
        /\ UNCHANGED <<queue, inHand>>
  /\ UNCHANGED <<closed, wokeUp, dropCount, lpc, count, cpc, written, owed, history>>

Write ==
  /\ worker = "logging"
  /\ written' = Append(written, inHand)
  /\ inHand' = NoMessage
  /\ worker' = "run"
  /\ UNCHANGED <<closed, queue, wokeUp, dropCount, lpc, count, cpc, owed, history>>

\* The thread ends, and with it a pthread_join() that waits for it.
End ==
  /\ worker' = "ended"
  /\ cpc' = IF cpc = "joining" THEN "closed" ELSE cpc

\* An exception leaves run(); the message is lost.
WriteThrows ==
  /\ CanThrow
  /\ worker = "logging"
  /\ End
  /\ inHand' = NoMessage
  /\ threw' = TRUE
  /\ UNCHANGED <<closed, queue, wokeUp, dropCount, lpc, count, written, owed, restarted>>

\* It got null and ends.
RunEnds ==
  /\ worker = "woken"
  /\ End
  /\ UNCHANGED <<closed, queue, wokeUp, dropCount, inHand, lpc, count, written, owed, history>>

-----------------------------------------------------------------------------
(* close() *)

Close ==
  /\ cpc = "open"
  /\ closed' = TRUE
  /\ cpc' = "running?"
  /\ UNCHANGED <<queue, wokeUp, dropCount, worker, inHand, lpc, count, written, owed, history>>

CloseIsRunning ==
  /\ cpc = "running?"
  /\ cpc' = IF isRunning THEN "drain" ELSE "closed"
  /\ UNCHANGED <<closed, queue, wokeUp, dropCount, worker, inHand, lpc, count, written, owed,
                 history>>

\* It sleeps until it finds the queue empty.
CloseDrains ==
  /\ cpc = "drain"
  /\ queue = <<>>
  /\ cpc' = "wake"
  /\ UNCHANGED <<closed, queue, wokeUp, dropCount, worker, inHand, lpc, count, written, owed,
                 history>>

\* wakeUpAll()
CloseWakes ==
  /\ cpc = "wake"
  /\ wokeUp' = TRUE
  /\ worker' = IF worker = "waiting" THEN "woken" ELSE worker
  /\ cpc' = "join"
  /\ UNCHANGED <<closed, queue, dropCount, inHand, lpc, count, written, owed, history>>

\* A defect: close() does not care whether the thread has ended.
CloseGivesUp ==
  /\ cpc = "join"
  /\ cpc' = "closed"
  /\ UNCHANGED <<closed, queue, wokeUp, dropCount, worker, inHand, lpc, count, written, owed,
                 history>>

\* A defect: wakeUpAll() is called once.
CloseTriesJoinOnce ==
  /\ cpc = "join"
  /\ ~isRunning
  /\ cpc' = "pthread_join"
  /\ UNCHANGED <<closed, queue, wokeUp, dropCount, worker, inHand, lpc, count, written, owed,
                 history>>

\* tryJoin(100): if the thread has not set "done" it is woken once more.
CloseTriesJoin ==
  /\ cpc = "join"
  /\ cpc' = IF isRunning THEN "wake" ELSE "pthread_join"
  /\ UNCHANGED <<closed, queue, wokeUp, dropCount, worker, inHand, lpc, count, written, owed,
                 history>>

\* It has set "done", and is joined.  If it was started again in the meantime, the
\* new thread is what pthread_join() waits for, without waking it.
ClosePthreadJoin ==
  /\ cpc = "pthread_join"
  /\ cpc' = IF isRunning THEN "joining" ELSE "closed"
  /\ UNCHANGED <<closed, queue, wokeUp, dropCount, worker, inHand, lpc, count, written, owed,
                 history>>

LogStep(l) == LogSize(l) \/ LogReport(l) \/ LogReset(l) \/ LogOpen(l) \/ LogEnqueue(l)
WorkerStep == Dequeue \/ Write \/ WriteThrows \/ RunEnds
CloseStep == CloseIsRunning \/ CloseDrains \/ CloseWakes \/ CloseTriesJoin \/ ClosePthreadJoin

Next == (\E l \in Loggers : Log(l) \/ LogStep(l)) \/ WorkerStep \/ Close \/ CloseStep

Spec == Init /\ [][Next]_channelVars

\* A thread inside log() or close(), and the background thread, go on.
Fairness ==
  /\ \A l \in Loggers : WF_channelVars(LogStep(l))
  /\ WF_channelVars(WorkerStep)
  /\ WF_channelVars(CloseStep)

FairSpec == Spec /\ Fairness

-----------------------------------------------------------------------------
(* Properties. *)

\* When close() has returned, every message whose log() had returned before close()
\* was called is written, unless it was dropped or the attached channel has thrown,
\* which ends the thread; and messages are written once, each logger's in the order
\* in which it logged them (log(), run(), close()).
CloseFlushes ==
  /\ cpc = "closed" /\ ~threw => owed \subseteq Written
  /\ \A i, j \in DOMAIN written :
       i < j /\ written[i][1] = written[j][1] /\ written[i] # Report => written[i][2] < written[j][2]

\* Two things alone can keep close() from returning: an attached channel that throws,
\* and a late log() that starts the thread between close()'s look at it and its join.
\* Other late messages, which clear _wokeUp or start the thread, do not (close(),
\* ThreadImpl::joinImpl(), open()).
CloseReturns == (cpc # "open") ~> (cpc = "closed" \/ threw \/ restarted)

\* What AsyncChannel.h says of close(), "Closes the channel and stops the background
\* logging thread": it comes back from that.  The code does not keep it: a late log()
\* can make it join a thread nobody wakes.
CloseStops == (cpc # "open") ~> (cpc = "closed")

=============================================================================
