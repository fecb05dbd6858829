------------------------- MODULE NotificationQueue -------------------------
(***************************************************************************)
(* Poco::NotificationQueue: a queue of notifications shared by any number  *)
(* of producers and consumers.                                             *)
(*                                                                         *)
(* A consumer that finds the queue empty allocates a WaitInfo (a slot for  *)
(* one notification and an auto-reset Event), links it into _waitQueue and *)
(* sleeps on the Event outside the queue's mutex.  A producer that finds a *)
(* waiter puts the notification straight into the waiter's slot, and never *)
(* into the queue.                                                         *)
(*                                                                         *)
(* Grain of atomicity: every critical section of _mutex is one action; the *)
(* steps a consumer takes outside the mutex (entering the Event's wait,    *)
(* waking, timing out) are actions of their own.  A thread waits for one   *)
(* WaitInfo at a time, so the WaitInfo is named by its thread.             *)
(***************************************************************************)
EXTENDS Naturals, Sequences

CONSTANTS
  Threads,        \* the consumers: threads that may call waitDequeueNotification
  Notifications,  \* the notification objects the clients own
  NoNf            \* the null Notification::Ptr

ASSUME NoNfAssumption == NoNf \notin Notifications

VARIABLES
  nfQueue,      \* _nfQueue
  waitQueue,    \* _waitQueue, the threads of the linked WaitInfos
  wokeUp,       \* _wokeUp
  pNf,          \* pNf[t]: WaitInfo::pNf of thread t's WaitInfo
  nfAvailable,  \* nfAvailable[t]: the state of WaitInfo::nfAvailable
  pc,           \* pc[t]: where t is in waitDequeueNotification
  timed,        \* timed[t]: t called the overload with a timeout
  accepted,     \* history: enqueued, and neither returned to a caller nor discarded
  returned      \* history: the notification most recently returned to a caller

vars ==
  <<nfQueue, waitQueue, wokeUp, pNf, nfAvailable, pc, timed, accepted, returned>>

Range(s) == {s[i] : i \in 1..Len(s)}

\* std::deque::erase of the first element that equals x (x occurs in s).
Erase(s, x) ==
  LET k == CHOOSE k \in 1..Len(s) : s[k] = x /\ \A j \in 1..(k - 1) : s[j] # x
  IN  [i \in 1..(Len(s) - 1) |-> IF i < k THEN s[i] ELSE s[i + 1]]

Waiting == {"registered", "blocked"}

TypeOK ==
  /\ nfQueue \in Seq(Notifications)
  /\ waitQueue \in Seq(Threads)
  /\ wokeUp \in BOOLEAN
  /\ pNf \in [Threads -> Notifications \cup {NoNf}]
  /\ nfAvailable \in [Threads -> BOOLEAN]
  /\ pc \in [Threads -> {"idle", "timedOut"} \cup Waiting]
  /\ timed \in [Threads -> BOOLEAN]
  /\ accepted \subseteq Notifications
  /\ returned \in Notifications \cup {NoNf}

Init ==
  /\ nfQueue = <<>>
  /\ waitQueue = <<>>
  /\ wokeUp = FALSE
  /\ pNf = [t \in Threads |-> NoNf]
  /\ nfAvailable = [t \in Threads |-> FALSE]
  /\ pc = [t \in Threads |-> "idle"]
  /\ timed = [t \in Threads |-> FALSE]
  /\ accepted = {}
  /\ returned = NoNf

-----------------------------------------------------------------------------
(* Producers.                                                              *)

\* The oldest waiter is unlinked, gets the notification and is woken.
HandOver(n) ==
  LET w == Head(waitQueue) IN
  /\ waitQueue' = Tail(waitQueue)
  /\ pNf' = [pNf EXCEPT ![w] = n]
  /\ nfAvailable' = [nfAvailable EXCEPT ![w] = TRUE]
  /\ UNCHANGED nfQueue

\* What both enqueue functions do; q is the queue with n pushed onto it.
\* A client enqueues an object that is not in the queue already.
Enqueue(n, q) ==
  /\ n \notin accepted
  /\ accepted' = accepted \cup {n}
  /\ wokeUp' = FALSE
  /\ \/ /\ waitQueue = <<>>
        /\ nfQueue' = q
        /\ UNCHANGED <<waitQueue, pNf, nfAvailable>>
     \/ /\ waitQueue # <<>>
        /\ HandOver(n)
  /\ UNCHANGED <<pc, timed, returned>>

enqueueNotification(n) == Enqueue(n, Append(nfQueue, n))

enqueueUrgentNotification(n) == Enqueue(n, <<n>> \o nfQueue)

-----------------------------------------------------------------------------
(* Consumers.                                                              *)

\* A defect: the newest notification is taken first.
DequeueNewest ==
  /\ nfQueue # <<>>
  /\ nfQueue' = SubSeq(nfQueue, 1, Len(nfQueue) - 1)
  /\ accepted' = accepted \ {nfQueue[Len(nfQueue)]}
  /\ returned' = nfQueue[Len(nfQueue)]
  /\ UNCHANGED <<waitQueue, wokeUp, pNf, nfAvailable, pc, timed>>

\* dequeueOne() on a non-empty queue; the caller returns the notification.
dequeueOne ==
  /\ nfQueue # <<>>
  /\ nfQueue' = Tail(nfQueue)
  /\ accepted' = accepted \ {Head(nfQueue)}
  /\ returned' = Head(nfQueue)
  /\ UNCHANGED <<waitQueue, wokeUp, pNf, nfAvailable, pc, timed>>

dequeueNotification == dequeueOne

\* new WaitInfo, linked at the end of _waitQueue.
Register(t, ms) ==
  /\ nfQueue = <<>>
  /\ ~wokeUp
  /\ waitQueue' = Append(waitQueue, t)
  /\ pc' = [pc EXCEPT ![t] = "registered"]
  /\ timed' = [timed EXCEPT ![t] = ms]
  /\ UNCHANGED <<nfQueue, wokeUp, pNf, nfAvailable, accepted, returned>>

\* Both overloads; ms: with a timeout.  With an empty queue and _wokeUp set
\* the call returns nullptr and changes nothing.
waitDequeueNotification(t, ms) ==
  /\ pc[t] = "idle"
  /\ dequeueOne \/ Register(t, ms)

\* t's call returns what its WaitInfo holds; the WaitInfo is deleted.
Return(t) ==
  /\ accepted' = accepted \ {pNf[t]}
  /\ returned' = IF pNf[t] = NoNf THEN returned ELSE pNf[t]
  /\ pNf' = [pNf EXCEPT ![t] = NoNf]
  /\ nfAvailable' = [nfAvailable EXCEPT ![t] = FALSE]
  /\ pc' = [pc EXCEPT ![t] = "idle"]

\* EventImpl::waitImpl entered: a set Event lets t pass, an unset one blocks it.
EventWait(t) ==
  /\ pc[t] = "registered"
  /\ \/ /\ nfAvailable[t]
        /\ Return(t)
     \/ /\ ~nfAvailable[t]
        /\ pc' = [pc EXCEPT ![t] = "blocked"]
        /\ UNCHANGED <<accepted, returned, pNf, nfAvailable>>
  /\ UNCHANGED <<nfQueue, waitQueue, wokeUp, timed>>

EventWake(t) ==
  /\ pc[t] = "blocked"
  /\ nfAvailable[t]
  /\ Return(t)
  /\ UNCHANGED <<nfQueue, waitQueue, wokeUp, timed>>

\* ETIMEDOUT ends the wait without another look at the Event's state, so a
\* timeout can win against a set() that has already happened.
EventTimeOut(t) ==
  /\ pc[t] = "blocked"
  /\ timed[t]
  /\ pc' = [pc EXCEPT ![t] = "timedOut"]
  /\ UNCHANGED <<nfQueue, waitQueue, wokeUp, pNf, nfAvailable, timed, accepted, returned>>

\* A defect: a call that timed out returns nullptr without looking at its slot.
TimedOutReturnsNull(t) ==
  /\ pc[t] = "timedOut"
  /\ UNCHANGED <<accepted, returned>>
  /\ pNf' = [pNf EXCEPT ![t] = NoNf]
  /\ nfAvailable' = [nfAvailable EXCEPT ![t] = FALSE]
  /\ pc' = [pc EXCEPT ![t] = "idle"]
  /\ waitQueue' = IF t \in Range(waitQueue) THEN Erase(waitQueue, t) ELSE waitQueue
  /\ UNCHANGED <<nfQueue, wokeUp, timed>>

\* A defect: the wait is restarted when it times out.
TimedOutRetries(t) ==
  /\ pc[t] = "timedOut"
  /\ pc' = [pc EXCEPT ![t] = "blocked"]
  /\ UNCHANGED <<nfQueue, waitQueue, wokeUp, pNf, nfAvailable, timed, accepted, returned>>

\* The loop that finds and erases t's WaitInfo, if it is still linked.
Unlink(t) == IF t \in Range(waitQueue) THEN Erase(waitQueue, t) ELSE waitQueue

\* The critical section after a timeout: it returns a notification that was
\* handed over between the timeout and the lock.
TimedOut(t) ==
  /\ pc[t] = "timedOut"
  /\ Return(t)
  /\ waitQueue' = Unlink(t)
  /\ UNCHANGED <<nfQueue, wokeUp, timed>>

-----------------------------------------------------------------------------
(* Control.                                                                *)

\* A defect: the waiters are unlinked without being signalled.
WakeUpAllForgetsSet ==
  /\ wokeUp' = TRUE
  /\ waitQueue' = <<>>
  /\ UNCHANGED <<nfQueue, nfAvailable, pNf, pc, timed, accepted, returned>>

wakeUpAll ==
  /\ wokeUp' = TRUE
  /\ nfAvailable' = [t \in Threads |-> nfAvailable[t] \/ t \in Range(waitQueue)]
  /\ waitQueue' = <<>>
  /\ UNCHANGED <<nfQueue, pNf, pc, timed, accepted, returned>>

clear ==
  /\ nfQueue # <<>>
  /\ nfQueue' = <<>>
  /\ accepted' = accepted \ Range(nfQueue)
  /\ UNCHANGED <<waitQueue, wokeUp, pNf, nfAvailable, pc, timed, returned>>

\* In one critical section, notification after notification leaves the queue and is
\* posted to a NotificationCenter.  An observer that throws ends this: the one it was
\* called for is gone, those behind it stay.
dispatch ==
  /\ \E k \in 1..Len(nfQueue) :
        /\ nfQueue' = SubSeq(nfQueue, k + 1, Len(nfQueue))
        /\ accepted' = accepted \ {nfQueue[i] : i \in 1..k}
  /\ UNCHANGED <<waitQueue, wokeUp, pNf, nfAvailable, pc, timed, returned>>

remove(n) ==
  /\ n \in Range(nfQueue)
  /\ nfQueue' = Erase(nfQueue, n)
  /\ accepted' = accepted \ {n}
  /\ UNCHANGED <<waitQueue, wokeUp, pNf, nfAvailable, pc, timed, returned>>

size == Len(nfQueue)

empty == nfQueue = <<>>

hasIdleThreads == waitQueue # <<>>

-----------------------------------------------------------------------------
Consume(t) == EventWait(t) \/ EventWake(t) \/ EventTimeOut(t) \/ TimedOut(t)

Next ==
  \/ \E n \in Notifications : \/ enqueueNotification(n)
                              \/ enqueueUrgentNotification(n)
                              \/ remove(n)
  \/ \E t \in Threads, ms \in BOOLEAN : waitDequeueNotification(t, ms)
  \/ \E t \in Threads : Consume(t)
  \/ dequeueNotification
  \/ wakeUpAll
  \/ clear
  \/ dispatch

Spec == Init /\ [][Next]_vars

\* A consumer inside waitDequeueNotification keeps running: the operating
\* system schedules it, an Event that is set wakes its waiter and a timed wait
\* ends.  Nothing is assumed of producers or of calls not yet made.
Fairness == \A t \in Threads : WF_vars(Consume(t))

FairSpec == Spec /\ Fairness

-----------------------------------------------------------------------------
(* Properties.                                                             *)

Held == {pNf[t] : t \in Threads} \ {NoNf}

Injective(s) == \A i, j \in 1..Len(s) : i # j => s[i] # s[j]

\* Exactly-once delivery: a notification that was enqueued and neither returned
\* nor discarded is in exactly one place, the queue or the slot of one waiter;
\* and nothing else is there.  A timeout racing a hand-over loses nothing.
ExactlyOnce ==
  /\ accepted = Range(nfQueue) \cup Held
  /\ Range(nfQueue) \cap Held = {}
  /\ Injective(nfQueue)
  /\ \A t, u \in Threads : t # u /\ pNf[t] # NoNf => pNf[t] # pNf[u]

\* A consumer sleeps only while the queue is empty (what the debug assertion of
\* PriorityNotificationQueue::enqueueNotification says of the sibling class), so
\* hasIdleThreads() means there is no backlog.
WaitersMeanEmptyQueue == waitQueue # <<>> => nfQueue = <<>>

\* _waitQueue holds no WaitInfo that its thread has deleted, and none twice, so
\* the pointers enqueueNotification() and wakeUpAll() follow are valid.
NoDanglingWaitInfo ==
  /\ \A t \in Range(waitQueue) : pc[t] # "idle"
  /\ Injective(waitQueue)

\* A sleeping consumer is either linked, so that a producer can find it, or its
\* Event is set: no wakeup is lost between the unlock and the wait.
LinkedOrSignalled ==
  \A t \in Threads :
    pc[t] \in Waiting => (nfAvailable[t] <=> t \notin Range(waitQueue))

\* Between wakeUpAll() and the next enqueue nobody is linked and nobody links
\* itself, so a worker that missed the broadcast does not sleep through it.
WokeUpMeansNobodySleeps == wokeUp => waitQueue = <<>>

\* Nobody sleeps who has something to wake up for: a consumer that was handed a
\* notification or woken has its Event set, nobody is linked next to a backlog, and
\* nobody sleeps through a wakeUpAll() it came too late for (enqueueNotification(),
\* waitDequeueNotification(), wakeUpAll()).
NoLostWakeup == LinkedOrSignalled /\ WaitersMeanEmptyQueue /\ WokeUpMeansNobodySleeps

\* What the Event of a WaitInfo stands for: it is set only once the WaitInfo is
\* unlinked, a filled slot has its Event set, a deleted WaitInfo is blank.
SlotsMatchEvents ==
  \A t \in Threads :
    /\ nfAvailable[t] => t \notin Range(waitQueue) /\ pc[t] # "idle"
    /\ pNf[t] # NoNf => nfAvailable[t]

\* The inductive invariant behind all of the above.
IInv ==
  /\ TypeOK
  /\ ExactlyOnce
  /\ WaitersMeanEmptyQueue
  /\ NoDanglingWaitInfo
  /\ LinkedOrSignalled
  /\ WokeUpMeansNobodySleeps
  /\ SlotsMatchEvents

\* A consumer that was woken or handed a notification returns from its call of
\* waitDequeueNotification(), and a call with a timeout returns whatever happens.
WaitReturns ==
  \A t \in Threads : (pc[t] # "idle" /\ (nfAvailable[t] \/ timed[t])) ~> pc[t] = "idle"

\* The queue keeps the contract its clients rely on: in-order, exactly-once
\* delivery, hand-over past the queue only when nothing is pending, and receipt.
Contract == INSTANCE DeliveryContract WITH
  Consumers <- Threads, Items <- Notifications, None <- NoNf,
  pending <- nfQueue, given <- pNf, delivered <- returned

ImplementsContract == Contract!Spec

=============================================================================
