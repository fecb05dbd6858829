----------------------- MODULE TimedNotificationQueue -----------------------
(***************************************************************************)
(* Poco::TimedNotificationQueue: producers insert notifications into a     *)
(* multimap ordered by clock value and set an auto-reset Event.  The one   *)
(* consumer the class allows looks at the first entry under the mutex,     *)
(* releases the mutex, and sleeps on the Event until the entry is due,     *)
(* keeping only the multimap's iterator: an earlier entry may arrive at    *)
(* any point in between, and the sleep's timeout may race with it.         *)
(*                                                                         *)
(* The clock counts microseconds and Events wait for milliseconds; here a  *)
(* millisecond has Ms ticks.  Time passes freely between any two steps.    *)
(***************************************************************************)
EXTENDS Integers, Sequences, FiniteSets

CONSTANTS
  Notifications,
  Latest,     \* bound: the latest clock value a notification is enqueued for
  MaxTime,    \* bound: the clock stops here
  Timeouts,   \* the timeouts, in milliseconds, waitDequeueNotification() is given
  Ms,         \* clock ticks in a millisecond
  MaxSleep,   \* MAX_SLEEP, in ticks
  None

ASSUME ConstantsAssumption ==
  /\ Latest \in Nat /\ Ms \in Nat \ {0}
  /\ MaxTime \in Nat /\ Latest + Ms <= MaxTime
  /\ Timeouts \subseteq Int
  /\ MaxSleep \in Nat \ {0} /\ MaxSleep % Ms = 0
  /\ None \notin Notifications \cup [time : 0..MaxTime, nf : Notifications]

VARIABLES
  nfQueue,      \* entries [time, nf] in the multimap's order
  nfAvailable,  \* the auto-reset Event
  now,          \* the monotonic clock
  pc,           \* where the consumer is
  timed,        \* it is in waitDequeueNotification(long)
  milliseconds, \* and this is what is left of its argument
  it,           \* the entry its iterator points to
  interval,     \* wait()'s argument, what is left of it
  begun,        \* the clock value read in the current round of the loop
  since,        \* the clock value at the start of the current tryWait()
  returned      \* the notification most recently returned to the caller

calling == <<timed, milliseconds, it, interval, begun, since>>
vars == <<nfQueue, nfAvailable, now, pc, calling, returned>>

Clock == 0..MaxTime
Entries == [time : Clock, nf : Notifications]

TypeOK ==
  /\ nfQueue \in Seq(Entries)
  /\ nfAvailable \in BOOLEAN
  /\ now \in Clock
  /\ pc \in {"idle", "loop", "peeked", "wait", "block", "tryWait", "take"}
  /\ timed \in BOOLEAN
  /\ milliseconds \in Int /\ \E m \in Timeouts \cup {0} : milliseconds <= m
  /\ it \in Entries \cup {None}
  /\ interval \in Int
  /\ begun \in Clock /\ since \in Clock
  /\ returned \in Notifications \cup {None}

Init ==
  /\ nfQueue = <<>> /\ nfAvailable = FALSE /\ now = 0
  /\ pc = "idle"
  /\ timed = FALSE /\ milliseconds = 0 /\ it = None
  /\ interval = 0 /\ begun = 0 /\ since = 0
  /\ returned = None

-----------------------------------------------------------------------------
(* The multimap. *)

Content(q) == {q[i].nf : i \in 1..Len(q)}
EntriesOf(q) == {q[i] : i \in 1..Len(q)}
begin == nfQueue[1]
Due(e) == e.time <= now

\* The consumer holds an iterator.
Holding == pc \in {"peeked", "wait", "take"}

\* Bug: a std::map, in which an entry takes the place of one with the same key.
InsertReplaces(q, e) ==
  LET k == Cardinality({i \in 1..Len(q) : q[i].time < e.time})
      l == Cardinality({i \in 1..Len(q) : q[i].time <= e.time})
  IN  SubSeq(q, 1, k) \o <<e>> \o SubSeq(q, l + 1, Len(q))

\* insert() puts an entry behind those with an equal key.
insert(q, e) ==
  LET k == Cardinality({i \in 1..Len(q) : q[i].time <= e.time})
  IN  SubSeq(q, 1, k) \o <<e>> \o SubSeq(q, k + 1, Len(q))

\* erase() of the entry an iterator points to (e occurs in q).
erase(q, e) ==
  LET k == CHOOSE i \in 1..Len(q) : q[i] = e
  IN  SubSeq(q, 1, k - 1) \o SubSeq(q, k + 1, Len(q))

-----------------------------------------------------------------------------
(* Producers. *)

\* Bug: the Event is set only when the queue was empty.
EnqueueSetsOnlyWhenEmpty(n, t) ==
  /\ n \notin Content(nfQueue)
  /\ nfQueue' = insert(nfQueue, [time |-> t, nf |-> n])
  /\ nfAvailable' = (nfAvailable \/ nfQueue = <<>>)
  /\ UNCHANGED <<now, pc, calling, returned>>

\* Bug: the Event is not set.
EnqueueWithoutSet(n, t) ==
  /\ n \notin Content(nfQueue)
  /\ nfQueue' = insert(nfQueue, [time |-> t, nf |-> n])
  /\ UNCHANGED <<nfAvailable, now, pc, calling, returned>>

\* Both overloads: a Timestamp is turned into a clock value before the lock.
enqueueNotification(n, t) ==
  /\ n \notin Content(nfQueue)
  /\ nfQueue' = insert(nfQueue, [time |-> t, nf |-> n])
  /\ nfAvailable' = TRUE
  /\ UNCHANGED <<now, pc, calling, returned>>

-----------------------------------------------------------------------------
(* The consumer, without waiting. *)

TakeFirst ==
  /\ nfQueue' = Tail(nfQueue)
  /\ returned' = begin.nf
  /\ UNCHANGED <<nfAvailable, now, pc, calling>>

dequeueNotification ==
  /\ pc = "idle"
  /\ nfQueue # <<>> /\ Due(begin)
  /\ TakeFirst

dequeueNextNotification ==
  /\ pc = "idle"
  /\ nfQueue # <<>>
  /\ TakeFirst

\* Undefined, says the class, while a dequeue is under way.
clear ==
  /\ pc = "idle"
  /\ nfQueue # <<>>
  /\ nfQueue' = <<>>
  /\ UNCHANGED <<nfAvailable, now, pc, calling, returned>>

-----------------------------------------------------------------------------
(* The consumer, waiting. *)

\* Ticks in whole milliseconds, rounded up: (x + 999)/1000.
CeilMs(x) == (x + Ms - 1) \div Ms

\* A wait begins, with no timeout or with timeout m.  The bound on m keeps its
\* expiry within the modelled time.
CallWait(hasTimeout, m) ==
  /\ pc = "idle"
  /\ now + m * Ms <= MaxTime
  /\ pc' = "loop"
  /\ timed' = hasTimeout /\ milliseconds' = m
  /\ UNCHANGED <<nfQueue, nfAvailable, now, it, interval, begun, since, returned>>

waitDequeueNotification == CallWait(FALSE, 0)

waitDequeueNotificationMs(m) == CallWait(TRUE, m)

\* A call ends and its locals with it.
Return ==
  /\ pc' = "idle"
  /\ timed' = FALSE /\ milliseconds' = 0 /\ it' = None
  /\ interval' = 0 /\ begun' = 0 /\ since' = 0

ReturnNull == Return /\ UNCHANGED returned

\* The condition of the timed loop; the other one runs until it returns.
LoopGoesOn == timed => milliseconds >= 0

\* The top of the loop: look at the first entry, under the mutex.
Peek ==
  /\ pc = "loop"
  /\ IF LoopGoesOn
     THEN IF nfQueue # <<>>
          THEN /\ pc' = "peeked" /\ it' = begin
               /\ UNCHANGED <<timed, milliseconds, interval, begun, since, returned>>
          ELSE /\ pc' = "block" /\ it' = None
               /\ UNCHANGED <<timed, milliseconds, interval, begun, since, returned>>
     ELSE ReturnNull
  /\ UNCHANGED <<nfQueue, nfAvailable, now>>

\* With the mutex released: take the entry if it is due, sleep until it is if
\* the timeout allows, wait for another one if not.
Decide ==
  /\ pc = "peeked"
  /\ LET sleep == it.time - now
     IN  \/ /\ sleep <= 0
            /\ pc' = "take"
            /\ UNCHANGED <<interval, begun, since>>
         \/ /\ sleep > 0
            /\ ~timed \/ sleep <= Ms * milliseconds
            /\ pc' = "wait"
            /\ interval' = sleep
            /\ begun' = now /\ since' = now
         \/ /\ sleep > 0
            /\ timed /\ sleep > Ms * milliseconds
            /\ pc' = "block"
            /\ UNCHANGED <<interval, begun, since>>
  /\ UNCHANGED <<nfQueue, nfAvailable, now, timed, milliseconds, it, returned>>

\* Time spent since the round's clock was read is taken off the timeout.
Spend(from) == milliseconds' = IF timed THEN milliseconds - CeilMs(now - from) ELSE milliseconds

\* wait(): the Event is set; the loop starts over.
WaitSignalled ==
  /\ pc = "wait"
  /\ nfAvailable
  /\ nfAvailable' = FALSE
  /\ pc' = "loop"
  /\ it' = None
  /\ Spend(begun)
  /\ UNCHANGED <<nfQueue, now, timed, interval, begun, since, returned>>

\* What tryWait() in wait() is called with.
Slice == CeilMs(IF interval <= MaxSleep THEN interval ELSE MaxSleep) * Ms

\* Bug: a sleep cut off at MAX_SLEEP counts as the whole sleep.
WaitOnlyOnce ==
  /\ pc = "wait"
  /\ now - since >= Slice
  /\ pc' = "take"
  /\ interval' = 0
  /\ UNCHANGED <<nfQueue, nfAvailable, now, timed, milliseconds, it, begun, since, returned>>

\* wait(): tryWait() times out, although the Event may just have been set.
WaitTimesOut ==
  /\ pc = "wait"
  /\ now - since >= Slice
  /\ interval' = interval - (now - since)
  /\ since' = now
  /\ pc' = IF interval' > 0 THEN "wait" ELSE "take"
  /\ UNCHANGED <<nfQueue, nfAvailable, now, timed, milliseconds, it, begun, returned>>

\* No entry, or none that will be due in time.
BlockForever ==
  /\ pc = "block"
  /\ ~timed
  /\ nfAvailable
  /\ nfAvailable' = FALSE
  /\ pc' = "loop"
  /\ UNCHANGED <<nfQueue, now, calling, returned>>

BlockTimed ==
  /\ pc = "block"
  /\ timed
  /\ IF milliseconds > 0
     THEN /\ pc' = "tryWait"
          /\ since' = now
          /\ UNCHANGED <<timed, milliseconds, it, interval, begun, returned>>
     ELSE ReturnNull
  /\ UNCHANGED <<nfQueue, nfAvailable, now>>

TryWaitEnds ==
  /\ pc = "tryWait"
  /\ \/ nfAvailable /\ nfAvailable' = FALSE
     \/ now - since >= milliseconds * Ms /\ UNCHANGED nfAvailable
  /\ pc' = "loop"
  /\ it' = None
  /\ Spend(since)
  /\ UNCHANGED <<nfQueue, now, timed, interval, begun, since, returned>>

\* The entry the iterator points to leaves, whatever is first by now.
dequeueOne ==
  /\ pc = "take"
  /\ nfQueue' = erase(nfQueue, it)
  /\ Return
  /\ returned' = it.nf
  /\ UNCHANGED <<nfAvailable, now>>

\* Bound: the clock does not run past the point from which a timeout could still
\* expire within the modelled time.
TimeLeft ==
  /\ now < MaxTime
  /\ pc \in {"loop", "peeked", "block"} /\ timed /\ milliseconds > 0
       => now + milliseconds * Ms < MaxTime

Tick ==
  /\ TimeLeft
  /\ now' = now + 1
  /\ UNCHANGED <<nfQueue, nfAvailable, pc, calling, returned>>

-----------------------------------------------------------------------------
WaitStep ==
  \/ Peek
  \/ Decide
  \/ WaitSignalled
  \/ WaitTimesOut
  \/ BlockForever
  \/ BlockTimed
  \/ TryWaitEnds
  \/ dequeueOne

Next ==
  \/ \E n \in Notifications, t \in 0..Latest : enqueueNotification(n, t)
  \/ dequeueNotification
  \/ dequeueNextNotification
  \/ clear
  \/ waitDequeueNotification
  \/ \E m \in Timeouts : waitDequeueNotificationMs(m)
  \/ WaitStep
  \/ Tick

Spec == Init /\ [][Next]_vars

\* The consumer's thread keeps running and time passes.
FairSpec == Spec /\ WF_vars(WaitStep) /\ WF_vars(Tick)

-----------------------------------------------------------------------------
(* Properties. *)

\* The iterator that waitDequeueNotification() keeps while the mutex is released
\* stays valid: its entry is still in the multimap when dequeueOne() erases it.
IteratorValid == Holding => it \in EntriesOf(nfQueue)

\* The consumer never sleeps past a notification: when it sleeps, or is about to,
\* and something has been enqueued before the entry it looked at (or anything at
\* all, if it saw none), then the Event is set and will end the sleep.
NoOversleep ==
  pc \in {"peeked", "wait", "block", "tryWait"} /\ nfQueue # <<>> /\ begin # it
    => nfAvailable

TD == INSTANCE TimedDelivery WITH
        Times <- 0..Latest,
        queue <- nfQueue,
        candidate <- IF Holding THEN it ELSE None,
        delivered <- returned

\* The queue keeps TimedDelivery's promise: what a wait returns is an entry that was
\* first when the consumer looked, and is due; it leaves the queue then, and alone.
ImplementsTimedDelivery == TD!Spec

\* waitDequeueNotification() without a timeout returns once something is queued,
\* however often producers interrupt its sleep.
WaitReturns == pc # "idle" /\ nfQueue # <<>> ~> pc = "idle"

=============================================================================
