---------------------------- MODULE TimedDelivery ----------------------------
(***************************************************************************)
(* What a TimedNotificationQueue promises its one consumer: notifications  *)
(* are ordered by time, those of equal time by arrival; a wait returns a   *)
(* notification that was the first one when the consumer last looked, and  *)
(* is due; it leaves the queue when it is returned, and nothing else does. *)
(***************************************************************************)
EXTENDS Naturals, Sequences

CONSTANTS
  Notifications,
  Times,    \* the clock values notifications are enqueued for
  MaxTime,  \* bound: the clock stops here
  None

VARIABLES
  queue,     \* entries [time, nf], in the order in which they are to leave
  now,       \* the monotonic clock
  candidate, \* the entry a waiting consumer is looking at, or None
  delivered  \* the notification that most recently reached the consumer

tvars == <<queue, now, candidate, delivered>>

\* The notifications in a queue.
Content(q) == {q[i].nf : i \in 1..Len(q)}

\* Place k is behind every entry whose time is not later than t, and in front of the
\* others.
PlaceFor(q, t, k) ==
  /\ \A i \in 1..k : q[i].time <= t
  /\ \A i \in (k + 1)..Len(q) : q[i].time > t

\* The queue with e behind place k.
Insert(q, e, k) == SubSeq(q, 1, k) \o <<e>> \o SubSeq(q, k + 1, Len(q))

\* The queue without its k-th entry.
Without(q, k) == SubSeq(q, 1, k - 1) \o SubSeq(q, k + 1, Len(q))

Init ==
  /\ queue = <<>>
  /\ now = 0
  /\ candidate = None
  /\ delivered = None

Enqueue(n, t) ==
  /\ n \notin Content(queue)
  /\ \E k \in 0..Len(queue) :
        /\ PlaceFor(queue, t, k)
        /\ queue' = Insert(queue, [time |-> t, nf |-> n], k)
  /\ UNCHANGED <<now, candidate, delivered>>

\* The consumer looks at the first entry, for the first time or again.
Look ==
  /\ queue # <<>>
  /\ candidate' = queue[1]
  /\ UNCHANGED <<queue, now, delivered>>

\* It gives up the entry it has been looking at.
Forget ==
  /\ candidate' = None
  /\ UNCHANGED <<queue, now, delivered>>

Deliver ==
  /\ candidate # None
  /\ candidate.time <= now
  /\ \E k \in 1..Len(queue) : queue[k] = candidate /\ queue' = Without(queue, k)
  /\ delivered' = candidate.nf
  /\ candidate' = None
  /\ UNCHANGED now

\* Without waiting: the first notification, due or not.
TakeNext ==
  /\ candidate = None
  /\ queue # <<>>
  /\ queue' = Tail(queue)
  /\ delivered' = queue[1].nf
  /\ UNCHANGED <<now, candidate>>

\* Only the consumer may clear the queue, and not from within a wait.
Clear ==
  /\ candidate = None
  /\ queue' = <<>>
  /\ UNCHANGED <<now, candidate, delivered>>

Tick ==
  /\ now < MaxTime
  /\ now' = now + 1
  /\ UNCHANGED <<queue, candidate, delivered>>

Next ==
  \/ \E n \in Notifications, t \in Times : Enqueue(n, t)
  \/ Look
  \/ Forget
  \/ Deliver
  \/ TakeNext
  \/ Clear
  \/ Tick

Spec == Init /\ [][Next]_tvars

=============================================================================
