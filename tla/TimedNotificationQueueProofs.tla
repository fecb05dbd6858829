-------------------- MODULE TimedNotificationQueueProofs --------------------
(***************************************************************************)
(* Proofs, for any notifications, times, timeouts and sleeps, that the     *)
(* consumer's iterator stays valid, that it never sleeps past an entry,    *)
(* that the multimap stays in order, and that the queue implements         *)
(* TimedDelivery.                                                          *)
(***************************************************************************)
EXTENDS TimedNotificationQueue, FiniteSetTheorems, SequenceTheorems, TLAPS

-----------------------------------------------------------------------------
(* The multimap: what insert() and erase() do, entry by entry. *)

\* The entries in front of which insert() puts a new one with time t.
NotLater(q, t) == {i \in 1..Len(q) : q[i].time <= t}

\* The place insert() finds is a place of the queue.
LEMMA InsertPlace ==
  ASSUME NEW S, NEW q \in Seq(S), NEW t
  PROVE  Cardinality(NotLater(q, t)) \in 0..Len(q) /\ IsFiniteSet(NotLater(q, t))
  <1>1. IsFiniteSet(1..Len(q)) /\ Cardinality(1..Len(q)) = Len(q)
    <2>1. Len(q) \in Nat OBVIOUS
    <2>2. 1 \in Int /\ Len(q) \in Int BY <2>1
    <2>3. IsFiniteSet(1..Len(q)) BY <2>2, FS_Interval
    <2>4. Cardinality(1..Len(q)) = IF 1 > Len(q) THEN 0 ELSE Len(q) - 1 + 1
      BY <2>2, FS_Interval
    <2> QED BY <2>1, <2>3, <2>4
  <1>2. NotLater(q, t) \in SUBSET (1..Len(q)) BY DEF NotLater
  <1>3. /\ IsFiniteSet(NotLater(q, t))
        /\ Cardinality(NotLater(q, t)) <= Cardinality(1..Len(q))
    BY <1>1, <1>2, FS_Subset
  <1>4. Cardinality(NotLater(q, t)) \in Nat BY <1>3, FS_CardinalityType
  <1> QED BY <1>1, <1>3, <1>4

\* insert() keeps every entry in its order and adds the new one behind place k.
LEMMA InsertEntries ==
  ASSUME NEW S, NEW q \in Seq(S), NEW e \in S
  PROVE  LET s == insert(q, e)
             k == Cardinality(NotLater(q, e.time))
         IN  /\ s \in Seq(S) /\ Len(s) = Len(q) + 1
             /\ \A i \in 1..Len(s) :
                  s[i] = IF i <= k THEN q[i] ELSE IF i = k + 1 THEN e ELSE q[i - 1]
  <1> DEFINE k == Cardinality(NotLater(q, e.time))
             a == SubSeq(q, 1, k)
             b == SubSeq(q, k + 1, Len(q))
             s == insert(q, e)
  <1>1. k \in 0..Len(q) BY InsertPlace
  <1>2. s = (a \o <<e>>) \o b BY DEF insert, NotLater
  <1> HIDE DEF k, s
  <1>3. Len(q) \in Nat OBVIOUS
  <1>4. a \in Seq(S) /\ Len(a) = k /\ \A i \in 1..k : a[i] = q[i]
    BY <1>1, <1>3, SubSeqProperties
  <1>5. b \in Seq(S) /\ Len(b) = Len(q) - k /\ \A i \in 1..(Len(q) - k) : b[i] = q[k + i]
    BY <1>1, <1>3
  <1> DEFINE c == a \o <<e>>
  <1> HIDE DEF a, b
  <1>6. c \in Seq(S) /\ Len(c) = k + 1 /\ \A i \in 1..(k + 1) : c[i] = IF i <= k THEN q[i] ELSE e
    BY <1>1, <1>4
  <1>9. s = c \o b BY <1>2
  <1> HIDE DEF c
  <1>7. s \in Seq(S) /\ Len(s) = Len(q) + 1
    <2>1. s \in Seq(S) /\ Len(s) = Len(c) + Len(b) BY <1>5, <1>6, <1>9, ConcatProperties
    <2> QED BY <2>1, <1>1, <1>3, <1>5, <1>6
  <1>8. \A i \in 1..Len(s) :
           s[i] = IF i <= k THEN q[i] ELSE IF i = k + 1 THEN e ELSE q[i - 1]
    <2> SUFFICES ASSUME NEW i \in 1..Len(s)
                 PROVE  s[i] = IF i <= k THEN q[i] ELSE IF i = k + 1 THEN e ELSE q[i - 1]
      OBVIOUS
    <2>1. CASE i <= k + 1
      <3>1. s[i] = c[i] BY <1>9, <1>5, <1>6, <1>7, <2>1, <1>1
      <3> QED BY <3>1, <1>6, <2>1, <1>1
    <2>2. CASE i > k + 1
      <3>1. i - (k + 1) \in 1..Len(b) /\ s[i] = b[i - (k + 1)]
        BY <1>9, <1>3, <1>5, <1>6, <1>7, <2>2, <1>1
      <3>2. b[i - (k + 1)] = q[i - 1] BY <3>1, <1>5, <1>1, <1>3
      <3> QED BY <3>1, <3>2, <2>2, <1>1
    <2> QED BY <2>1, <2>2, <1>1
  <1> QED BY <1>7, <1>8 DEF k, s

\* erase() removes one entry, the one asked for, and leaves the others in order.
LEMMA EraseEntries ==
  ASSUME NEW S, NEW q \in Seq(S), NEW e \in EntriesOf(q)
  PROVE  \E k \in 1..Len(q) :
           /\ q[k] = e
           /\ erase(q, e) = SubSeq(q, 1, k - 1) \o SubSeq(q, k + 1, Len(q))
           /\ erase(q, e) \in Seq(S) /\ Len(erase(q, e)) = Len(q) - 1
           /\ \A i \in 1..(Len(q) - 1) : erase(q, e)[i] = IF i < k THEN q[i] ELSE q[i + 1]
  <1> DEFINE k == CHOOSE i \in 1..Len(q) : q[i] = e
             a == SubSeq(q, 1, k - 1)
             b == SubSeq(q, k + 1, Len(q))
             s == erase(q, e)
  <1>1. k \in 1..Len(q) /\ q[k] = e BY DEF EntriesOf
  <1>2. s = a \o b BY DEF erase
  <1> HIDE DEF k, s
  <1>3. Len(q) \in Nat OBVIOUS
  <1>4. a \in Seq(S) /\ Len(a) = k - 1 /\ \A i \in 1..(k - 1) : a[i] = q[i]
    BY <1>1, <1>3
  <1>5. b \in Seq(S) /\ Len(b) = Len(q) - k /\ \A i \in 1..(Len(q) - k) : b[i] = q[k + i]
    BY <1>1, <1>3
  <1>6. s = SubSeq(q, 1, k - 1) \o SubSeq(q, k + 1, Len(q)) BY <1>2
  <1> HIDE DEF a, b
  <1>7. s \in Seq(S) /\ Len(s) = Len(q) - 1
    <2>1. s \in Seq(S) /\ Len(s) = Len(a) + Len(b) BY <1>2, <1>4, <1>5, ConcatProperties
    <2> QED BY <2>1, <1>1, <1>3, <1>4, <1>5
  <1>8. \A i \in 1..(Len(q) - 1) : s[i] = IF i < k THEN q[i] ELSE q[i + 1]
    <2> SUFFICES ASSUME NEW i \in 1..(Len(q) - 1)
                 PROVE  s[i] = IF i < k THEN q[i] ELSE q[i + 1]
      OBVIOUS
    <2>1. CASE i < k
      <3>1. s[i] = a[i] BY <1>1, <1>2, <1>3, <1>4, <1>5, <2>1
      <3> QED BY <3>1, <1>4, <2>1, <1>1
    <2>2. CASE i >= k
      <3>1. i - (k - 1) \in 1..Len(b) /\ s[i] = b[i - (k - 1)]
        BY <1>1, <1>2, <1>3, <1>4, <1>5, <2>2
      <3>2. b[i - (k - 1)] = q[i + 1] BY <3>1, <1>5, <1>1, <1>3
      <3> QED BY <3>1, <3>2, <2>2, <1>1
    <2> QED BY <2>1, <2>2, <1>1
  <1> QED BY <1>1, <1>6, <1>7, <1>8 DEF s

-----------------------------------------------------------------------------
(* The multimap stays in order. *)

\* Earlier entries come first.
Ordered(q) == \A i, j \in 1..Len(q) : i < j => q[i].time <= q[j].time

\* Clock values are numbers.
LEMMA EntryTime ==
  ASSUME NEW e \in Entries
  PROVE  e.time \in Int /\ e.time \in Clock /\ e.nf \in Notifications
  <1>1. e.time \in Clock /\ e.nf \in Notifications BY DEF Entries
  <1> QED BY <1>1, ConstantsAssumption DEF Clock

\* In an ordered queue the entries that are not later than t are the first ones.
LEMMA OrderedPrefix ==
  ASSUME NEW q \in Seq(Entries), Ordered(q), NEW t \in Int
  PROVE  NotLater(q, t) = 1..Cardinality(NotLater(q, t))
  <1> DEFINE S == NotLater(q, t)
             k == Cardinality(S)
  <1>1. k \in 0..Len(q) /\ IsFiniteSet(S) BY InsertPlace
  <1>2. \A i \in 1..Len(q) : q[i].time \in Int
    <2>1. \A i \in 1..Len(q) : q[i] \in Entries OBVIOUS
    <2> QED BY <2>1, EntryTime
  <1>3. ASSUME NEW i \in S PROVE i \in 1..k
    <2>1. i \in 1..Len(q) /\ q[i].time <= t BY <1>3 DEF NotLater
    <2>2. 1..i \subseteq S
      <3> SUFFICES ASSUME NEW j \in 1..i PROVE j \in S
        OBVIOUS
      <3>1. j \in 1..Len(q) BY <2>1
      <3>2. q[j].time <= q[i].time BY <2>1, <3>1, <1>2 DEF Ordered
      <3>3. q[j].time <= t BY <2>1, <3>1, <3>2, <1>2
      <3> QED BY <3>1, <3>3 DEF NotLater
    <2>3. Cardinality(1..i) <= k BY <1>1, <2>2, FS_Subset
    <2>4. Cardinality(1..i) = i
      <3>1. 1 \in Int /\ i \in Int /\ i >= 1 BY <2>1
      <3>2. Cardinality(1..i) = IF 1 > i THEN 0 ELSE i - 1 + 1 BY <3>1, FS_Interval
      <3> QED BY <3>1, <3>2
    <2> HIDE DEF k
    <2> QED BY <1>1, <2>1, <2>3, <2>4
  <1>4. IsFiniteSet(1..k) /\ Cardinality(1..k) = k
    <2> HIDE DEF k
    <2>1. 1 \in Int /\ k \in Int /\ k >= 0 BY <1>1
    <2>2. IsFiniteSet(1..k) /\ Cardinality(1..k) = IF 1 > k THEN 0 ELSE k - 1 + 1
      BY <2>1, FS_Interval
    <2> QED BY <2>1, <2>2
  <1>5. S \in SUBSET (1..k) BY <1>3
  <1>6. Cardinality(1..k) = Cardinality(S) BY <1>4
  <1>7. 1..k = S BY <1>4, <1>5, <1>6, FS_Subset
  <1> QED BY <1>7

\* insert() keeps the order: the new entry comes behind those that are not later.
LEMMA InsertOrdered ==
  ASSUME NEW q \in Seq(Entries), Ordered(q), NEW e \in Entries
  PROVE  Ordered(insert(q, e))
  <1> DEFINE s == insert(q, e)
             k == Cardinality(NotLater(q, e.time))
  <1>1. /\ s \in Seq(Entries) /\ Len(s) = Len(q) + 1
        /\ \A i \in 1..Len(s) :
             s[i] = IF i <= k THEN q[i] ELSE IF i = k + 1 THEN e ELSE q[i - 1]
    BY InsertEntries
  <1>2. e.time \in Int /\ \A i \in 1..Len(q) : q[i].time \in Int
    <2>1. \A i \in 1..Len(q) : q[i] \in Entries OBVIOUS
    <2> QED BY <2>1, EntryTime
  <1>3. k \in 0..Len(q) /\ NotLater(q, e.time) = 1..k BY <1>2, InsertPlace, OrderedPrefix
  <1> HIDE DEF s, k
  <1>4. \A i \in 1..Len(q) : i <= k <=> q[i].time <= e.time
    BY <1>3 DEF NotLater
  <1>5. Len(q) \in Nat OBVIOUS
  <1> SUFFICES ASSUME NEW i \in 1..Len(s), NEW j \in 1..Len(s), i < j
               PROVE  s[i].time <= s[j].time
    BY DEF Ordered, s
  <1>6. CASE j <= k
    <2>1. s[i] = q[i] /\ s[j] = q[j] /\ i \in 1..Len(q) /\ j \in 1..Len(q)
      BY <1>1, <1>3, <1>5, <1>6
    <2> QED BY <2>1 DEF Ordered
  <1>7. CASE j = k + 1
    <2>1. s[i] = q[i] /\ s[j] = e /\ i \in 1..Len(q) /\ i <= k BY <1>1, <1>3, <1>5, <1>7
    <2> QED BY <2>1, <1>4
  <1>8. CASE j > k + 1
    <2>1. s[j] = q[j - 1] /\ j - 1 \in 1..Len(q) /\ ~(j - 1 <= k) BY <1>1, <1>3, <1>5, <1>8
    <2>2. CASE i <= k
      <3>1. s[i] = q[i] /\ i \in 1..Len(q) /\ i < j - 1 BY <1>1, <1>3, <1>5, <1>8, <2>2
      <3> QED BY <2>1, <3>1 DEF Ordered
    <2>3. CASE i = k + 1
      <3>1. s[i] = e BY <1>1, <1>3, <2>3
      <3>2. ~(q[j - 1].time <= e.time) BY <2>1, <1>4
      <3> QED BY <2>1, <3>1, <3>2, <1>2
    <2>4. CASE i > k + 1
      <3>1. s[i] = q[i - 1] /\ i - 1 \in 1..Len(q) /\ i - 1 < j - 1
        BY <1>1, <1>3, <1>5, <2>4
      <3> QED BY <2>1, <3>1 DEF Ordered
    <2> QED BY <2>2, <2>3, <2>4, <1>3
  <1> QED BY <1>6, <1>7, <1>8, <1>3

\* So does taking an entry out of any place.
LEMMA EraseOrdered ==
  ASSUME NEW q \in Seq(Entries), Ordered(q), NEW e \in EntriesOf(q)
  PROVE  Ordered(erase(q, e))
  <1> DEFINE s == erase(q, e)
  <1>1. PICK k \in 1..Len(q) :
          /\ Len(s) = Len(q) - 1
          /\ \A i \in 1..(Len(q) - 1) : s[i] = IF i < k THEN q[i] ELSE q[i + 1]
    BY EraseEntries
  <1>2. Len(q) \in Nat OBVIOUS
  <1> HIDE DEF s
  <1> SUFFICES ASSUME NEW i \in 1..Len(s), NEW j \in 1..Len(s), i < j
               PROVE  s[i].time <= s[j].time
    BY DEF Ordered, s
  <1> DEFINE m == IF i < k THEN i ELSE i + 1
             n == IF j < k THEN j ELSE j + 1
  <1>3. m \in 1..Len(q) /\ n \in 1..Len(q) /\ m < n BY <1>1, <1>2
  <1>4. s[i] = q[m] /\ s[j] = q[n] BY <1>1, <1>2
  <1> HIDE DEF m, n
  <1> QED BY <1>3, <1>4 DEF Ordered

LEMMA TailOrdered ==
  ASSUME NEW q \in Seq(Entries), Ordered(q), q # <<>>
  PROVE  Tail(q) \in Seq(Entries) /\ Ordered(Tail(q))
  <1> DEFINE s == Tail(q)
  <1>1. s \in Seq(Entries) /\ Len(q) \in Nat /\ Len(s) = Len(q) - 1 OBVIOUS
  <1>2. \A i \in 1..Len(s) : s[i] = q[i + 1] /\ i + 1 \in 1..Len(q) BY <1>1
  <1>3. \A i, j \in 1..Len(s) : i < j => i + 1 < j + 1 BY <1>1
  <1> HIDE DEF s
  <1>4. Ordered(s) BY <1>2, <1>3 DEF Ordered
  <1> QED BY <1>1, <1>4 DEF s

\* No entry is lost when another one is inserted: iterators stay valid.
LEMMA InsertKeeps ==
  ASSUME NEW q \in Seq(Entries), NEW e \in Entries
  PROVE  EntriesOf(q) \subseteq EntriesOf(insert(q, e))
  <1> DEFINE s == insert(q, e)
             k == Cardinality(NotLater(q, e.time))
  <1>1. /\ Len(s) = Len(q) + 1
        /\ \A i \in 1..Len(s) :
             s[i] = IF i <= k THEN q[i] ELSE IF i = k + 1 THEN e ELSE q[i - 1]
    BY InsertEntries
  <1>2. k \in 0..Len(q) /\ Len(q) \in Nat BY InsertPlace
  <1> HIDE DEF s, k
  <1> SUFFICES ASSUME NEW i \in 1..Len(q) PROVE \E j \in 1..Len(s) : s[j] = q[i]
    BY DEF EntriesOf, s
  <1>3. CASE i <= k
    <2>1. i \in 1..Len(s) /\ s[i] = q[i] BY <1>1, <1>2, <1>3
    <2> QED BY <2>1
  <1>4. CASE i > k
    <2>1. i + 1 \in 1..Len(s) /\ s[i + 1] = q[i] BY <1>1, <1>2, <1>4
    <2> QED BY <2>1
  <1> QED BY <1>2, <1>3, <1>4

-----------------------------------------------------------------------------
(* The inductive invariant. *)

\* The clock values the consumer remembers are past; what is left of a sleep is what is
\* left until its entry is due; and it is about to take an entry only if that is due.
Timing ==
  /\ begun <= now /\ since <= now
  /\ pc = "wait" => interval = it.time - since
  /\ pc = "take" => it.time <= now

IInv == TypeOK /\ Ordered(nfQueue) /\ IteratorValid /\ NoOversleep /\ Timing

LEMMA InitIInv == Init => IInv
  <1> SUFFICES ASSUME Init PROVE IInv
    OBVIOUS
  <1> USE ConstantsAssumption DEF Init
  <1>1. TypeOK
    <2>1. nfQueue \in Seq(Entries) OBVIOUS
    <2>2. /\ now \in Clock /\ begun \in Clock /\ since \in Clock
          /\ milliseconds \in Int /\ interval \in Int
      BY DEF Clock
    <2>3. \E m \in Timeouts \cup {0} : milliseconds <= m OBVIOUS
    <2>4. nfAvailable \in BOOLEAN /\ timed \in BOOLEAN OBVIOUS
    <2> QED BY <2>1, <2>2, <2>3, <2>4 DEF TypeOK
  <1>2. Ordered(nfQueue) BY DEF Ordered
  <1>3. IteratorValid BY DEF IteratorValid, Holding
  <1>4. NoOversleep BY DEF NoOversleep
  <1>5. Timing BY DEF Timing
  <1> QED BY <1>1, <1>2, <1>3, <1>4, <1>5 DEF IInv

\* Rounding up to milliseconds never makes time negative.
LEMMA CeilMsNat ==
  ASSUME NEW x \in Nat
  PROVE  CeilMs(x) \in Nat
  <1>1. x + Ms - 1 \in Nat /\ Ms \in Nat \ {0} BY ConstantsAssumption
  <1>2. (x + Ms - 1) \div Ms \in Nat BY <1>1
  <1> QED BY <1>2 DEF CeilMs

\* The timeout only gets shorter.
LEMMA SpendType ==
  ASSUME TypeOK, NEW from \in Clock, from <= now, Spend(from)
  PROVE  milliseconds' \in Int /\ \E m \in Timeouts \cup {0} : milliseconds' <= m
  <1>1. now - from \in Nat BY ConstantsAssumption DEF TypeOK, Clock
  <1>2. CeilMs(now - from) \in Nat BY <1>1, CeilMsNat
  <1>3. PICK m \in Timeouts \cup {0} : milliseconds <= m BY DEF TypeOK
  <1>4. milliseconds \in Int /\ m \in Int BY ConstantsAssumption DEF TypeOK
  <1>5. milliseconds' \in Int /\ milliseconds' <= m BY <1>2, <1>3, <1>4 DEF Spend
  <1> QED BY <1>5

\* The first entry of a queue that is not empty.
LEMMA BeginEntry ==
  ASSUME TypeOK, nfQueue # <<>>
  PROVE  begin \in Entries /\ begin \in EntriesOf(nfQueue)
  <1>1. Len(nfQueue) \in Nat /\ Len(nfQueue) # 0 BY DEF TypeOK
  <1>2. 1 \in 1..Len(nfQueue) BY <1>1
  <1> QED BY <1>2 DEF TypeOK, begin, EntriesOf

\* The entry an iterator points to.
LEMMA HeldEntry ==
  ASSUME TypeOK, IteratorValid, Holding
  PROVE  it \in Entries /\ it \in EntriesOf(nfQueue)
  BY DEF TypeOK, IteratorValid, EntriesOf

\* A new entry.
LEMMA NewEntry ==
  ASSUME NEW n \in Notifications, NEW t \in 0..Latest
  PROVE  [time |-> t, nf |-> n] \in Entries
  <1>1. t \in Clock BY ConstantsAssumption DEF Clock
  <1> QED BY <1>1 DEF Entries

\* Every step keeps the types and the order of the multimap.
LEMMA QueueStep ==
  IInv /\ [Next]_vars => nfQueue' \in Seq(Entries) /\ Ordered(nfQueue')
  <1> SUFFICES ASSUME IInv, [Next]_vars
               PROVE  nfQueue' \in Seq(Entries) /\ Ordered(nfQueue')
    OBVIOUS
  <1>0. nfQueue \in Seq(Entries) /\ Ordered(nfQueue) BY DEF IInv, TypeOK
  <1>1. ASSUME NEW n \in Notifications, NEW t \in 0..Latest, enqueueNotification(n, t)
        PROVE  nfQueue' \in Seq(Entries) /\ Ordered(nfQueue')
    <2> DEFINE e == [time |-> t, nf |-> n]
    <2>1. e \in Entries BY NewEntry
    <2>2. nfQueue' = insert(nfQueue, e) BY <1>1 DEF enqueueNotification
    <2> HIDE DEF e
    <2>3. insert(nfQueue, e) \in Seq(Entries) BY <1>0, <2>1, InsertEntries
    <2>4. Ordered(insert(nfQueue, e)) BY <1>0, <2>1, InsertOrdered
    <2> QED BY <2>2, <2>3, <2>4
  <1>2. CASE dequeueNotification \/ dequeueNextNotification
    <2>1. nfQueue # <<>> /\ nfQueue' = Tail(nfQueue)
      BY <1>2 DEF dequeueNotification, dequeueNextNotification, TakeFirst
    <2> QED BY <1>0, <2>1, TailOrdered
  <1>3. CASE clear
    <2>1. nfQueue' = <<>> BY <1>3 DEF clear
    <2> QED BY <2>1 DEF Ordered
  <1>4. CASE dequeueOne
    <2>1. it \in EntriesOf(nfQueue) BY <1>4, HeldEntry DEF dequeueOne, Holding, IInv
    <2>2. nfQueue' = erase(nfQueue, it) BY <1>4 DEF dequeueOne
    <2>3. erase(nfQueue, it) \in Seq(Entries) BY <1>0, <2>1, EraseEntries
    <2>4. Ordered(erase(nfQueue, it)) BY <1>0, <2>1, EraseOrdered
    <2> QED BY <2>2, <2>3, <2>4
  <1>5. CASE nfQueue' = nfQueue BY <1>0, <1>5
  <1> QED
    BY <1>1, <1>2, <1>3, <1>4, <1>5
       DEF Next, vars, waitDequeueNotification, waitDequeueNotificationMs, CallWait, WaitStep,
           Peek, Decide, WaitSignalled, WaitTimesOut, BlockForever, BlockTimed, TryWaitEnds,
           Tick

\* Every step keeps the other types.
LEMMA TypeStep == IInv /\ [Next]_vars => TypeOK'
  <1> SUFFICES ASSUME IInv, [Next]_vars PROVE TypeOK'
    OBVIOUS
  <1>0. nfQueue' \in Seq(Entries) BY QueueStep
  <1> USE ConstantsAssumption DEF IInv
  <1>c. 0 \in Clock BY DEF Clock
  <1>r. ASSUME Return
        PROVE  /\ pc' = "idle" /\ timed' \in BOOLEAN /\ it' = None
               /\ milliseconds' \in Int /\ \E m \in Timeouts \cup {0} : milliseconds' <= m
               /\ interval' \in Int /\ begun' \in Clock /\ since' \in Clock
    <2>1. timed' \in BOOLEAN BY <1>r DEF Return
    <2>2. milliseconds' \in Int /\ \E m \in Timeouts \cup {0} : milliseconds' <= m
      BY <1>r DEF Return
    <2> QED BY <1>r, <1>c, <2>1, <2>2 DEF Return
  <1>1. ASSUME NEW n \in Notifications, NEW t \in 0..Latest, enqueueNotification(n, t)
        PROVE  TypeOK'
    <2>1. nfAvailable' \in BOOLEAN BY <1>1 DEF enqueueNotification
    <2> QED BY <1>0, <1>1, <2>1 DEF enqueueNotification, calling, TypeOK
  <1>2. CASE dequeueNotification \/ dequeueNextNotification
    <2>1. begin \in Entries
      BY <1>2, BeginEntry DEF dequeueNotification, dequeueNextNotification
    <2>2. returned' \in Notifications
      BY <1>2, <2>1, EntryTime DEF dequeueNotification, dequeueNextNotification, TakeFirst
    <2> QED BY <1>0, <1>2, <2>2
            DEF dequeueNotification, dequeueNextNotification, TakeFirst, calling, TypeOK
  <1>3. CASE clear BY <1>0, <1>3 DEF clear, calling, TypeOK
  <1>4. ASSUME NEW b \in BOOLEAN, NEW m \in Timeouts \cup {0}, CallWait(b, m) PROVE TypeOK'
    <2>1. milliseconds' \in Int /\ \E k \in Timeouts \cup {0} : milliseconds' <= k
      BY <1>4 DEF CallWait
    <2>2. timed' \in BOOLEAN BY <1>4 DEF CallWait
    <2> QED BY <1>0, <1>4, <2>1, <2>2 DEF CallWait, TypeOK
  <1>5. CASE WaitStep
    <2>1. CASE Peek
      <3>1. CASE LoopGoesOn /\ nfQueue # <<>>
        BY <1>0, <2>1, <3>1, BeginEntry DEF Peek, TypeOK
      <3>2. CASE LoopGoesOn /\ nfQueue = <<>>
        BY <1>0, <2>1, <3>2 DEF Peek, TypeOK
      <3>3. CASE ~LoopGoesOn
        <4>1. Return /\ returned' = returned BY <2>1, <3>3 DEF Peek, ReturnNull
        <4> QED BY <1>0, <1>r, <2>1, <4>1 DEF Peek, TypeOK
      <3> QED BY <3>1, <3>2, <3>3
    <2>2. CASE Decide
      <3>1. it \in Entries BY <2>2, HeldEntry DEF Decide, Holding
      <3>2. it.time \in Int /\ now \in Int BY <3>1, EntryTime DEF TypeOK, Clock
      <3>3. interval' \in Int /\ begun' \in Clock /\ since' \in Clock
        BY <2>2, <3>2 DEF Decide, TypeOK
      <3> QED BY <1>0, <2>2, <3>3 DEF Decide, TypeOK
    <2>3. CASE WaitSignalled
      <3>1. milliseconds' \in Int /\ \E m \in Timeouts \cup {0} : milliseconds' <= m
        BY <2>3, SpendType DEF WaitSignalled, Timing, TypeOK
      <3>2. nfAvailable' \in BOOLEAN BY <2>3 DEF WaitSignalled
      <3> QED BY <1>0, <2>3, <3>1, <3>2 DEF WaitSignalled, TypeOK
    <2>4. CASE WaitTimesOut
      <3>1. interval' \in Int BY <2>4 DEF WaitTimesOut, TypeOK, Clock
      <3> QED BY <1>0, <2>4, <3>1 DEF WaitTimesOut, TypeOK
    <2>5. CASE BlockForever
      <3>1. nfAvailable' \in BOOLEAN BY <2>5 DEF BlockForever
      <3> QED BY <1>0, <2>5, <3>1 DEF BlockForever, calling, TypeOK
    <2>6. CASE BlockTimed
      <3>1. CASE milliseconds > 0 BY <1>0, <2>6, <3>1 DEF BlockTimed, TypeOK
      <3>2. CASE ~(milliseconds > 0)
        <4>1. Return /\ returned' = returned BY <2>6, <3>2 DEF BlockTimed, ReturnNull
        <4> QED BY <1>0, <1>r, <2>6, <4>1 DEF BlockTimed, TypeOK
      <3> QED BY <3>1, <3>2
    <2>7. CASE TryWaitEnds
      <3>1. milliseconds' \in Int /\ \E m \in Timeouts \cup {0} : milliseconds' <= m
        BY <2>7, SpendType DEF TryWaitEnds, Timing, TypeOK
      <3>2. nfAvailable' \in BOOLEAN BY <2>7 DEF TryWaitEnds, TypeOK
      <3> QED BY <1>0, <2>7, <3>1, <3>2 DEF TryWaitEnds, TypeOK
    <2>8. CASE dequeueOne
      <3>1. it \in Entries BY <2>8, HeldEntry DEF dequeueOne, Holding
      <3>2. returned' \in Notifications BY <2>8, <3>1, EntryTime DEF dequeueOne
      <3>3. Return BY <2>8 DEF dequeueOne
      <3> QED BY <1>0, <1>r, <2>8, <3>2, <3>3 DEF dequeueOne, TypeOK
    <2> QED BY <1>5, <2>1, <2>2, <2>3, <2>4, <2>5, <2>6, <2>7, <2>8 DEF WaitStep
  <1>6. CASE Tick
    <2>1. now' \in Clock BY <1>6 DEF Tick, TimeLeft, TypeOK, Clock
    <2> QED BY <1>0, <1>6, <2>1 DEF Tick, calling, TypeOK
  <1>7. CASE UNCHANGED vars BY <1>0, <1>7 DEF vars, calling, TypeOK
  <1> QED
    BY <1>1, <1>2, <1>3, <1>4, <1>5, <1>6, <1>7
       DEF Next, waitDequeueNotification, waitDequeueNotificationMs

\* An entry that the consumer holds stays until the consumer itself erases it: whoever
\* else changes the multimap only inserts.
LEMMA IteratorStep == IInv /\ [Next]_vars => IteratorValid'
  <1> SUFFICES ASSUME IInv, [Next]_vars, Holding' PROVE it' \in EntriesOf(nfQueue')
    BY DEF IteratorValid
  <1> USE DEF IInv
  <1>1. ASSUME NEW n \in Notifications, NEW t \in 0..Latest, enqueueNotification(n, t)
        PROVE  it' \in EntriesOf(nfQueue')
    <2> DEFINE e == [time |-> t, nf |-> n]
    <2>1. e \in Entries BY NewEntry
    <2>2. nfQueue' = insert(nfQueue, e) BY <1>1 DEF enqueueNotification
    <2> HIDE DEF e
    <2>3. EntriesOf(nfQueue) \subseteq EntriesOf(insert(nfQueue, e))
      BY <2>1, InsertKeeps DEF TypeOK
    <2>4. it' = it /\ Holding BY <1>1 DEF enqueueNotification, calling, Holding
    <2>5. it \in EntriesOf(nfQueue) BY <2>4, HeldEntry
    <2> QED BY <2>2, <2>3, <2>4, <2>5
  <1>2. CASE Peek
    BY <1>2, BeginEntry DEF Peek, ReturnNull, Return, Holding
  <1>3. ASSUME nfQueue' = nfQueue, it' = it, Holding PROVE it' \in EntriesOf(nfQueue')
    BY <1>3, HeldEntry
  <1>4. CASE Decide BY <1>4, <1>3 DEF Decide, Holding
  <1>5. CASE WaitTimesOut BY <1>5, <1>3 DEF WaitTimesOut, Holding
  <1>6. CASE Tick \/ UNCHANGED vars BY <1>6, <1>3 DEF Tick, vars, calling, Holding
  <1>7. ~(dequeueNotification \/ dequeueNextNotification \/ clear \/ waitDequeueNotification)
    BY DEF dequeueNotification, dequeueNextNotification, TakeFirst, clear,
           waitDequeueNotification, CallWait, Holding
  <1>8. \A m \in Timeouts : ~waitDequeueNotificationMs(m)
    BY DEF waitDequeueNotificationMs, CallWait, Holding
  <1>9. ~(WaitSignalled \/ BlockForever \/ BlockTimed \/ TryWaitEnds \/ dequeueOne)
    BY DEF WaitSignalled, BlockForever, BlockTimed, TryWaitEnds, dequeueOne, ReturnNull,
           Return, Holding
  <1> QED
    BY <1>1, <1>2, <1>4, <1>5, <1>6, <1>7, <1>8, <1>9 DEF Next, WaitStep

\* A consumer on its way to sleep has seen the first entry, or the Event is set.
LEMMA SleepStep == IInv /\ [Next]_vars => NoOversleep'
  <1> SUFFICES ASSUME IInv, [Next]_vars, pc' \in {"peeked", "wait", "block", "tryWait"},
                      nfQueue' # <<>>, begin' # it'
               PROVE  nfAvailable'
    BY DEF NoOversleep
  <1> USE DEF IInv
  <1>1. ASSUME NEW n \in Notifications, NEW t \in 0..Latest, enqueueNotification(n, t)
        PROVE  nfAvailable'
    BY <1>1 DEF enqueueNotification
  <1>2. CASE Peek
    BY <1>2 DEF Peek, ReturnNull, Return, begin
  <1>3. ASSUME nfQueue' = nfQueue, it' = it, nfAvailable' = nfAvailable,
               pc \in {"peeked", "wait", "block", "tryWait"}
        PROVE  nfAvailable'
    BY <1>3 DEF NoOversleep, begin
  <1>4. CASE Decide BY <1>4, <1>3 DEF Decide
  <1>5. CASE WaitTimesOut BY <1>5, <1>3 DEF WaitTimesOut
  <1>6. CASE BlockTimed BY <1>6, <1>3 DEF BlockTimed, ReturnNull, Return
  <1>7. CASE Tick \/ UNCHANGED vars BY <1>7, <1>3 DEF Tick, vars, calling
  <1>8. ~(dequeueNotification \/ dequeueNextNotification \/ clear \/ waitDequeueNotification)
    BY DEF dequeueNotification, dequeueNextNotification, TakeFirst, clear,
           waitDequeueNotification, CallWait
  <1>9. \A m \in Timeouts : ~waitDequeueNotificationMs(m)
    BY DEF waitDequeueNotificationMs, CallWait
  <1>10. ~(WaitSignalled \/ BlockForever \/ TryWaitEnds \/ dequeueOne)
    BY DEF WaitSignalled, BlockForever, TryWaitEnds, dequeueOne, Return
  <1> QED
    BY <1>1, <1>2, <1>4, <1>5, <1>6, <1>7, <1>8, <1>9, <1>10 DEF Next, WaitStep

\* Sleeps are counted down to when the entry is due, however they are cut and rounded.
LEMMA TimingStep == IInv /\ [Next]_vars => Timing'
  <1> SUFFICES ASSUME IInv, [Next]_vars PROVE Timing'
    OBVIOUS
  <1> USE ConstantsAssumption DEF IInv
  <1>0. now \in Nat /\ begun \in Nat /\ since \in Nat BY DEF TypeOK, Clock
  <1>1. CASE UNCHANGED <<now, pc, calling>> BY <1>1 DEF calling, Timing
  <1>2. ASSUME NEW b, NEW m, CallWait(b, m) PROVE Timing'
    BY <1>2 DEF CallWait, Timing
  <1>3. ASSUME Return, now' = now PROVE Timing' BY <1>0, <1>3 DEF Return, Timing
  <1>4. CASE Peek BY <1>3, <1>4 DEF Peek, ReturnNull, Timing
  <1>5. CASE Decide
    <2>1. it.time \in Int
      BY <1>5, HeldEntry, EntryTime DEF Decide, Holding
    <2> QED BY <1>0, <1>5, <2>1 DEF Decide, Timing
  <1>6. CASE WaitSignalled \/ TryWaitEnds \/ BlockForever
    BY <1>6 DEF WaitSignalled, TryWaitEnds, BlockForever, calling, Timing
  <1>7. CASE WaitTimesOut
    <2>1. it.time \in Int
      BY <1>7, HeldEntry, EntryTime DEF WaitTimesOut, Holding
    <2>2. interval' = it.time - now BY <1>0, <1>7, <2>1 DEF WaitTimesOut, Timing
    <2> QED BY <1>0, <1>7, <2>1, <2>2 DEF WaitTimesOut, Timing
  <1>8. CASE BlockTimed
    <2>1. CASE milliseconds > 0 BY <1>0, <1>8, <2>1 DEF BlockTimed, Timing
    <2>2. CASE ~(milliseconds > 0) BY <1>3, <1>8, <2>2 DEF BlockTimed, ReturnNull
    <2> QED BY <2>1, <2>2
  <1>9. CASE dequeueOne BY <1>3, <1>9 DEF dequeueOne
  <1>10. CASE Tick
    <2>1. pc = "take" => it.time \in Int BY HeldEntry, EntryTime DEF Holding
    <2> QED BY <1>0, <1>10, <2>1 DEF Tick, calling, Timing
  <1>11. CASE dequeueNotification \/ dequeueNextNotification \/ clear \/ UNCHANGED vars
    BY <1>1, <1>11 DEF dequeueNotification, dequeueNextNotification, TakeFirst, clear, vars
  <1>12. ASSUME NEW n, NEW t, enqueueNotification(n, t) PROVE Timing'
    BY <1>1, <1>12 DEF enqueueNotification
  <1> QED
    BY <1>2, <1>4, <1>5, <1>6, <1>7, <1>8, <1>9, <1>10, <1>11, <1>12
       DEF Next, WaitStep, waitDequeueNotification, waitDequeueNotificationMs

LEMMA IInvStep == IInv /\ [Next]_vars => IInv'
  BY QueueStep, TypeStep, IteratorStep, SleepStep, TimingStep DEF IInv

LEMMA IInvAlways == Spec => []IInv
  BY InitIInv, IInvStep, PTL DEF Spec

-----------------------------------------------------------------------------
(* The queue implements TimedDelivery: the iterator is its candidate. *)

\* insert() finds the place that TimedDelivery asks for.
LEMMA InsertRefines ==
  ASSUME NEW q \in Seq(Entries), Ordered(q), NEW e \in Entries
  PROVE  \E k \in 0..Len(q) : TD!PlaceFor(q, e.time, k) /\ insert(q, e) = TD!Insert(q, e, k)
  <1> DEFINE k == Cardinality(NotLater(q, e.time))
  <1>1. e.time \in Int /\ \A i \in 1..Len(q) : q[i].time \in Int
    <2>1. \A i \in 1..Len(q) : q[i] \in Entries OBVIOUS
    <2> QED BY <2>1, EntryTime
  <1>2. k \in 0..Len(q) /\ NotLater(q, e.time) = 1..k BY <1>1, InsertPlace, OrderedPrefix
  <1>3. insert(q, e) = TD!Insert(q, e, k) BY DEF insert, TD!Insert, NotLater
  <1> HIDE DEF k
  <1>4. TD!PlaceFor(q, e.time, k)
    <2>1. Len(q) \in Nat OBVIOUS
    <2>2. ASSUME NEW i \in 1..k PROVE q[i].time <= e.time BY <1>2 DEF NotLater
    <2>3. ASSUME NEW i \in (k + 1)..Len(q) PROVE q[i].time > e.time
      <3>1. i \in 1..Len(q) /\ i \notin 1..k BY <1>2, <2>1
      <3>2. ~(q[i].time <= e.time) BY <1>2, <3>1 DEF NotLater
      <3> QED BY <1>1, <3>1, <3>2
    <2> QED BY <2>2, <2>3 DEF TD!PlaceFor
  <1> QED BY <1>2, <1>3, <1>4

LEMMA InitRefines == Init => TD!Init
  BY DEF Init, TD!Init, Holding

\* Every step is one that TimedDelivery allows, or none that it can see.
LEMMA NextRefines == IInv /\ [Next]_vars => [TD!Next]_(TD!tvars)
  <1> DEFINE candidate == IF Holding THEN it ELSE None
  <1> SUFFICES ASSUME IInv, [Next]_vars
               PROVE  TD!Next \/ UNCHANGED <<nfQueue, now, candidate, returned>>
    BY DEF TD!tvars
  <1> USE DEF IInv
  <1>1. ASSUME NEW n \in Notifications, NEW t \in 0..Latest, enqueueNotification(n, t)
        PROVE  TD!Next
    <2>1. n \notin TD!Content(nfQueue)
      BY <1>1 DEF enqueueNotification, Content, TD!Content
    <2>2. \E k \in 0..Len(nfQueue) :
            /\ TD!PlaceFor(nfQueue, t, k)
            /\ nfQueue' = TD!Insert(nfQueue, [time |-> t, nf |-> n], k)
      <3> DEFINE e == [time |-> t, nf |-> n]
      <3>1. e \in Entries /\ e.time = t BY NewEntry
      <3>2. nfQueue' = insert(nfQueue, e) BY <1>1 DEF enqueueNotification
      <3> HIDE DEF e
      <3>3. PICK k \in 0..Len(nfQueue) :
              TD!PlaceFor(nfQueue, e.time, k) /\ insert(nfQueue, e) = TD!Insert(nfQueue, e, k)
        BY <3>1, InsertRefines DEF TypeOK
      <3> QED BY <3>1, <3>2, <3>3 DEF e
    <2>3. UNCHANGED <<now, candidate, returned>>
      BY <1>1 DEF enqueueNotification, calling, Holding
    <2>4. TD!Enqueue(n, t) BY <2>1, <2>2, <2>3 DEF TD!Enqueue
    <2> QED BY <2>4 DEF TD!Next
  <1>2. CASE dequeueNotification \/ dequeueNextNotification
    <2>1. TD!TakeNext
      BY <1>2 DEF dequeueNotification, dequeueNextNotification, TakeFirst, TD!TakeNext, begin,
                  calling, Holding
    <2> QED BY <2>1 DEF TD!Next
  <1>3. CASE clear
    <2>1. TD!Clear BY <1>3 DEF clear, TD!Clear, calling, Holding
    <2> QED BY <2>1 DEF TD!Next
  <1>4. ASSUME NEW b, NEW m, CallWait(b, m)
        PROVE  UNCHANGED <<nfQueue, now, candidate, returned>>
    BY <1>4 DEF CallWait, Holding
  <1>5. CASE Peek
    <2>1. CASE LoopGoesOn /\ nfQueue # <<>>
      <3>1. TD!Look BY <1>5, <2>1 DEF Peek, TD!Look, begin, Holding
      <3> QED BY <3>1 DEF TD!Next
    <2>2. CASE ~(LoopGoesOn /\ nfQueue # <<>>)
      BY <1>5, <2>2 DEF Peek, ReturnNull, Return, Holding
    <2> QED BY <2>1, <2>2
  <1>6. CASE Decide
    <2>1. CASE pc' = "block"
      <3>1. TD!Forget BY <1>6, <2>1 DEF Decide, TD!Forget, Holding
      <3> QED BY <3>1 DEF TD!Next
    <2>2. CASE pc' # "block" BY <1>6, <2>2 DEF Decide, Holding
    <2> QED BY <2>1, <2>2
  <1>7. CASE WaitSignalled
    <2>1. TD!Forget BY <1>7 DEF WaitSignalled, TD!Forget, Holding
    <2> QED BY <2>1 DEF TD!Next
  <1>8. CASE WaitTimesOut BY <1>8 DEF WaitTimesOut, Holding
  <1>9. CASE BlockForever BY <1>9 DEF BlockForever, calling, Holding
  <1>10. CASE BlockTimed BY <1>10 DEF BlockTimed, ReturnNull, Return, Holding
  <1>11. CASE TryWaitEnds BY <1>11 DEF TryWaitEnds, Holding
  <1>12. CASE dequeueOne
    <2>1. it \in Entries /\ it \in EntriesOf(nfQueue)
      BY <1>12, HeldEntry DEF dequeueOne, Holding
    <2>2. candidate = it /\ candidate' = None
      BY <1>12 DEF dequeueOne, Return, Holding
    <2>3. it # None BY <2>1, ConstantsAssumption DEF Entries, Clock
    <2>4. it.time <= now BY <1>12 DEF dequeueOne, Timing
    <2>5. \E k \in 1..Len(nfQueue) :
            nfQueue[k] = it /\ nfQueue' = TD!Without(nfQueue, k)
      <3>1. PICK k \in 1..Len(nfQueue) :
              /\ nfQueue[k] = it
              /\ erase(nfQueue, it)
                   = SubSeq(nfQueue, 1, k - 1) \o SubSeq(nfQueue, k + 1, Len(nfQueue))
        BY <2>1, EraseEntries DEF TypeOK
      <3> QED BY <1>12, <3>1 DEF dequeueOne, TD!Without
    <2>6. TD!Deliver BY <1>12, <2>2, <2>3, <2>4, <2>5 DEF dequeueOne, TD!Deliver
    <2> QED BY <2>6 DEF TD!Next
  <1>13. CASE Tick
    <2>1. TD!Tick BY <1>13 DEF Tick, TimeLeft, TD!Tick, calling, Holding
    <2> QED BY <2>1 DEF TD!Next
  <1>14. CASE UNCHANGED vars BY <1>14 DEF vars, calling, Holding
  <1> QED
    BY <1>1, <1>2, <1>3, <1>4, <1>5, <1>6, <1>7, <1>8, <1>9, <1>10, <1>11, <1>12, <1>13, <1>14
       DEF Next, WaitStep, waitDequeueNotification, waitDequeueNotificationMs

-----------------------------------------------------------------------------
(* The results. *)

\* Every variable keeps its type; with it, the timeout never gets longer.
THEOREM TypeCorrect == Spec => []TypeOK
  <1>1. IInv => TypeOK BY DEF IInv
  <1> QED BY <1>1, IInvAlways, PTL

\* The iterator that is kept while the mutex is released stays valid until it is used.
THEOREM IteratorStaysValid == Spec => []IteratorValid
  <1>1. IInv => IteratorValid BY DEF IInv
  <1> QED BY <1>1, IInvAlways, PTL

\* The consumer does not sleep while an entry it has not seen is first.
THEOREM NeverOversleeps == Spec => []NoOversleep
  <1>1. IInv => NoOversleep BY DEF IInv
  <1> QED BY <1>1, IInvAlways, PTL

\* The multimap is ordered by clock value, so that the first entry is the next one due.
THEOREM StaysOrdered == Spec => []Ordered(nfQueue)
  <1>1. IInv => Ordered(nfQueue) BY DEF IInv
  <1> QED BY <1>1, IInvAlways, PTL

\* The queue implements TimedDelivery: a wait returns the entry that was first when the
\* consumer looked, never before it is due.
THEOREM Refinement == Spec => ImplementsTimedDelivery
  BY InitRefines, IInvAlways, NextRefines, PTL DEF Spec, ImplementsTimedDelivery, TD!Spec

=============================================================================
