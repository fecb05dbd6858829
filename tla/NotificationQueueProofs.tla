---------------------- MODULE NotificationQueueProofs ----------------------
(***************************************************************************)
(* Proofs, for any number of consumers and notifications, that the queue's *)
(* safety invariants hold and that it implements DeliveryContract.         *)
(***************************************************************************)
EXTENDS NotificationQueue, TLAPS

-----------------------------------------------------------------------------
(* Sequences without repetition: what the deque operations do to Range.    *)

\* _waitQueue.empty() and _nfQueue.empty() say that nothing is stored.
LEMMA RangeEmpty ==
  ASSUME NEW S, NEW s \in Seq(S)
  PROVE  (Range(s) = {}) <=> (s = <<>>)
  <1>1. ASSUME s # <<>> PROVE Range(s) # {}
    <2>1. Len(s) \in Nat /\ Len(s) # 0 BY <1>1
    <2>2. 1 \in 1..Len(s) BY <2>1
    <2>3. s[1] \in Range(s) BY <2>2 DEF Range
    <2> QED BY <2>3
  <1>2. ASSUME s = <<>> PROVE Range(s) = {}
    <2>1. Len(s) = 0 BY <1>2
    <2>2. 1..Len(s) = {} BY <2>1
    <2> QED BY <2>2 DEF Range
  <1> QED BY <1>1, <1>2

\* push_back of a new element.
LEMMA AppendRange ==
  ASSUME NEW S, NEW s \in Seq(S), NEW x \in S, x \notin Range(s), Injective(s)
  PROVE  /\ Append(s, x) \in Seq(S)
         /\ Range(Append(s, x)) = Range(s) \cup {x}
         /\ Injective(Append(s, x))
  <1> DEFINE a == Append(s, x)
  <1>1. a \in Seq(S) /\ Len(a) = Len(s) + 1 /\ Len(s) \in Nat OBVIOUS
  <1>2. \A i \in 1..Len(a) : a[i] = IF i = Len(s) + 1 THEN x ELSE s[i]
    BY <1>1
  <1>3. \A i \in 1..Len(a) : i = Len(s) + 1 \/ i \in 1..Len(s) BY <1>1
  <1>4. Range(a) = Range(s) \cup {x}
    <2>1. ASSUME NEW y \in Range(a) PROVE y \in Range(s) \cup {x}
      BY <2>1, <1>2, <1>3 DEF Range
    <2>2. x \in Range(a)
      <3>1. Len(s) + 1 \in 1..Len(a) BY <1>1
      <3> QED BY <3>1, <1>2 DEF Range
    <2>3. ASSUME NEW y \in Range(s) PROVE y \in Range(a)
      <3>1. PICK i \in 1..Len(s) : y = s[i] BY <2>3 DEF Range
      <3>2. i \in 1..Len(a) /\ i # Len(s) + 1 BY <1>1, <3>1
      <3> QED BY <3>1, <3>2, <1>2 DEF Range
    <2> QED BY <2>1, <2>2, <2>3
  <1>5. Injective(a)
    <2> SUFFICES ASSUME NEW i \in 1..Len(a), NEW j \in 1..Len(a), i # j
                 PROVE a[i] # a[j]
      BY DEF Injective
    <2>1. CASE i = Len(s) + 1
      <3>1. j \in 1..Len(s) BY <2>1, <1>3
      <3>2. a[i] = x /\ a[j] = s[j] BY <2>1, <1>2, <3>1, <1>1
      <3> QED BY <3>1, <3>2 DEF Range
    <2>2. CASE j = Len(s) + 1
      <3>1. i \in 1..Len(s) BY <2>2, <1>3
      <3>2. a[j] = x /\ a[i] = s[i] BY <2>2, <1>2, <3>1, <1>1
      <3> QED BY <3>1, <3>2 DEF Range
    <2>3. CASE i # Len(s) + 1 /\ j # Len(s) + 1
      <3>1. i \in 1..Len(s) /\ j \in 1..Len(s) BY <2>3, <1>3
      <3>2. a[i] = s[i] /\ a[j] = s[j] BY <2>3, <1>2
      <3> QED BY <3>1, <3>2 DEF Injective
    <2> QED BY <2>1, <2>2, <2>3
  <1> QED BY <1>1, <1>4, <1>5

\* pop_front of a queue that is not empty.
LEMMA TailRange ==
  ASSUME NEW S, NEW s \in Seq(S), s # <<>>, Injective(s)
  PROVE  /\ Head(s) \in S
         /\ Head(s) \in Range(s)
         /\ Tail(s) \in Seq(S)
         /\ Range(Tail(s)) = Range(s) \ {Head(s)}
         /\ Injective(Tail(s))
  <1> DEFINE b == Tail(s)
  <1>1. /\ Len(s) \in Nat /\ Len(s) # 0
        /\ b \in Seq(S) /\ Len(b) = Len(s) - 1
        /\ Head(s) = s[1] /\ Head(s) \in S
    OBVIOUS
  <1>2. \A i \in 1..Len(b) : b[i] = s[i + 1] BY <1>1
  <1>3. \A i \in 1..Len(b) : i + 1 \in 1..Len(s) BY <1>1
  <1>4. 1 \in 1..Len(s) BY <1>1
  <1>5. Range(b) = Range(s) \ {Head(s)}
    <2>1. ASSUME NEW y \in Range(b) PROVE y \in Range(s) \ {Head(s)}
      <3>1. PICK i \in 1..Len(b) : y = b[i] BY <2>1 DEF Range
      <3>2. y = s[i + 1] /\ i + 1 \in 1..Len(s) BY <3>1, <1>2, <1>3
      <3>3. i + 1 # 1 BY <3>1
      <3>4. s[i + 1] # s[1] BY <3>2, <3>3, <1>4 DEF Injective
      <3> QED BY <3>2, <3>4, <1>1 DEF Range
    <2>2. ASSUME NEW y \in Range(s) \ {Head(s)} PROVE y \in Range(b)
      <3>1. PICK i \in 1..Len(s) : y = s[i] BY <2>2 DEF Range
      <3>2. i # 1 BY <3>1, <2>2, <1>1
      <3>3. i - 1 \in 1..Len(b) /\ (i - 1) + 1 = i BY <3>1, <3>2, <1>1
      <3>4. b[i - 1] = s[i] BY <3>3, <1>2
      <3> QED BY <3>1, <3>3, <3>4 DEF Range
    <2> QED BY <2>1, <2>2
  <1>6. Injective(b)
    <2> SUFFICES ASSUME NEW i \in 1..Len(b), NEW j \in 1..Len(b), i # j
                 PROVE b[i] # b[j]
      BY DEF Injective
    <2>1. i + 1 \in 1..Len(s) /\ j + 1 \in 1..Len(s) /\ i + 1 # j + 1 BY <1>3
    <2> QED BY <2>1, <1>2 DEF Injective
  <1>7. Head(s) \in Range(s) BY <1>1, <1>4 DEF Range
  <1> QED BY <1>1, <1>5, <1>6, <1>7

\* pop_front, k times.
LEMMA DropRange ==
  ASSUME NEW S, NEW s \in Seq(S), Injective(s), NEW k \in 1..Len(s)
  PROVE  /\ SubSeq(s, k + 1, Len(s)) \in Seq(S)
         /\ Range(SubSeq(s, k + 1, Len(s))) = Range(s) \ {s[i] : i \in 1..k}
         /\ {s[i] : i \in 1..k} \subseteq Range(s)
         /\ Injective(SubSeq(s, k + 1, Len(s)))
  <1> DEFINE b == SubSeq(s, k + 1, Len(s))
             X == {s[i] : i \in 1..k}
  <1>0. Len(s) \in Nat /\ k \in Nat /\ k >= 1 /\ k <= Len(s) OBVIOUS
  <1>1. b \in Seq(S) /\ Len(b) = Len(s) - k
    <2>2. b = [i \in 1..(Len(s) - k) |-> s[i + k]] BY <1>0
    <2>3. Len(s) - k \in Nat BY <1>0
    <2>4. \A i \in 1..(Len(s) - k) : s[i + k] \in S BY <1>0
    <2> QED BY <2>2, <2>3, <2>4
  <1>2. \A i \in 1..Len(b) : b[i] = s[i + k] BY <1>0, <1>1
  <1>3. \A i \in 1..Len(b) : i + k \in 1..Len(s) /\ i + k > k BY <1>0, <1>1
  <1>4. X \subseteq Range(s) BY <1>0 DEF Range
  <1> HIDE DEF b
  <1>5. Range(b) = Range(s) \ X
    <2>1. ASSUME NEW y \in Range(b) PROVE y \in Range(s) \ X
      <3>1. PICK i \in 1..Len(b) : y = b[i] BY <2>1 DEF Range
      <3>2. y = s[i + k] /\ i + k \in 1..Len(s) BY <3>1, <1>2, <1>3
      <3>3. \A j \in 1..k : j \in 1..Len(s) /\ j # i + k BY <1>0, <1>3
      <3>4. \A j \in 1..k : s[j] # y BY <3>2, <3>3 DEF Injective
      <3>5. y \in Range(s) BY <3>2 DEF Range
      <3> QED BY <3>4, <3>5
    <2>2. ASSUME NEW y \in Range(s) \ X PROVE y \in Range(b)
      <3>1. PICK i \in 1..Len(s) : y = s[i] BY <2>2 DEF Range
      <3>2. i \notin 1..k BY <3>1, <2>2
      <3>3. i - k \in 1..Len(b) /\ (i - k) + k = i BY <3>1, <3>2, <1>0, <1>1
      <3>4. b[i - k] = s[i] BY <3>3, <1>2
      <3> QED BY <3>1, <3>3, <3>4 DEF Range
    <2> QED BY <2>1, <2>2
  <1>6. Injective(b)
    <2> SUFFICES ASSUME NEW i \in 1..Len(b), NEW j \in 1..Len(b), i # j
                 PROVE b[i] # b[j]
      BY DEF Injective
    <2>1. i + k \in 1..Len(s) /\ j + k \in 1..Len(s) /\ i + k # j + k BY <1>3, <1>0
    <2> QED BY <2>1, <1>2 DEF Injective
  <1> QED BY <1>1, <1>4, <1>5, <1>6 DEF b

\* push_front of a new element.
LEMMA PushFrontRange ==
  ASSUME NEW S, NEW s \in Seq(S), NEW x \in S, x \notin Range(s), Injective(s)
  PROVE  /\ <<x>> \o s \in Seq(S)
         /\ Range(<<x>> \o s) = Range(s) \cup {x}
         /\ Injective(<<x>> \o s)
  <1> DEFINE a == <<x>> \o s
  <1>1. a \in Seq(S) /\ Len(a) = Len(s) + 1 /\ Len(s) \in Nat OBVIOUS
  <1>2. a[1] = x /\ \A i \in 1..Len(s) : a[i + 1] = s[i] BY <1>1
  <1>3. \A i \in 1..Len(a) : i = 1 \/ (i - 1 \in 1..Len(s) /\ (i - 1) + 1 = i) BY <1>1
  <1>4. \A i \in 1..Len(a) : i # 1 => a[i] = s[i - 1] BY <1>2, <1>3
  <1>5. 1 \in 1..Len(a) /\ \A i \in 1..Len(s) : i + 1 \in 1..Len(a) BY <1>1
  <1>6. Range(a) = Range(s) \cup {x}
    <2>1. ASSUME NEW y \in Range(a) PROVE y \in Range(s) \cup {x}
      BY <2>1, <1>2, <1>3, <1>4 DEF Range
    <2>2. ASSUME NEW y \in Range(s) PROVE y \in Range(a)
      <3>1. PICK i \in 1..Len(s) : y = s[i] BY <2>2 DEF Range
      <3> QED BY <3>1, <1>2, <1>5 DEF Range
    <2>3. x \in Range(a) BY <1>2, <1>5 DEF Range
    <2> QED BY <2>1, <2>2, <2>3
  <1>7. Injective(a)
    <2> SUFFICES ASSUME NEW i \in 1..Len(a), NEW j \in 1..Len(a), i # j
                 PROVE a[i] # a[j]
      BY DEF Injective
    <2>1. CASE i = 1
      BY <2>1, <1>2, <1>3, <1>4 DEF Range
    <2>2. CASE j = 1
      BY <2>2, <1>2, <1>3, <1>4 DEF Range
    <2>3. CASE i # 1 /\ j # 1
      <3>1. i - 1 \in 1..Len(s) /\ j - 1 \in 1..Len(s) /\ i - 1 # j - 1 BY <2>3, <1>3
      <3> QED BY <2>3, <3>1, <1>4 DEF Injective
    <2> QED BY <2>1, <2>2, <2>3
  <1> QED BY <1>1, <1>6, <1>7

\* erase of the element that waitDequeueNotification(ms) and remove() look for.
LEMMA EraseRange ==
  ASSUME NEW S, NEW s \in Seq(S), NEW x \in Range(s), Injective(s)
  PROVE  /\ Erase(s, x) \in Seq(S)
         /\ Range(Erase(s, x)) = Range(s) \ {x}
         /\ Injective(Erase(s, x))
         /\ \E k \in 1..Len(s) :
              /\ s[k] = x
              /\ Erase(s, x) = [i \in 1..(Len(s) - 1) |-> IF i < k THEN s[i] ELSE s[i + 1]]
  <1> DEFINE First(k) == s[k] = x /\ \A j \in 1..(k - 1) : s[j] # x
             k == CHOOSE k \in 1..Len(s) : First(k)
             e == Erase(s, x)
  <1>1. Len(s) \in Nat OBVIOUS
  <1>2. \E m \in 1..Len(s) : First(m)
    <2>1. PICK m \in 1..Len(s) : s[m] = x BY DEF Range
    <2>2. \A j \in 1..(m - 1) : j \in 1..Len(s) /\ j # m BY <1>1, <2>1
    <2>3. \A j \in 1..(m - 1) : s[j] # x BY <2>1, <2>2 DEF Injective
    <2> QED BY <2>1, <2>3
  <1>3. k \in 1..Len(s) /\ s[k] = x
    <2> HIDE DEF First
    <2>1. k \in 1..Len(s) /\ First(k) BY <1>2
    <2> QED BY <2>1 DEF First
  <1>4. e = [i \in 1..(Len(s) - 1) |-> IF i < k THEN s[i] ELSE s[i + 1]]
    BY DEF Erase
  <1> HIDE DEF k, e, First
  <1>6. \A i \in 1..(Len(s) - 1) : i \in 1..Len(s) /\ i + 1 \in 1..Len(s)
    BY <1>1
  <1>7. e \in Seq(S) /\ Len(e) = Len(s) - 1
    <2>1. \A i \in 1..(Len(s) - 1) : (IF i < k THEN s[i] ELSE s[i + 1]) \in S BY <1>6
    <2>2. Len(s) - 1 \in Nat BY <1>1, <1>3
    <2> QED BY <1>4, <2>1, <2>2
  <1>8. \A i \in 1..Len(e) : e[i] = IF i < k THEN s[i] ELSE s[i + 1] BY <1>4, <1>7
  <1>9. Range(e) = Range(s) \ {x}
    <2>1. ASSUME NEW y \in Range(e) PROVE y \in Range(s) \ {x}
      <3>1. PICK i \in 1..Len(e) : y = e[i] BY <2>1 DEF Range
      <3> DEFINE m == IF i < k THEN i ELSE i + 1
      <3>2. m \in 1..Len(s) /\ m # k /\ y = s[m] BY <3>1, <1>8, <1>6, <1>7, <1>3
      <3>3. s[m] # s[k] BY <3>2, <1>3 DEF Injective
      <3> QED BY <3>2, <3>3, <1>3 DEF Range
    <2>2. ASSUME NEW y \in Range(s) \ {x} PROVE y \in Range(e)
      <3>1. PICK m \in 1..Len(s) : y = s[m] BY <2>2 DEF Range
      <3>2. m # k BY <3>1, <2>2, <1>3
      <3> DEFINE i == IF m < k THEN m ELSE m - 1
      <3>3. i \in 1..Len(e) /\ (IF i < k THEN i ELSE i + 1) = m BY <3>1, <3>2, <1>1, <1>3, <1>7
      <3>4. e[i] = s[m] BY <3>3, <1>8
      <3> QED BY <3>1, <3>3, <3>4 DEF Range
    <2> QED BY <2>1, <2>2
  <1>10. Injective(e)
    <2> SUFFICES ASSUME NEW i \in 1..Len(e), NEW j \in 1..Len(e), i # j
                 PROVE e[i] # e[j]
      BY DEF Injective
    <2> DEFINE M(h) == IF h < k THEN h ELSE h + 1
    <2>1. M(i) \in 1..Len(s) /\ M(j) \in 1..Len(s) /\ M(i) # M(j)
      BY <1>6, <1>7, <1>3
    <2>2. e[i] = s[M(i)] /\ e[j] = s[M(j)] BY <1>8
    <2> QED BY <2>1, <2>2 DEF Injective
  <1> QED BY <1>3, <1>4, <1>7, <1>9, <1>10 DEF e

-----------------------------------------------------------------------------
(* The inductive invariant.                                                *)

\* A new NotificationQueue is empty and nobody waits.
LEMMA InitIInv == Init => IInv
  <1> SUFFICES ASSUME Init PROVE IInv OBVIOUS
  <1>1. Range(nfQueue) = {} /\ Range(waitQueue) = {}
    BY DEF Init, Range
  <1>2. Injective(nfQueue) /\ Injective(waitQueue)
    BY DEF Init, Injective
  <1>3. TypeOK
    <2>1. nfQueue \in Seq(Notifications) /\ waitQueue \in Seq(Threads) BY DEF Init
    <2>2. /\ pNf \in [Threads -> Notifications \cup {NoNf}]
          /\ nfAvailable \in [Threads -> BOOLEAN]
          /\ timed \in [Threads -> BOOLEAN]
      BY DEF Init
    <2>3. pc \in [Threads -> {"idle", "timedOut"} \cup Waiting] BY DEF Init
    <2>4. accepted \subseteq Notifications /\ wokeUp \in BOOLEAN BY DEF Init
    <2>5. returned \in Notifications \cup {NoNf} BY DEF Init
    <2> QED BY <2>1, <2>2, <2>3, <2>4, <2>5 DEF TypeOK
  <1>4. Held = {} BY DEF Init, Held
  <1>5. ExactlyOnce BY <1>1, <1>2, <1>4 DEF Init, ExactlyOnce
  <1> QED
    BY <1>1, <1>2, <1>3, <1>5 DEF Init, IInv, WaitersMeanEmptyQueue, NoDanglingWaitInfo,
       LinkedOrSignalled, WokeUpMeansNobodySleeps, SlotsMatchEvents, Waiting

\* A step that leaves the waiting side alone and takes items out of the queue.
LEMMA ShrinkIInv ==
  ASSUME IInv, NEW q, NEW gone,
         q \in Seq(Notifications), Injective(q), Range(q) = Range(nfQueue) \ gone,
         gone \subseteq Range(nfQueue),
         nfQueue' = q, accepted' = accepted \ gone,
         nfQueue # <<>>, returned' \in Notifications \cup {NoNf},
         UNCHANGED <<waitQueue, wokeUp, pNf, nfAvailable, pc, timed>>
  PROVE  IInv'
  <1>1. waitQueue = <<>> BY DEF IInv, WaitersMeanEmptyQueue
  <1>2. TypeOK' BY DEF IInv, TypeOK
  <1>3. Range(waitQueue)' = Range(waitQueue) /\ Injective(waitQueue)' /\ Held' = Held
    BY DEF IInv, NoDanglingWaitInfo, Range, Injective, Held
  <1>4. Range(nfQueue)' = Range(q) /\ Injective(nfQueue)' BY DEF Range, Injective
  <1>5. ExactlyOnce' BY <1>3, <1>4 DEF IInv, ExactlyOnce
  <1> QED
    BY <1>1, <1>2, <1>3, <1>5 DEF IInv, WaitersMeanEmptyQueue, NoDanglingWaitInfo,
       LinkedOrSignalled, WokeUpMeansNobodySleeps, SlotsMatchEvents

\* What the two enqueue functions share, given what their push does to the queue.
LEMMA EnqueueIInv ==
  ASSUME IInv, NEW n \in Notifications, NEW q, Enqueue(n, q),
         n \notin Range(nfQueue) => /\ q \in Seq(Notifications)
                                    /\ Range(q) = Range(nfQueue) \cup {n}
                                    /\ Injective(q)
  PROVE  IInv'
  <1>1. n \notin Range(nfQueue) /\ n \notin Held /\ n # NoNf
    BY NoNfAssumption DEF Enqueue, IInv, ExactlyOnce
  <1>2. CASE waitQueue = <<>>
    <2>1. /\ nfQueue' = q /\ UNCHANGED <<waitQueue, pNf, nfAvailable, pc, timed, returned>>
          /\ wokeUp' = FALSE /\ accepted' = accepted \cup {n}
      BY <1>2 DEF Enqueue
    <2>2. TypeOK' BY <1>1, <2>1 DEF IInv, TypeOK
    <2>3. Range(waitQueue)' = Range(waitQueue) /\ Injective(waitQueue)' /\ Held' = Held
      BY <2>1 DEF IInv, NoDanglingWaitInfo, Range, Injective, Held
    <2>4. Range(nfQueue)' = Range(nfQueue) \cup {n} /\ Injective(nfQueue)'
      BY <1>1, <2>1 DEF Range, Injective
    <2>5. ExactlyOnce' BY <1>1, <2>1, <2>3, <2>4 DEF IInv, ExactlyOnce
    <2> QED
      BY <1>2, <2>1, <2>2, <2>3, <2>5 DEF IInv, WaitersMeanEmptyQueue, NoDanglingWaitInfo,
         LinkedOrSignalled, WokeUpMeansNobodySleeps, SlotsMatchEvents
  <1>3. CASE waitQueue # <<>>
    <2> DEFINE w == Head(waitQueue)
    <2>1. /\ waitQueue' = Tail(waitQueue) /\ pNf' = [pNf EXCEPT ![w] = n]
          /\ nfAvailable' = [nfAvailable EXCEPT ![w] = TRUE]
          /\ UNCHANGED <<nfQueue, pc, timed, returned>>
          /\ wokeUp' = FALSE /\ accepted' = accepted \cup {n}
      BY <1>3 DEF Enqueue, HandOver
    <2>2. /\ w \in Threads /\ w \in Range(waitQueue)
          /\ Tail(waitQueue) \in Seq(Threads)
          /\ Range(Tail(waitQueue)) = Range(waitQueue) \ {w}
          /\ Injective(Tail(waitQueue))
      BY <1>3, TailRange DEF IInv, TypeOK, NoDanglingWaitInfo
    <2>3. nfQueue = <<>> BY <1>3 DEF IInv, WaitersMeanEmptyQueue
    <2>4. ~nfAvailable[w] /\ pNf[w] = NoNf /\ pc[w] # "idle"
      BY <2>2 DEF IInv, SlotsMatchEvents, NoDanglingWaitInfo
    <2> HIDE DEF w
    <2>5. TypeOK' BY <2>1, <2>2 DEF IInv, TypeOK
    <2>6. Range(waitQueue)' = Range(waitQueue) \ {w} /\ Injective(waitQueue)'
      BY <2>1, <2>2 DEF Range, Injective
    <2>7. Range(nfQueue)' = Range(nfQueue) /\ Injective(nfQueue)'
      BY <2>1 DEF IInv, ExactlyOnce, Range, Injective
    <2>8. \A t \in Threads : pNf'[t] = IF t = w THEN n ELSE pNf[t]
      BY <2>1, <2>2 DEF IInv, TypeOK
    <2>9. \A t \in Threads : nfAvailable'[t] = IF t = w THEN TRUE ELSE nfAvailable[t]
      BY <2>1, <2>2 DEF IInv, TypeOK
    <2>10. Held' = Held \cup {n}
      <3>1. \A t \in Threads : pNf'[t] \in Held \cup {n, NoNf} BY <2>8 DEF Held
      <3>2. n \in Held' BY <1>1, <2>2, <2>8 DEF Held
      <3>3. \A t \in Threads : pNf[t] # NoNf => pNf'[t] = pNf[t] BY <2>4, <2>8
      <3>4. \A y \in Held : y \in Held' BY <3>3 DEF Held
      <3>5. \A y \in Held' : y \in Held \cup {n} BY <3>1 DEF Held
      <3> QED BY <3>2, <3>4, <3>5
    <2>11. ExactlyOnce'
      <3>1. \A t, u \in Threads : t # u /\ pNf'[t] # NoNf => pNf'[t] # pNf'[u]
        BY <1>1, <2>8 DEF IInv, ExactlyOnce, Held
      <3> QED BY <1>1, <2>1, <2>7, <2>10, <3>1 DEF IInv, ExactlyOnce
    <2>12. LinkedOrSignalled' BY <2>1, <2>6, <2>9 DEF IInv, LinkedOrSignalled
    <2>13. SlotsMatchEvents' BY <2>1, <2>4, <2>6, <2>8, <2>9 DEF IInv, SlotsMatchEvents
    <2>14. NoDanglingWaitInfo' BY <2>1, <2>6 DEF IInv, NoDanglingWaitInfo
    <2> QED
      BY <2>1, <2>3, <2>5, <2>11, <2>12, <2>13, <2>14
      DEF IInv, WaitersMeanEmptyQueue, WokeUpMeansNobodySleeps
  <1> QED BY <1>2, <1>3

\* Thread t leaves its call with what its WaitInfo holds; q is _waitQueue then.
LEMMA ReturnIInv ==
  ASSUME IInv, NEW t \in Threads, Return(t), NEW q,
         waitQueue' = q, q \in Seq(Threads), Injective(q), Range(q) = Range(waitQueue) \ {t},
         UNCHANGED <<nfQueue, wokeUp, timed>>
  PROVE  IInv'
  <1>1. TypeOK' BY DEF IInv, TypeOK, Return
  <1>2. Range(waitQueue)' = Range(waitQueue) \ {t} /\ Injective(waitQueue)'
    BY DEF Range, Injective
  <1>3. Range(nfQueue)' = Range(nfQueue) /\ Injective(nfQueue)'
    BY DEF IInv, ExactlyOnce, Range, Injective
  <1>4. \A u \in Threads : /\ pNf'[u] = IF u = t THEN NoNf ELSE pNf[u]
                           /\ nfAvailable'[u] = IF u = t THEN FALSE ELSE nfAvailable[u]
                           /\ pc'[u] = IF u = t THEN "idle" ELSE pc[u]
    BY DEF IInv, TypeOK, Return
  <1>5. Held' = Held \ {pNf[t]}
    <2>1. \A y \in Held' : y \in Held \ {pNf[t]}
      <3> SUFFICES ASSUME NEW y \in Held' PROVE y \in Held \ {pNf[t]} OBVIOUS
      <3>1. PICK u \in Threads : y = pNf'[u] /\ y # NoNf BY DEF Held
      <3>2. u # t /\ y = pNf[u] BY <3>1, <1>4
      <3>3. y # pNf[t] BY <3>1, <3>2 DEF IInv, ExactlyOnce
      <3> QED BY <3>1, <3>2, <3>3 DEF Held
    <2>2. \A y \in Held \ {pNf[t]} : y \in Held'
      <3> SUFFICES ASSUME NEW y \in Held \ {pNf[t]} PROVE y \in Held' OBVIOUS
      <3>1. PICK u \in Threads : y = pNf[u] BY DEF Held
      <3>2. pNf'[u] = y /\ y # NoNf BY <3>1, <1>4 DEF Held
      <3> QED BY <3>2 DEF Held
    <2> QED BY <2>1, <2>2
  <1>6. pNf[t] \notin Range(nfQueue)
    <2>1. CASE pNf[t] = NoNf BY <2>1, NoNfAssumption DEF IInv, TypeOK, Range
    <2>2. CASE pNf[t] # NoNf BY <2>2 DEF IInv, ExactlyOnce, Held
    <2> QED BY <2>1, <2>2
  <1>7. ExactlyOnce'
    <2>1. accepted' = accepted \ {pNf[t]} BY DEF Return
    <2>2. \A u, v \in Threads : u # v /\ pNf'[u] # NoNf => pNf'[u] # pNf'[v]
      BY <1>4 DEF IInv, ExactlyOnce
    <2> QED BY <1>3, <1>5, <1>6, <2>1, <2>2 DEF IInv, ExactlyOnce
  <1>8. WaitersMeanEmptyQueue' /\ WokeUpMeansNobodySleeps'
    <2>1. waitQueue = <<>> => waitQueue' = <<>>
      BY RangeEmpty DEF IInv, TypeOK
    <2> QED BY <2>1 DEF IInv, WaitersMeanEmptyQueue, WokeUpMeansNobodySleeps
  <1>9. NoDanglingWaitInfo'
    <2>1. Range(waitQueue) \subseteq Threads BY DEF IInv, TypeOK, Range
    <2>2. \A u \in Range(waitQueue)' : pc'[u] # "idle"
      BY <1>2, <1>4, <2>1 DEF IInv, NoDanglingWaitInfo
    <2> QED BY <1>2, <2>2 DEF NoDanglingWaitInfo
  <1>10. LinkedOrSignalled' BY <1>2, <1>4 DEF IInv, LinkedOrSignalled, Waiting
  <1>11. SlotsMatchEvents' BY <1>2, <1>4 DEF IInv, SlotsMatchEvents
  <1> QED BY <1>1, <1>7, <1>8, <1>9, <1>10, <1>11 DEF IInv

\* Every critical section and every step outside the mutex preserves IInv.
LEMMA NextIInv == IInv /\ [Next]_vars => IInv'
  <1> SUFFICES ASSUME IInv, [Next]_vars PROVE IInv' OBVIOUS
  <1> USE DEF Waiting
  <1>0. /\ nfQueue \in Seq(Notifications) /\ waitQueue \in Seq(Threads)
        /\ Injective(nfQueue) /\ Injective(waitQueue)
        /\ Range(nfQueue) \subseteq accepted
        /\ Range(waitQueue) \subseteq Threads
    BY DEF IInv, TypeOK, ExactlyOnce, NoDanglingWaitInfo, Range
  <1>1. ASSUME NEW n \in Notifications, enqueueNotification(n) PROVE IInv'
    <2>1. Enqueue(n, Append(nfQueue, n)) BY <1>1 DEF enqueueNotification
    <2>2. n \notin Range(nfQueue) => /\ Append(nfQueue, n) \in Seq(Notifications)
                                     /\ Range(Append(nfQueue, n)) = Range(nfQueue) \cup {n}
                                     /\ Injective(Append(nfQueue, n))
      BY <1>0, AppendRange
    <2> QED BY <2>1, <2>2, EnqueueIInv
  <1>2. ASSUME NEW n \in Notifications, enqueueUrgentNotification(n) PROVE IInv'
    <2>1. Enqueue(n, <<n>> \o nfQueue) BY <1>2 DEF enqueueUrgentNotification
    <2>2. n \notin Range(nfQueue) => /\ <<n>> \o nfQueue \in Seq(Notifications)
                                     /\ Range(<<n>> \o nfQueue) = Range(nfQueue) \cup {n}
                                     /\ Injective(<<n>> \o nfQueue)
      BY <1>0, PushFrontRange
    <2> QED BY <2>1, <2>2, EnqueueIInv
  <1>3. ASSUME NEW n \in Notifications, remove(n) PROVE IInv'
    <2>1. /\ n \in Range(nfQueue) /\ nfQueue' = Erase(nfQueue, n)
          /\ accepted' = accepted \ {n}
          /\ UNCHANGED <<waitQueue, wokeUp, pNf, nfAvailable, pc, timed, returned>>
      BY <1>3 DEF remove
    <2>2. /\ Erase(nfQueue, n) \in Seq(Notifications) /\ Injective(Erase(nfQueue, n))
          /\ Range(Erase(nfQueue, n)) = Range(nfQueue) \ {n}
      BY <1>0, <2>1, EraseRange
    <2>3. nfQueue # <<>> BY <1>0, <2>1, RangeEmpty
    <2>4. returned' \in Notifications \cup {NoNf} BY <2>1 DEF IInv, TypeOK
    <2> QED BY <2>1, <2>2, <2>3, <2>4, ShrinkIInv
  <1>4. ASSUME dequeueOne PROVE IInv'
    <2>1. /\ nfQueue # <<>> /\ nfQueue' = Tail(nfQueue)
          /\ accepted' = accepted \ {Head(nfQueue)} /\ returned' = Head(nfQueue)
          /\ UNCHANGED <<waitQueue, wokeUp, pNf, nfAvailable, pc, timed>>
      BY <1>4 DEF dequeueOne
    <2>2. /\ Tail(nfQueue) \in Seq(Notifications) /\ Injective(Tail(nfQueue))
          /\ Range(Tail(nfQueue)) = Range(nfQueue) \ {Head(nfQueue)}
          /\ Head(nfQueue) \in Range(nfQueue) /\ Head(nfQueue) \in Notifications
      BY <1>0, <2>1, TailRange
    <2> QED BY <2>1, <2>2, ShrinkIInv
  <1>5. ASSUME clear PROVE IInv'
    <2>1. /\ nfQueue # <<>> /\ nfQueue' = <<>>
          /\ accepted' = accepted \ Range(nfQueue)
          /\ UNCHANGED <<waitQueue, wokeUp, pNf, nfAvailable, pc, timed, returned>>
      BY <1>5 DEF clear
    <2>2. /\ <<>> \in Seq(Notifications) /\ Injective(<<>>)
          /\ Range(<<>>) = Range(nfQueue) \ Range(nfQueue)
      BY DEF Injective, Range
    <2>3. returned' \in Notifications \cup {NoNf} BY <2>1 DEF IInv, TypeOK
    <2> QED BY <2>1, <2>2, <2>3, ShrinkIInv
  <1>5a. ASSUME dispatch PROVE IInv'
    <2>1. PICK k \in 1..Len(nfQueue) :
            /\ nfQueue' = SubSeq(nfQueue, k + 1, Len(nfQueue))
            /\ accepted' = accepted \ {nfQueue[i] : i \in 1..k}
      BY <1>5a DEF dispatch
    <2>2. UNCHANGED <<waitQueue, wokeUp, pNf, nfAvailable, pc, timed, returned>>
      BY <1>5a DEF dispatch
    <2> DEFINE X == {nfQueue[i] : i \in 1..k}
    <2>3. /\ nfQueue' \in Seq(Notifications) /\ Injective(nfQueue')
          /\ Range(nfQueue') = Range(nfQueue) \ X /\ X \subseteq Range(nfQueue)
      <3>1. nfQueue \in Seq(Notifications) /\ Injective(nfQueue)
        BY DEF IInv, TypeOK, ExactlyOnce
      <3> QED BY <2>1, <3>1, DropRange
    <2>4. accepted' = accepted \ X BY <2>1
    <2>5. nfQueue # <<>> BY <2>1
    <2>6. returned' \in Notifications \cup {NoNf} BY <2>2 DEF IInv, TypeOK
    <2> HIDE DEF X
    <2> QED BY <2>2, <2>3, <2>4, <2>5, <2>6, ShrinkIInv
  <1>6. ASSUME NEW t \in Threads, NEW ms \in BOOLEAN, pc[t] = "idle", Register(t, ms)
        PROVE IInv'
    <2>1. /\ nfQueue = <<>> /\ ~wokeUp
          /\ waitQueue' = Append(waitQueue, t)
          /\ pc' = [pc EXCEPT ![t] = "registered"]
          /\ timed' = [timed EXCEPT ![t] = ms]
          /\ UNCHANGED <<nfQueue, wokeUp, pNf, nfAvailable, accepted, returned>>
      BY <1>6 DEF Register
    <2>2. t \notin Range(waitQueue) BY <1>6 DEF IInv, NoDanglingWaitInfo
    <2>3. /\ Append(waitQueue, t) \in Seq(Threads) /\ Injective(Append(waitQueue, t))
          /\ Range(Append(waitQueue, t)) = Range(waitQueue) \cup {t}
      BY <1>0, <2>2, AppendRange
    <2>4. Range(waitQueue)' = Range(waitQueue) \cup {t} /\ Injective(waitQueue)'
      BY <2>1, <2>3 DEF Range, Injective
    <2>5. \A u \in Threads : pc'[u] = IF u = t THEN "registered" ELSE pc[u]
      BY <2>1 DEF IInv, TypeOK
    <2>6. ~nfAvailable[t] BY <1>6 DEF IInv, SlotsMatchEvents
    <2>7. TypeOK' BY <2>1, <2>3 DEF IInv, TypeOK
    <2>8. ExactlyOnce' BY <2>1 DEF IInv, ExactlyOnce, Held, Range, Injective
    <2>9. NoDanglingWaitInfo' BY <1>0, <2>4, <2>5 DEF IInv, NoDanglingWaitInfo
    <2>10. LinkedOrSignalled' BY <2>1, <2>4, <2>5, <2>6 DEF IInv, LinkedOrSignalled
    <2>11. SlotsMatchEvents' BY <2>1, <2>4, <2>5, <2>6 DEF IInv, SlotsMatchEvents
    <2> QED
      BY <2>1, <2>7, <2>8, <2>9, <2>10, <2>11
      DEF IInv, WaitersMeanEmptyQueue, WokeUpMeansNobodySleeps
  <1>7. ASSUME NEW t \in Threads, EventWait(t) PROVE IInv'
    <2>1. CASE nfAvailable[t]
      <3>1. /\ Return(t) /\ waitQueue' = waitQueue /\ UNCHANGED <<nfQueue, wokeUp, timed>>
        BY <1>7, <2>1 DEF EventWait
      <3>2. Range(waitQueue) = Range(waitQueue) \ {t}
        BY <2>1 DEF IInv, SlotsMatchEvents
      <3> QED BY <1>0, <3>1, <3>2, ReturnIInv
    <2>2. CASE ~nfAvailable[t]
      <3>1. /\ pc' = [pc EXCEPT ![t] = "blocked"] /\ pc[t] = "registered"
            /\ UNCHANGED <<accepted, returned, pNf, nfAvailable, nfQueue, waitQueue, wokeUp, timed>>
        BY <1>7, <2>2 DEF EventWait
      <3>2. \A u \in Threads : pc'[u] = IF u = t THEN "blocked" ELSE pc[u]
        BY <3>1 DEF IInv, TypeOK
      <3>3. TypeOK' BY <3>1 DEF IInv, TypeOK
      <3>4. ExactlyOnce' BY <3>1 DEF IInv, ExactlyOnce, Held, Range, Injective
      <3>5. Range(waitQueue)' = Range(waitQueue) /\ Injective(waitQueue)'
        BY <1>0, <3>1 DEF Range, Injective
      <3> QED
        BY <1>0, <3>1, <3>2, <3>3, <3>4, <3>5 DEF IInv, WaitersMeanEmptyQueue,
           NoDanglingWaitInfo, LinkedOrSignalled, WokeUpMeansNobodySleeps, SlotsMatchEvents
    <2> QED BY <2>1, <2>2
  <1>8. ASSUME NEW t \in Threads, EventWake(t) PROVE IInv'
    <2>1. /\ Return(t) /\ waitQueue' = waitQueue /\ UNCHANGED <<nfQueue, wokeUp, timed>>
      BY <1>8 DEF EventWake
    <2>2. Range(waitQueue) = Range(waitQueue) \ {t}
      BY <1>8 DEF EventWake, IInv, SlotsMatchEvents
    <2> QED BY <1>0, <2>1, <2>2, ReturnIInv
  <1>9. ASSUME NEW t \in Threads, EventTimeOut(t) PROVE IInv'
    <2>1. /\ pc' = [pc EXCEPT ![t] = "timedOut"]
          /\ UNCHANGED <<accepted, returned, pNf, nfAvailable, nfQueue, waitQueue, wokeUp, timed>>
      BY <1>9 DEF EventTimeOut
    <2>2. \A u \in Threads : pc'[u] = IF u = t THEN "timedOut" ELSE pc[u]
      BY <2>1 DEF IInv, TypeOK
    <2>3. TypeOK' BY <2>1 DEF IInv, TypeOK
    <2>4. ExactlyOnce' BY <2>1 DEF IInv, ExactlyOnce, Held, Range, Injective
    <2>5. Range(waitQueue)' = Range(waitQueue) /\ Injective(waitQueue)'
      BY <1>0, <2>1 DEF Range, Injective
    <2> QED
      BY <1>0, <2>1, <2>2, <2>3, <2>4, <2>5 DEF IInv, WaitersMeanEmptyQueue,
         NoDanglingWaitInfo, LinkedOrSignalled, WokeUpMeansNobodySleeps, SlotsMatchEvents
  <1>10. ASSUME NEW t \in Threads, TimedOut(t) PROVE IInv'
    <2>1. /\ Return(t) /\ waitQueue' = Unlink(t) /\ UNCHANGED <<nfQueue, wokeUp, timed>>
      BY <1>10 DEF TimedOut
    <2>2. /\ Unlink(t) \in Seq(Threads) /\ Injective(Unlink(t))
          /\ Range(Unlink(t)) = Range(waitQueue) \ {t}
      <3>1. CASE t \in Range(waitQueue)
        <4>1. Unlink(t) = Erase(waitQueue, t) BY <3>1 DEF Unlink
        <4>2. /\ Erase(waitQueue, t) \in Seq(Threads) /\ Injective(Erase(waitQueue, t))
              /\ Range(Erase(waitQueue, t)) = Range(waitQueue) \ {t}
          BY <1>0, <3>1, EraseRange
        <4> QED BY <4>1, <4>2
      <3>2. CASE t \notin Range(waitQueue) BY <1>0, <3>2 DEF Unlink
      <3> QED BY <3>1, <3>2
    <2> QED BY <2>1, <2>2, ReturnIInv
  <1>11. ASSUME wakeUpAll PROVE IInv'
    <2>1. /\ wokeUp' = TRUE /\ waitQueue' = <<>>
          /\ nfAvailable' = [t \in Threads |-> nfAvailable[t] \/ t \in Range(waitQueue)]
          /\ UNCHANGED <<nfQueue, pNf, pc, timed, accepted, returned>>
      BY <1>11 DEF wakeUpAll
    <2>2. \A t \in Threads : nfAvailable'[t] = (nfAvailable[t] \/ t \in Range(waitQueue))
      BY <2>1
    <2>3. Range(waitQueue)' = {} /\ Injective(waitQueue)'
      BY <2>1 DEF Range, Injective
    <2>4. TypeOK'
      <3>1. nfAvailable' \in [Threads -> BOOLEAN] BY <2>1, Zenon DEF IInv, TypeOK
      <3>2. waitQueue' \in Seq(Threads) BY <2>1
      <3> QED BY <2>1, <3>1, <3>2 DEF IInv, TypeOK
    <2>5. ExactlyOnce' BY <2>1 DEF IInv, ExactlyOnce, Held, Range, Injective
    <2>6. \A t \in Range(waitQueue) : pc[t] # "idle" BY DEF IInv, NoDanglingWaitInfo
    <2>7. LinkedOrSignalled' BY <2>1, <2>2, <2>3 DEF IInv, LinkedOrSignalled
    <2>8. SlotsMatchEvents' BY <2>1, <2>2, <2>3, <2>6 DEF IInv, SlotsMatchEvents
    <2> QED
      BY <2>1, <2>3, <2>4, <2>5, <2>7, <2>8 DEF IInv, WaitersMeanEmptyQueue,
         NoDanglingWaitInfo, WokeUpMeansNobodySleeps
  <1>12. CASE UNCHANGED vars
    <2>1. UNCHANGED <<nfQueue, waitQueue, wokeUp, pNf, nfAvailable, pc, timed, accepted,
                      returned>>
      BY <1>12 DEF vars
    <2>2. Range(waitQueue)' = Range(waitQueue) /\ Injective(waitQueue)'
      BY <1>0, <2>1 DEF Range, Injective
    <2>3. TypeOK' BY <2>1 DEF IInv, TypeOK
    <2>4. ExactlyOnce' BY <2>1 DEF IInv, ExactlyOnce, Held, Range, Injective
    <2> QED
      BY <2>1, <2>2, <2>3, <2>4 DEF IInv, WaitersMeanEmptyQueue,
         NoDanglingWaitInfo, LinkedOrSignalled, WokeUpMeansNobodySleeps, SlotsMatchEvents
  <1> QED
    BY <1>1, <1>2, <1>3, <1>4, <1>5, <1>5a, <1>6, <1>7, <1>8, <1>9, <1>10, <1>11, <1>12
    DEF Next, Consume, waitDequeueNotification, dequeueNotification

\* In every reachable state of NotificationQueue, for any set of consumers and of
\* notifications: what each critical section of _mutex relies on holds.
THEOREM Invariance == Spec => []IInv
  <1> QED BY InitIInv, NextIInv, PTL DEF Spec

\* Every variable keeps its type: _waitQueue and the WaitInfo slots never hold junk.
THEOREM TypeCorrect == Spec => []TypeOK
  <1>1. IInv => TypeOK BY DEF IInv
  <1> QED BY <1>1, Invariance, PTL

\* waitDequeueNotification() loses and duplicates nothing, whatever a timeout races.
THEOREM DeliveredExactlyOnce == Spec => []ExactlyOnce
  <1>1. IInv => ExactlyOnce BY DEF IInv
  <1> QED BY <1>1, Invariance, PTL

\* No WaitInfo pointer in _waitQueue dangles.
THEOREM WaitInfoSafety == Spec => []NoDanglingWaitInfo
  <1>1. IInv => NoDanglingWaitInfo BY DEF IInv
  <1> QED BY <1>1, Invariance, PTL

\* No consumer sleeps unlinked with its Event unset, on a backlog, or through a
\* wakeUpAll() it came too late for.
THEOREM WakeupSafety == Spec => []NoLostWakeup
  <1>1. IInv => NoLostWakeup BY DEF IInv, NoLostWakeup
  <1> QED BY <1>1, Invariance, PTL

-----------------------------------------------------------------------------
(* The queue implements DeliveryContract: nfQueue is what is pending and   *)
(* the slots of the WaitInfos are what consumers have been given.          *)

\* Both enqueue functions put a notification into the queue, at the end that q
\* says, or give it to the oldest waiter.
LEMMA EnqueueRefines ==
  ASSUME IInv, NEW n \in Notifications, NEW q, Enqueue(n, q)
  PROVE  \/ Contract!Fresh(n) /\ nfQueue' = q /\ UNCHANGED <<pNf, returned>>
         \/ \E c \in Threads : Contract!Give(c, n)
  <1>1. Contract!Fresh(n)
    <2>1. n \notin Range(nfQueue) /\ n \notin Held /\ n # NoNf
      BY NoNfAssumption DEF Enqueue, IInv, ExactlyOnce
    <2> QED BY <2>1 DEF Contract!Fresh, Range, Held
  <1>2. CASE waitQueue = <<>> BY <1>1, <1>2 DEF Enqueue
  <1>3. CASE waitQueue # <<>>
    <2> DEFINE w == Head(waitQueue)
    <2>1. w \in Threads /\ w \in Range(waitQueue)
      BY <1>3, TailRange DEF IInv, TypeOK, NoDanglingWaitInfo
    <2>2. nfQueue = <<>> /\ pNf[w] = NoNf
      BY <1>3, <2>1 DEF IInv, WaitersMeanEmptyQueue, SlotsMatchEvents
    <2>3. pNf' = [pNf EXCEPT ![w] = n] /\ UNCHANGED <<nfQueue, returned>>
      BY <1>3 DEF Enqueue, HandOver
    <2>4. Contract!Give(w, n) BY <1>1, <2>2, <2>3 DEF Contract!Give
    <2> QED BY <2>1, <2>4
  <1> QED BY <1>2, <1>3

\* A return from waitDequeueNotification() receives what the slot holds.
LEMMA ReturnRefines ==
  ASSUME IInv, NEW t \in Threads, Return(t), UNCHANGED nfQueue
  PROVE  Contract!Receive(t) \/ UNCHANGED <<nfQueue, pNf, returned>>
  <1>1. /\ pNf' = [pNf EXCEPT ![t] = NoNf]
        /\ returned' = IF pNf[t] = NoNf THEN returned ELSE pNf[t]
    BY DEF Return
  <1>2. CASE pNf[t] = NoNf
    <2>1. pNf' = pNf BY <1>1, <1>2 DEF IInv, TypeOK
    <2> QED BY <1>1, <1>2, <2>1
  <1>3. CASE pNf[t] # NoNf BY <1>1, <1>3 DEF Contract!Receive
  <1> QED BY <1>2, <1>3

\* Every step of the queue is a step of the contract or changes nothing it sees.
LEMMA NextRefines == IInv /\ [Next]_vars => [Contract!Next]_(Contract!cvars)
  <1> SUFFICES ASSUME IInv, [Next]_vars
               PROVE  Contract!Next \/ UNCHANGED <<nfQueue, pNf, returned>>
    BY DEF Contract!cvars
  <1>1. ASSUME NEW n \in Notifications, enqueueNotification(n) PROVE Contract!Next
    <2>1. Enqueue(n, Append(nfQueue, n)) BY <1>1 DEF enqueueNotification
    <2> QED BY <2>1, EnqueueRefines DEF Contract!Next, Contract!Put
  <1>2. ASSUME NEW n \in Notifications, enqueueUrgentNotification(n) PROVE Contract!Next
    <2>1. Enqueue(n, <<n>> \o nfQueue) BY <1>2 DEF enqueueUrgentNotification
    <2> QED BY <2>1, EnqueueRefines DEF Contract!Next, Contract!PutUrgent
  <1>3. ASSUME NEW n \in Notifications, remove(n) PROVE Contract!Next
    <2>0. /\ n \in Range(nfQueue) /\ nfQueue \in Seq(Notifications)
          /\ Injective(nfQueue)
      BY <1>3 DEF remove, IInv, TypeOK, ExactlyOnce
    <2>1. PICK k \in 1..Len(nfQueue) :
             /\ nfQueue[k] = n
             /\ Erase(nfQueue, n) = [i \in 1..(Len(nfQueue) - 1) |->
                                       IF i < k THEN nfQueue[i] ELSE nfQueue[i + 1]]
      BY <2>0, EraseRange
    <2>2. Contract!Discard(n) BY <1>3, <2>1 DEF remove, Contract!Discard
    <2> QED BY <2>2 DEF Contract!Next
  <1>4. ASSUME dequeueOne PROVE Contract!Next
    BY <1>4 DEF dequeueOne, Contract!Next, Contract!Take
  <1>5. ASSUME clear PROVE Contract!Next
    BY <1>5 DEF clear, Contract!Next, Contract!DiscardAll
  <1>5a. ASSUME dispatch PROVE Contract!Next
    BY <1>5a DEF dispatch, Contract!Next, Contract!DiscardFirst
  <1>6. ASSUME NEW t \in Threads, NEW ms \in BOOLEAN, Register(t, ms)
        PROVE  UNCHANGED <<nfQueue, pNf, returned>>
    BY <1>6 DEF Register
  <1>7. ASSUME NEW t \in Threads, Consume(t)
        PROVE  Contract!Receive(t) \/ UNCHANGED <<nfQueue, pNf, returned>>
    BY <1>7, ReturnRefines DEF Consume, EventWait, EventWake, EventTimeOut, TimedOut
  <1>8. ASSUME wakeUpAll PROVE UNCHANGED <<nfQueue, pNf, returned>> BY <1>8 DEF wakeUpAll
  <1>9. CASE UNCHANGED vars BY <1>9 DEF vars
  <1>10. \A t \in Threads : Contract!Receive(t) => Contract!Next BY DEF Contract!Next
  <1> QED
    BY <1>1, <1>2, <1>3, <1>4, <1>5, <1>5a, <1>6, <1>7, <1>8, <1>9, <1>10
    DEF Next, waitDequeueNotification, dequeueNotification

\* NotificationQueue keeps the safety part of its contract: notifications leave in
\* order, and one bypasses the queue only when nothing is pending.
THEOREM Refinement == Spec => ImplementsContract
  <1>1. Init => Contract!Init BY DEF Init, Contract!Init
  <1> QED
    BY <1>1, Invariance, NextRefines, PTL DEF Spec, ImplementsContract, Contract!Spec

=============================================================================
