----------------------------- MODULE PartsProofs ----------------------------
(***************************************************************************)
(* Proofs about the components of module Parts, each for every value of    *)
(* its constants: the objects and the signals of Poco::ObjectPool, the     *)
(* sessions of Poco::Data::SessionPool, the messages of                    *)
(* Poco::AsyncChannel, the flag and the event of Poco::Activity, and the   *)
(* observers of Poco::Net::SocketReactor.                                  *)
(***************************************************************************)
EXTENDS Parts, FiniteSetTheorems, TLAPS

-----------------------------------------------------------------------------
(* Sequences without repetition.                                           *)

Members(s) == {s[i] : i \in 1..Len(s)}
Once(s) == \A i, j \in 1..Len(s) : s[i] = s[j] => i = j

\* e is s without its k-th element.
Removed(e, s, k) ==
  /\ Len(s) \in Nat /\ k \in 1..Len(s) /\ Len(e) = Len(s) - 1
  /\ \A i \in 1..(Len(s) - 1) : e[i] = IF i < k THEN s[i] ELSE s[i + 1]

LEMMA AppendOnce ==
  ASSUME NEW S, NEW s \in Seq(S), NEW x \in S, x \notin Members(s), Once(s)
  PROVE  /\ Append(s, x) \in Seq(S) /\ Once(Append(s, x)) /\ Append(s, x) # <<>>
         /\ Members(Append(s, x)) = Members(s) \cup {x}
  <1> DEFINE a == Append(s, x)
  <1>1. a \in Seq(S) /\ Len(a) = Len(s) + 1 /\ Len(s) \in Nat OBVIOUS
  <1>2. \A i \in 1..Len(a) : a[i] = IF i = Len(s) + 1 THEN x ELSE s[i] BY <1>1
  <1>3. Len(s) + 1 \in 1..Len(a) /\ \A i \in 1..Len(s) : i \in 1..Len(a) /\ i # Len(s) + 1
    BY <1>1
  <1>4. \A i \in 1..Len(a) : i = Len(s) + 1 \/ i \in 1..Len(s) BY <1>1
  <1>5. a # <<>> BY <1>1
  <1> HIDE DEF a
  <1>6. Members(a) = Members(s) \cup {x} BY <1>2, <1>3, <1>4 DEF Members
  <1>7. Once(a)
    <2> SUFFICES ASSUME NEW i \in 1..Len(a), NEW j \in 1..Len(a), a[i] = a[j]
                 PROVE  i = j
      BY DEF Once
    <2>1. CASE i = Len(s) + 1 BY <2>1, <1>2, <1>4 DEF Members
    <2>2. CASE j = Len(s) + 1 BY <2>2, <1>2, <1>4 DEF Members
    <2>3. CASE i # Len(s) + 1 /\ j # Len(s) + 1 BY <2>3, <1>2, <1>4 DEF Once
    <2> QED BY <2>1, <2>2, <2>3
  <1> QED BY <1>1, <1>5, <1>6, <1>7 DEF a

LEMMA RemoveOnce ==
  ASSUME NEW s, NEW e, NEW k, Removed(e, s, k), Once(s)
  PROVE  Once(e) /\ Members(e) = Members(s) \ {s[k]}
  <1>1. /\ Len(s) \in Nat /\ k \in 1..Len(s) /\ Len(e) = Len(s) - 1
        /\ \A i \in 1..(Len(s) - 1) : e[i] = IF i < k THEN s[i] ELSE s[i + 1]
    BY DEF Removed
  <1>2. \A i \in 1..Len(e) : i \in 1..Len(s) /\ i + 1 \in 1..Len(s) BY <1>1
  <1>3. Once(e)
    <2> SUFFICES ASSUME NEW i \in 1..Len(e), NEW j \in 1..Len(e), e[i] = e[j]
                 PROVE  i = j
      BY DEF Once
    <2> DEFINE m == IF i < k THEN i ELSE i + 1
               n == IF j < k THEN j ELSE j + 1
    <2>1. m \in 1..Len(s) /\ n \in 1..Len(s) /\ e[i] = s[m] /\ e[j] = s[n] BY <1>1, <1>2
    <2>2. m = n BY <2>1 DEF Once
    <2> QED BY <1>1, <2>2
  <1>4. ASSUME NEW y \in Members(e) PROVE y \in Members(s) \ {s[k]}
    <2>1. PICK i \in 1..Len(e) : y = e[i] BY <1>4 DEF Members
    <2> DEFINE m == IF i < k THEN i ELSE i + 1
    <2>2. m \in 1..Len(s) /\ m # k /\ y = s[m] BY <1>1, <1>2, <2>1
    <2>3. s[m] # s[k] BY <1>1, <2>2 DEF Once
    <2> QED BY <2>2, <2>3 DEF Members
  <1>5. ASSUME NEW y \in Members(s) \ {s[k]} PROVE y \in Members(e)
    <2>1. PICK m \in 1..Len(s) : y = s[m] BY <1>5 DEF Members
    <2>2. m # k BY <2>1, <1>5
    <2> DEFINE i == IF m < k THEN m ELSE m - 1
    <2>3. i \in 1..Len(e) /\ e[i] = s[m] BY <1>1, <2>2
    <2> QED BY <2>1, <2>3 DEF Members
  <1> QED BY <1>3, <1>4, <1>5

LEMMA TailOnce ==
  ASSUME NEW S, NEW s \in Seq(S), Once(s), s # <<>>
  PROVE  /\ Tail(s) \in Seq(S) /\ Once(Tail(s)) /\ Head(s) \in Members(s)
         /\ Members(Tail(s)) = Members(s) \ {Head(s)}
  <1> DEFINE e == Tail(s)
  <1>1. /\ Len(s) \in Nat /\ 1 \in 1..Len(s) /\ Head(s) = s[1]
        /\ e \in Seq(S) /\ Len(e) = Len(s) - 1
    OBVIOUS
  <1>2. PICK k \in 1..Len(s) : k = 1 BY <1>1
  <1>3. \A i \in 1..(Len(s) - 1) : e[i] = IF i < k THEN s[i] ELSE s[i + 1] BY <1>1, <1>2
  <1> HIDE DEF e
  <1>4. Once(e) /\ Members(e) = Members(s) \ {s[k]}
    <2>1. Removed(e, s, k) BY <1>1, <1>3 DEF Removed
    <2> QED BY <2>1, RemoveOnce
  <1> QED BY <1>1, <1>2, <1>4 DEF Members, e

LEMMA FrontOnce ==
  ASSUME NEW S, NEW s \in Seq(S), Once(s), s # <<>>
  PROVE  /\ SubSeq(s, 1, Len(s) - 1) \in Seq(S) /\ Once(SubSeq(s, 1, Len(s) - 1))
         /\ Len(SubSeq(s, 1, Len(s) - 1)) = Len(s) - 1
         /\ s[Len(s)] \in Members(s) /\ s[Len(s)] \in S
         /\ Members(SubSeq(s, 1, Len(s) - 1)) = Members(s) \ {s[Len(s)]}
  <1> DEFINE e == SubSeq(s, 1, Len(s) - 1)
  <1>1. Len(s) \in Nat /\ Len(s) # 0 OBVIOUS
  <1>2. PICK k \in 1..Len(s) : k = Len(s) BY <1>1
  <1>3. s[k] \in S /\ Len(s) - 1 \in Nat BY <1>1
  <1>4. e = [i \in 1..(Len(s) - 1) |-> s[i]]
    <2>1. e = [i \in 1..((Len(s) - 1) - 1 + 1) |-> s[1 + i - 1]] BY <1>1, <1>3
    <2> QED BY <1>1, <2>1
  <1> HIDE DEF e
  <1>5. \A i \in 1..(Len(s) - 1) : s[i] \in S BY <1>1
  <1>6. e \in Seq(S) /\ Len(e) = Len(s) - 1 BY <1>3, <1>4, <1>5
  <1>7. \A i \in 1..(Len(s) - 1) : e[i] = IF i < k THEN s[i] ELSE s[i + 1] BY <1>1, <1>2, <1>4
  <1>8. Once(e) /\ Members(e) = Members(s) \ {s[k]}
    <2>1. Removed(e, s, k) BY <1>1, <1>6, <1>7 DEF Removed
    <2> QED BY <2>1, RemoveOnce
  <1> QED BY <1>2, <1>3, <1>6, <1>8 DEF Members, e

-----------------------------------------------------------------------------
(* ObjectPool: the inductive invariant.                                    *)

Stock == {pool[i] : i \in 1..Len(pool)}
InLine == {waitQueue[i] : i \in 1..Len(waitQueue)}

\* An object is in one place, and _size counts the places that are taken: those of the
\* objects in the pool, of the objects that are lent, and of those lost.
StockCounts ==
  /\ pool \in Seq(Objects) /\ Once(pool) /\ Len(pool) <= capacity
  /\ IsFiniteSet(Stock) /\ Cardinality(Stock) = Len(pool)
  /\ lent \in [Borrowers -> Objects \cup {None}]
  /\ \A b, c \in Borrowers : lent[b] = lent[c] /\ b # c => lent[b] = None
  /\ Stock \cap Pool!Lent = {}
  /\ IsFiniteSet(Pool!Lent)
  /\ lost \in Nat
  /\ size = Len(pool) + Cardinality(Pool!Lent) + lost /\ size <= peakCapacity

\* A borrower that waits has one Event, in the queue or signalled, and no object.
LineInOrder ==
  /\ bpc \in [Borrowers -> {"out", "waiting", "timed out"}]
  /\ waitQueue \in Seq(Borrowers) /\ Once(waitQueue)
  /\ signalled \in SUBSET Borrowers /\ IsFiniteSet(signalled)
  /\ InLine \cap signalled = {}
  /\ \A b \in Borrowers : bpc[b] = "out" => b \notin InLine \cup signalled
  /\ \A b \in Borrowers : bpc[b] # "out" => lent[b] = None

Reached ==
  /\ spent \in Nat
  /\ waitQueue # <<>> => Len(pool) + peakCapacity - size <= Cardinality(signalled) + spent

LEMMA SameCardinality == ASSUME NEW S PROVE Pool!Cardinality(S) = Cardinality(S)
  BY DEF Cardinality, Pool!Cardinality

\* What a change of one borrower's object does to the objects that are lent.
LEMMA LentChanges ==
  ASSUME StockCounts, NEW b \in Borrowers, NEW o \in Objects \cup {None}, o \notin Pool!Lent,
         lent[b] = None \/ o = None, lent' = [lent EXCEPT ![b] = o]
  PROVE  /\ (Pool!Lent)' = (Pool!Lent \ {lent[b]}) \cup ({o} \ {None})
         /\ lent' \in [Borrowers -> Objects \cup {None}]
         /\ \A c, d \in Borrowers : lent'[c] = lent'[d] /\ c # d => lent'[c] = None
  <1>1. /\ lent \in [Borrowers -> Objects \cup {None}]
        /\ \A c, d \in Borrowers : lent[c] = lent[d] /\ c # d => lent[c] = None
    BY DEF StockCounts
  <1>2. \A c \in Borrowers : lent'[c] = IF c = b THEN o ELSE lent[c] BY <1>1
  <1>3. \A c \in Borrowers : lent[c] # None => lent[c] # o BY DEF Pool!Lent
  <1>4. (Pool!Lent)' = (Pool!Lent \ {lent[b]}) \cup ({o} \ {None})
    BY <1>1, <1>2 DEF Pool!Lent
  <1> QED BY <1>1, <1>2, <1>3, <1>4

LEMMA TakeCounts ==
  ASSUME StockCounts, NEW b \in Borrowers, lent[b] = None, Pool!TakePooled(b)
  PROVE  StockCounts' /\ Len(pool') = Len(pool) - 1 /\ size' = size
  <1> DEFINE o == pool[Len(pool)]
  <1>1. /\ pool' \in Seq(Objects) /\ Once(pool') /\ Len(pool') = Len(pool) - 1
        /\ o \in Stock /\ o \in Objects /\ Stock' = Stock \ {o}
    <2>1. pool \in Seq(Objects) /\ Once(pool) /\ pool # <<>> BY DEF StockCounts, Pool!TakePooled
    <2>2. pool' = SubSeq(pool, 1, Len(pool) - 1) BY DEF Pool!TakePooled
    <2>3. Stock = Members(pool) /\ Stock' = Members(pool') BY DEF Stock, Members
    <2> QED BY <2>1, <2>2, <2>3, FrontOnce
  <1>2. /\ IsFiniteSet(Stock') /\ Cardinality(Stock') = Len(pool')
    <2>1. IsFiniteSet(Stock) /\ Cardinality(Stock) = Len(pool) BY DEF StockCounts
    <2>2. IsFiniteSet(Stock \ {o}) /\ Cardinality(Stock \ {o}) = Cardinality(Stock) - 1
      BY <1>1, <2>1, FS_RemoveElement
    <2> QED BY <1>1, <2>1, <2>2
  <1>3. size' = size BY DEF Pool!TakePooled
  <1>4. o \notin Pool!Lent /\ o # None BY <1>1, ConstantsAssumption DEF StockCounts
  <1>5. Cardinality(Pool!Lent) \in Nat BY FS_CardinalityType DEF StockCounts
  <1>6. CASE lent' = [lent EXCEPT ![b] = o] /\ lost' = lost
    <2>1. /\ lent' \in [Borrowers -> Objects \cup {None}]
          /\ \A c, d \in Borrowers : lent'[c] = lent'[d] /\ c # d => lent'[c] = None
          /\ (Pool!Lent)' = (Pool!Lent \ {lent[b]}) \cup ({o} \ {None})
      BY <1>1, <1>4, <1>6, LentChanges
    <2>2. (Pool!Lent)' = Pool!Lent \cup {o} BY <2>1, <1>4 DEF Pool!Lent
    <2>3. IsFiniteSet((Pool!Lent)') /\ Cardinality((Pool!Lent)') = Cardinality(Pool!Lent) + 1
      BY <2>2, <1>4, FS_AddElement DEF StockCounts
    <2>4. Stock' \cap (Pool!Lent)' = {} BY <1>1, <2>2 DEF StockCounts
    <2>5. size' = Len(pool') + Cardinality((Pool!Lent)') + lost'
      BY <1>1, <1>3, <1>5, <1>6, <2>3 DEF StockCounts
    <2> QED BY <1>1, <1>2, <1>3, <1>6, <2>1, <2>3, <2>4, <2>5, ConstantsAssumption DEF StockCounts
  <1>7. CASE lent' = lent /\ lost' = lost + 1
    <2>1. (Pool!Lent)' = Pool!Lent BY <1>7 DEF Pool!Lent
    <2>2. size' = Len(pool') + Cardinality((Pool!Lent)') + lost' /\ lost' \in Nat
      BY <1>1, <1>3, <1>5, <1>7, <2>1 DEF StockCounts
    <2>3. Stock' \cap (Pool!Lent)' = {} BY <1>1, <2>1 DEF StockCounts
    <2> QED BY <1>1, <1>2, <1>3, <1>7, <2>1, <2>2, <2>3, ConstantsAssumption DEF StockCounts
  <1> QED BY <1>1, <1>3, <1>6, <1>7 DEF Pool!TakePooled

LEMMA CreateCounts ==
  ASSUME StockCounts, NEW b \in Borrowers, lent[b] = None, Pool!Create(b)
  PROVE  /\ StockCounts' /\ pool' = pool
         /\ \/ size' = size + 1 /\ lent'[b] # None
            \/ size' = size /\ lent' = lent
  <1>1. pool' = pool /\ lost' = lost /\ Stock = {} /\ Stock' = {} /\ size < peakCapacity
    BY DEF Pool!Create, Stock
  <1>2. Cardinality(Pool!Lent) \in Nat BY FS_CardinalityType DEF StockCounts
  <1>3. ASSUME NEW o \in Objects \ Pool!Lent, lent' = [lent EXCEPT ![b] = o], size' = size + 1
        PROVE  StockCounts' /\ lent'[b] # None
    <2>1. o # None BY <1>3, ConstantsAssumption
    <2>2. /\ lent' \in [Borrowers -> Objects \cup {None}]
          /\ \A c, d \in Borrowers : lent'[c] = lent'[d] /\ c # d => lent'[c] = None
          /\ (Pool!Lent)' = (Pool!Lent \ {lent[b]}) \cup ({o} \ {None})
      BY <1>3, LentChanges
    <2>3. (Pool!Lent)' = Pool!Lent \cup {o} BY <2>1, <2>2 DEF Pool!Lent
    <2>4. IsFiniteSet((Pool!Lent)') /\ Cardinality((Pool!Lent)') = Cardinality(Pool!Lent) + 1
      BY <2>3, <1>3, FS_AddElement DEF StockCounts
    <2>5. size' = Len(pool') + Cardinality((Pool!Lent)') + lost' /\ size' <= peakCapacity
      BY <1>1, <1>2, <1>3, <2>4, ConstantsAssumption DEF StockCounts
    <2>6. lent'[b] = o BY <1>3 DEF StockCounts
    <2> QED BY <1>1, <2>1, <2>2, <2>4, <2>5, <2>6 DEF StockCounts
  <1>4. ASSUME lent' = lent, size' = size PROVE StockCounts'
    <2>1. (Pool!Lent)' = Pool!Lent BY <1>4 DEF Pool!Lent
    <2> QED BY <1>1, <1>4, <2>1 DEF StockCounts
  <1> QED BY <1>1, <1>3, <1>4 DEF Pool!Create

LEMMA ReturnCounts ==
  ASSUME StockCounts, NEW b \in Borrowers, Pool!returnObject(b)
  PROVE  StockCounts' /\ Len(pool') - size' = Len(pool) - size + 1
  <1> DEFINE o == lent[b]
  <1>1. o # None /\ o \in Objects /\ o \in Pool!Lent /\ o \notin Stock
    BY DEF StockCounts, Pool!returnObject, Pool!Lent
  <1>2. lent' = [lent EXCEPT ![b] = None] /\ lost' = lost BY DEF Pool!returnObject
  <1>3. Cardinality(Pool!Lent) \in Nat /\ Len(pool) \in Nat
    BY FS_CardinalityType DEF StockCounts
  <1>4. /\ lent' \in [Borrowers -> Objects \cup {None}]
        /\ \A c, d \in Borrowers : lent'[c] = lent'[d] /\ c # d => lent'[c] = None
        /\ (Pool!Lent)' = (Pool!Lent \ {o}) \cup ({None} \ {None})
    <2>1. None \notin Pool!Lent BY DEF Pool!Lent
    <2> QED BY <1>2, <2>1, LentChanges
  <1>5. IsFiniteSet((Pool!Lent)') /\ Cardinality((Pool!Lent)') = Cardinality(Pool!Lent) - 1
    <2>1. (Pool!Lent)' = Pool!Lent \ {o} BY <1>4
    <2> QED BY <2>1, <1>1, FS_RemoveElement DEF StockCounts
  <1>6. CASE Len(pool) < capacity /\ pool' = Append(pool, o) /\ size' = size
    <2>1. /\ pool' \in Seq(Objects) /\ Once(pool') /\ Stock' = Stock \cup {o}
      <3>1. Stock = Members(pool) /\ Stock' = Members(pool') BY DEF Stock, Members
      <3>2. pool \in Seq(Objects) /\ Once(pool) BY DEF StockCounts
      <3> QED BY <1>1, <1>6, <3>1, <3>2, AppendOnce
    <2>2. Len(pool') = Len(pool) + 1 BY <1>6 DEF StockCounts
    <2>3. IsFiniteSet(Stock') /\ Cardinality(Stock') = Len(pool')
      BY <1>1, <2>1, <2>2, FS_AddElement DEF StockCounts
    <2>4. Stock' \cap (Pool!Lent)' = {} BY <1>4, <2>1 DEF StockCounts
    <2>5. /\ size' = Len(pool') + Cardinality((Pool!Lent)') + lost'
          /\ Len(pool') <= capacity /\ Len(pool') - size' = Len(pool) - size + 1
      <3>1. size = Len(pool) + Cardinality(Pool!Lent) + lost /\ lost \in Nat BY DEF StockCounts
      <3>2. Len(pool') <= capacity BY <1>3, <1>6, <2>2, ConstantsAssumption
      <3>3. size' = size /\ lost' = lost BY <1>2, <1>6
      <3> QED BY <1>3, <1>5, <2>2, <3>1, <3>2, <3>3
    <2> QED BY <1>2, <1>4, <1>5, <1>6, <2>1, <2>3, <2>4, <2>5 DEF StockCounts
  <1>7. CASE pool' = pool /\ size' = size - 1
    <2>1. Stock' = Stock BY <1>7 DEF Stock
    <2>2. Stock' \cap (Pool!Lent)' = {} BY <1>4, <2>1 DEF StockCounts
    <2>3. /\ size' = Len(pool') + Cardinality((Pool!Lent)') + lost'
          /\ size' <= peakCapacity /\ Len(pool') - size' = Len(pool) - size + 1
      <3>1. size = Len(pool) + Cardinality(Pool!Lent) + lost /\ lost \in Nat BY DEF StockCounts
      <3>2. size <= peakCapacity BY DEF StockCounts
      <3>3. Len(pool') = Len(pool) /\ size' = size - 1 /\ lost' = lost BY <1>2, <1>7
      <3>4. size \in Nat /\ peakCapacity \in Nat /\ Cardinality((Pool!Lent)') \in Nat
        BY <1>3, <1>5, <3>1, ConstantsAssumption, FS_CardinalityType
      <3>5. size' = Len(pool') + Cardinality((Pool!Lent)') + lost' BY <1>3, <1>5, <3>1, <3>3
      <3>6. size' <= peakCapacity BY <3>2, <3>3, <3>4
      <3> QED BY <1>3, <3>3, <3>4, <3>5, <3>6
    <2> QED BY <1>2, <1>4, <1>5, <1>7, <2>1, <2>2, <2>3 DEF StockCounts
  <1> QED BY <1>6, <1>7 DEF Pool!returnObject

\* A borrower leaves with or without an object.
LEMMA LineLeaves ==
  ASSUME LineInOrder, NEW b \in Borrowers, b \notin InLine, waitQueue' = waitQueue,
         bpc' = [bpc EXCEPT ![b] = "out"], signalled' = signalled \ {b},
         \A c \in Borrowers : c # b => lent'[c] = lent[c]
  PROVE  LineInOrder'
  <1>1. InLine' = InLine BY DEF InLine
  <1>2. IsFiniteSet(signalled') BY FS_RemoveElement DEF LineInOrder
  <1>3. \A c \in Borrowers : bpc'[c] = IF c = b THEN "out" ELSE bpc[c] BY DEF LineInOrder
  <1> QED BY <1>1, <1>2, <1>3 DEF LineInOrder

\* A borrower begins to wait, for the first time or again.
LEMMA LineWaits ==
  ASSUME LineInOrder, NEW b \in Borrowers, b \notin InLine, lent[b] = None,
         signalled' = signalled \ {b}, Pool!Wait(b)
  PROVE  LineInOrder'
  <1>1. /\ bpc' = [bpc EXCEPT ![b] = "waiting"] /\ lent' = lent
        /\ waitQueue' = Append(waitQueue, b)
    BY DEF Pool!Wait
  <1>2. waitQueue' \in Seq(Borrowers) /\ Once(waitQueue') /\ InLine' = InLine \cup {b}
    <2>1. InLine = Members(waitQueue) /\ InLine' = Members(waitQueue') BY DEF InLine, Members
    <2>2. waitQueue \in Seq(Borrowers) /\ Once(waitQueue) BY DEF LineInOrder
    <2> QED BY <1>1, <2>1, <2>2, AppendOnce
  <1>3. IsFiniteSet(signalled') BY FS_RemoveElement DEF LineInOrder
  <1>4. \A c \in Borrowers : bpc'[c] = IF c = b THEN "waiting" ELSE bpc[c]
    BY <1>1 DEF LineInOrder
  <1> QED BY <1>1, <1>2, <1>3, <1>4 DEF LineInOrder

\* The history of spent signals is never more than what is available.
LEMMA SpendCovers ==
  ASSUME StockCounts', spent \in Nat, NEW n \in Nat, NEW x \in Nat, Pool!Spend(n)
  PROVE  /\ spent' \in Nat
         /\ Len(pool') + peakCapacity - size' <= x + spent + n =>
              Len(pool') + peakCapacity - size' <= x + spent'
  <1> DEFINE left == Len(pool') + peakCapacity - size'
  <1>1. left \in Nat
    <2>1. Len(pool') \in Nat /\ size' <= peakCapacity BY DEF StockCounts
    <2>2. size' \in Nat
      <3>1. Cardinality((Pool!Lent)') \in Nat BY FS_CardinalityType DEF StockCounts
      <3> QED BY <2>1, <3>1 DEF StockCounts
    <2> QED BY <2>1, <2>2, ConstantsAssumption
  <1>2. spent' = IF spent + n <= left THEN spent + n ELSE left
    BY DEF Pool!Spend, Pool!Available
  <1> HIDE DEF left
  <1>3. spent' \in Nat /\ (left <= x + spent + n => left <= x + spent') BY <1>1, <1>2
  <1> QED BY <1>3 DEF left

\* A borrower that has the mutex finds an object, creates one or fails to, or waits:
\* for those in line it takes with it no more than what is available becomes less.
LEMMA Looks ==
  ASSUME StockCounts, LineInOrder, Reached, NEW b \in Borrowers, b \notin InLine,
         lent[b] = None, signalled' = signalled \ {b}, NEW n \in Nat, Pool!Spend(n),
         Pool!Wait(b) \/ Pool!TakePooled(b) \/ Pool!Create(b),
         Pool!Create(b) /\ lent'[b] = None /\ b \in signalled => n = 1
  PROVE  StockCounts' /\ LineInOrder' /\ Reached'
  <1>1. /\ IsFiniteSet(signalled') /\ Cardinality(signalled) \in Nat
        /\ Cardinality(signalled') = IF b \in signalled THEN Cardinality(signalled) - 1
                                                        ELSE Cardinality(signalled)
        /\ Cardinality(signalled') \in Nat
    BY FS_RemoveElement, FS_CardinalityType DEF LineInOrder
  <1>2. /\ Len(pool) \in Nat /\ size \in Nat /\ size <= peakCapacity /\ peakCapacity \in Nat
        /\ spent \in Nat
    <2>1. Cardinality(Pool!Lent) \in Nat BY FS_CardinalityType DEF StockCounts
    <2> QED BY <2>1, ConstantsAssumption DEF StockCounts, Reached
  <1>3. CASE Pool!Wait(b)
    <2>1. pool' = pool /\ size' = size /\ lent' = lent /\ lost' = lost /\ pool = <<>>
          /\ size >= peakCapacity
      BY <1>3 DEF Pool!Wait, Pool!Exhausted
    <2>2. StockCounts'
      <3>1. Stock' = Stock /\ (Pool!Lent)' = Pool!Lent BY <2>1 DEF Stock, Pool!Lent
      <3> QED BY <2>1, <3>1 DEF StockCounts
    <2>3. LineInOrder' BY <1>3, LineWaits
    <2>4. Len(pool') + peakCapacity - size' <= Cardinality(signalled') + spent + n
      BY <1>1, <1>2, <2>1
    <2> QED BY <1>1, <1>2, <2>2, <2>3, <2>4, SpendCovers DEF Reached
  <1>4. CASE Pool!TakePooled(b)
    <2>1. StockCounts' /\ Len(pool') = Len(pool) - 1 /\ size' = size BY <1>4, TakeCounts
    <2>2. waitQueue' = waitQueue /\ bpc' = [bpc EXCEPT ![b] = "out"] BY <1>4 DEF Pool!TakePooled
    <2>3. \A c \in Borrowers : c # b => lent'[c] = lent[c]
      BY <1>4 DEF Pool!TakePooled, StockCounts
    <2>4. LineInOrder' BY <2>2, <2>3, LineLeaves
    <2>5. waitQueue # <<>> =>
            Len(pool') + peakCapacity - size' <= Cardinality(signalled') + spent + n
      BY <1>1, <1>2, <2>1 DEF Reached
    <2> QED BY <1>1, <1>2, <2>1, <2>2, <2>4, <2>5, SpendCovers DEF Reached
  <1>5. CASE Pool!Create(b)
    <2>1. /\ StockCounts' /\ pool' = pool
          /\ \/ size' = size + 1 /\ lent'[b] # None
             \/ size' = size /\ lent' = lent
      BY <1>5, CreateCounts
    <2>2. waitQueue' = waitQueue /\ bpc' = [bpc EXCEPT ![b] = "out"] BY <1>5 DEF Pool!Create
    <2>3. \A c \in Borrowers : c # b => lent'[c] = lent[c]
      BY <1>5 DEF Pool!Create, StockCounts
    <2>4. LineInOrder' BY <2>2, <2>3, LineLeaves
    <2>5. waitQueue # <<>> =>
            Len(pool') + peakCapacity - size' <= Cardinality(signalled') + spent + n
      <3>1. CASE size' = size + 1 BY <1>1, <1>2, <2>1, <3>1 DEF Reached
      <3>2. CASE size' = size /\ lent' = lent
        <4>1. b \in signalled => n = 1 BY <1>5, <3>2
        <4> QED BY <1>1, <1>2, <2>1, <3>2, <4>1 DEF Reached
      <3> QED BY <2>1, <3>1, <3>2
    <2> QED BY <1>1, <1>2, <2>1, <2>2, <2>4, <2>5, SpendCovers DEF Reached
  <1> QED BY <1>3, <1>4, <1>5

LEMMA PoolStep ==
  ASSUME StockCounts, LineInOrder, Reached, [Pool!Next]_(Pool!poolVars)
  PROVE  StockCounts' /\ LineInOrder' /\ Reached'
  <1>1. /\ Len(pool) \in Nat /\ size \in Nat /\ peakCapacity \in Nat /\ spent \in Nat
        /\ Cardinality(signalled) \in Nat
    <2>1. Cardinality(Pool!Lent) \in Nat BY FS_CardinalityType DEF StockCounts
    <2>2. Len(pool) \in Nat /\ size \in Nat BY <2>1 DEF StockCounts
    <2>3. Cardinality(signalled) \in Nat BY FS_CardinalityType DEF LineInOrder
    <2> QED BY <2>2, <2>3, ConstantsAssumption DEF Reached
  <1>2. ASSUME NEW b \in Borrowers, Pool!borrowObject(b)
        PROVE  StockCounts' /\ LineInOrder' /\ Reached'
    <2>1. /\ bpc[b] = "out" /\ lent[b] = None /\ signalled' = signalled /\ Pool!Spend(0)
          /\ Pool!Wait(b) \/ Pool!TakePooled(b) \/ Pool!Create(b)
      BY <1>2 DEF Pool!borrowObject
    <2>2. b \notin InLine /\ b \notin signalled BY <2>1 DEF LineInOrder
    <2>3. signalled' = signalled \ {b} BY <2>1, <2>2
    <2> QED BY <2>1, <2>2, <2>3, Looks
  <1>3. ASSUME NEW b \in Borrowers, Pool!Resume(b)
        PROVE  StockCounts' /\ LineInOrder' /\ Reached'
    <2>1. /\ bpc[b] = "waiting" /\ b \in signalled /\ signalled' = signalled \ {b}
          /\ \/ Pool!Wait(b) /\ Pool!Spend(0)
             \/ Pool!TakePooled(b) /\ Pool!Spend(0)
             \/ Pool!Create(b) /\ Pool!Spend(IF lent'[b] = None THEN 1 ELSE 0)
      BY <1>3 DEF Pool!Resume
    <2>2. b \notin InLine /\ lent[b] = None BY <2>1 DEF LineInOrder
    <2>3. CASE Pool!Create(b) /\ Pool!Spend(IF lent'[b] = None THEN 1 ELSE 0)
      <3>1. PICK n \in Nat : n = IF lent'[b] = None THEN 1 ELSE 0 OBVIOUS
      <3>2. Pool!Spend(n) BY <2>3, <3>1
      <3> QED BY <2>1, <2>2, <2>3, <3>1, <3>2, Looks
    <2>4. CASE (Pool!Wait(b) \/ Pool!TakePooled(b)) /\ Pool!Spend(0)
      <3>1. ~Pool!Create(b) BY <2>4 DEF Pool!Wait, Pool!TakePooled, Pool!Create, Pool!Exhausted
      <3> QED BY <2>1, <2>2, <2>4, <3>1, Looks
    <2> QED BY <2>1, <2>3, <2>4
  <1>4. ASSUME NEW b \in Borrowers, Pool!TimeOut(b)
        PROVE  StockCounts' /\ LineInOrder' /\ Reached'
    <2>1. /\ UNCHANGED <<pool, size, lent, waitQueue, signalled, lost, spent>>
          /\ bpc[b] = "waiting" /\ bpc' = [bpc EXCEPT ![b] = "timed out"]
      BY <1>4 DEF Pool!TimeOut
    <2>2. Stock' = Stock /\ (Pool!Lent)' = Pool!Lent /\ InLine' = InLine
      BY <2>1 DEF Stock, Pool!Lent, InLine
    <2>3. \A c \in Borrowers : bpc'[c] = IF c = b THEN "timed out" ELSE bpc[c]
      BY <2>1 DEF LineInOrder
    <2>4. StockCounts' BY <2>1, <2>2 DEF StockCounts
    <2>5. LineInOrder' BY <2>1, <2>2, <2>3 DEF LineInOrder
    <2> QED BY <2>1, <2>4, <2>5 DEF Reached
  <1>5. ASSUME NEW b \in Borrowers, Pool!ReturnNull(b)
        PROVE  StockCounts' /\ LineInOrder' /\ Reached'
    <2>1. /\ UNCHANGED <<pool, size, lent, lost>> /\ signalled' = signalled \ {b}
          /\ bpc[b] = "timed out" /\ bpc' = [bpc EXCEPT ![b] = "out"]
          /\ Pool!dequeue(b) /\ Pool!Spend(IF b \in signalled THEN 1 ELSE 0)
      BY <1>5 DEF Pool!ReturnNull
    <2>2. StockCounts'
      <3>1. Stock' = Stock /\ (Pool!Lent)' = Pool!Lent BY <2>1 DEF Stock, Pool!Lent
      <3> QED BY <2>1, <3>1 DEF StockCounts
    <2>3. /\ waitQueue' \in Seq(Borrowers) /\ Once(waitQueue') /\ InLine' = InLine \ {b}
          /\ waitQueue' # <<>> => waitQueue # <<>>
      <3>1. InLine = Members(waitQueue) /\ InLine' = Members(waitQueue') BY DEF InLine, Members
      <3>2. /\ waitQueue \in Seq(Borrowers) /\ Once(waitQueue) /\ Len(waitQueue) \in Nat
            /\ DOMAIN waitQueue = 1..Len(waitQueue)
        <4>1. waitQueue \in Seq(Borrowers) /\ Once(waitQueue) BY DEF LineInOrder
        <4> QED BY <4>1
      <3>3. CASE b \notin InLine /\ waitQueue' = waitQueue BY <3>1, <3>2, <3>3
      <3>4. ASSUME NEW k \in 1..Len(waitQueue), waitQueue[k] = b,
                   waitQueue' = [i \in 1..(Len(waitQueue) - 1) |->
                                   IF i < k THEN waitQueue[i] ELSE waitQueue[i + 1]]
            PROVE  /\ waitQueue' \in Seq(Borrowers) /\ Once(waitQueue')
                   /\ InLine' = InLine \ {b} /\ waitQueue # <<>>
        <4>1. Len(waitQueue) - 1 \in Nat BY <3>2, <3>4
        <4>2. \A i \in 1..(Len(waitQueue) - 1) :
                (IF i < k THEN waitQueue[i] ELSE waitQueue[i + 1]) \in Borrowers
          BY <3>2
        <4>3. waitQueue' \in Seq(Borrowers) /\ Len(waitQueue') = Len(waitQueue) - 1
          BY <3>4, <4>1, <4>2
        <4>4. Removed(waitQueue', waitQueue, k) BY <3>2, <3>4, <4>3 DEF Removed
        <4>5. Once(waitQueue') /\ Members(waitQueue') = Members(waitQueue) \ {b}
          BY <3>2, <3>4, <4>4, RemoveOnce
        <4>6. waitQueue # <<>> BY <3>2, <3>4
        <4> QED BY <3>1, <4>3, <4>5, <4>6
      <3> QED BY <2>1, <3>2, <3>3, <3>4 DEF Pool!dequeue, InLine
    <2>4. /\ IsFiniteSet(signalled')
          /\ Cardinality(signalled') = IF b \in signalled THEN Cardinality(signalled) - 1
                                                          ELSE Cardinality(signalled)
          /\ Cardinality(signalled') \in Nat
      BY <2>1, FS_RemoveElement, FS_CardinalityType DEF LineInOrder
    <2>5. \A c \in Borrowers : bpc'[c] = IF c = b THEN "out" ELSE bpc[c]
      BY <2>1 DEF LineInOrder
    <2>6. LineInOrder' BY <2>1, <2>3, <2>4, <2>5 DEF LineInOrder
    <2>7. PICK n \in Nat : n = IF b \in signalled THEN 1 ELSE 0 OBVIOUS
    <2>8. Pool!Spend(n) BY <2>1, <2>7
    <2>9. waitQueue # <<>> =>
            Len(pool') + peakCapacity - size' <= Cardinality(signalled') + spent + n
      <3>1. pool' = pool /\ size' = size BY <2>1
      <3> QED BY <1>1, <2>4, <2>7, <3>1 DEF Reached
    <2> QED BY <1>1, <2>2, <2>3, <2>4, <2>6, <2>8, <2>9, SpendCovers DEF Reached
  <1>6. ASSUME NEW b \in Borrowers, Pool!returnObject(b)
        PROVE  StockCounts' /\ LineInOrder' /\ Reached'
    <2>1. StockCounts' /\ Len(pool') - size' = Len(pool) - size + 1 BY <1>6, ReturnCounts
    <2>2. bpc' = bpc /\ Pool!signal /\ Pool!Spend(0) /\ lent' = [lent EXCEPT ![b] = None]
      BY <1>6 DEF Pool!returnObject
    <2>3. \A c \in Borrowers : lent'[c] = lent[c] \/ lent'[c] = None BY <2>2 DEF StockCounts
    <2>4. CASE waitQueue = <<>>
      <3>1. waitQueue' = waitQueue /\ signalled' = signalled BY <2>2, <2>4 DEF Pool!signal
      <3>2. InLine' = InLine BY <3>1 DEF InLine
      <3>3. LineInOrder' BY <2>2, <2>3, <3>1, <3>2 DEF LineInOrder
      <3> QED BY <1>1, <2>1, <2>2, <2>4, <3>1, <3>3, SpendCovers DEF Reached
    <2>5. CASE waitQueue # <<>>
      <3>1. waitQueue' = Tail(waitQueue) /\ signalled' = signalled \cup {Head(waitQueue)}
        BY <2>2, <2>5 DEF Pool!signal
      <3>2. /\ waitQueue' \in Seq(Borrowers) /\ Once(waitQueue') /\ Head(waitQueue) \in InLine
            /\ InLine' = InLine \ {Head(waitQueue)}
        <4>1. InLine = Members(waitQueue) /\ InLine' = Members(waitQueue') BY DEF InLine, Members
        <4>2. waitQueue \in Seq(Borrowers) /\ Once(waitQueue) BY DEF LineInOrder
        <4> QED BY <2>5, <3>1, <4>1, <4>2, TailOnce
      <3>3. Head(waitQueue) \in Borrowers /\ Head(waitQueue) \notin signalled
        <4>1. InLine \cap signalled = {} /\ waitQueue \in Seq(Borrowers) BY DEF LineInOrder
        <4> QED BY <2>5, <3>2, <4>1
      <3>4. /\ IsFiniteSet(signalled') /\ Cardinality(signalled') = Cardinality(signalled) + 1
        BY <3>1, <3>3, FS_AddElement DEF LineInOrder
      <3>5. LineInOrder' BY <2>2, <2>3, <3>1, <3>2, <3>3, <3>4 DEF LineInOrder
      <3>6. Len(pool') \in Nat /\ size' \in Nat
        <4>1. Cardinality((Pool!Lent)') \in Nat BY <2>1, FS_CardinalityType DEF StockCounts
        <4>2. Len(pool') \in Nat /\ lost' \in Nat BY <2>1 DEF StockCounts
        <4>3. size' = Len(pool') + Cardinality((Pool!Lent)') + lost' BY <2>1 DEF StockCounts
        <4> QED BY <4>1, <4>2, <4>3
      <3>7. Len(pool') + peakCapacity - size' <= Cardinality(signalled') + spent + 0
        BY <1>1, <2>1, <2>5, <3>4, <3>6 DEF Reached
      <3>8. Cardinality(signalled') \in Nat BY <1>1, <3>4
      <3> QED BY <1>1, <2>1, <2>2, <3>5, <3>7, <3>8, SpendCovers DEF Reached
    <2> QED BY <2>4, <2>5
  <1>7. CASE UNCHANGED Pool!poolVars
    <2>1. UNCHANGED <<pool, size, lent, bpc, waitQueue, signalled, lost, spent>>
      BY <1>7 DEF Pool!poolVars
    <2>2. Stock' = Stock /\ (Pool!Lent)' = Pool!Lent /\ InLine' = InLine
      BY <2>1 DEF Stock, Pool!Lent, InLine
    <2> QED BY <2>1, <2>2 DEF StockCounts, LineInOrder, Reached
  <1> QED BY <1>2, <1>3, <1>4, <1>5, <1>6, <1>7 DEF Pool!Next

LEMMA PoolAlways == Spec => [](StockCounts /\ LineInOrder /\ Reached)
  <1>1. Init => StockCounts /\ LineInOrder /\ Reached
    <2> SUFFICES ASSUME Pool!Init PROVE StockCounts /\ LineInOrder /\ Reached
      BY DEF Init
    <2>1. Stock = {} /\ Pool!Lent = {} /\ InLine = {}
      BY DEF Pool!Init, Stock, Pool!Lent, InLine
    <2>2. StockCounts
      BY <2>1, FS_EmptySet, ConstantsAssumption DEF Pool!Init, StockCounts, Once
    <2>3. LineInOrder BY <2>1, FS_EmptySet DEF Pool!Init, LineInOrder, Once
    <2> QED BY <2>2, <2>3 DEF Pool!Init, Reached
  <1>2. [Next]_vars => [Pool!Next]_(Pool!poolVars)
    BY DEF vars, ofPool, Pool!poolVars, Next, PoolNext, SPoolNext, AsyncNext, Aside, ActNext,
           ReactorNext
  <1> QED BY <1>1, <1>2, PoolStep, PTL DEF Spec

\* For any number of objects and borrowers and any capacities: an object is in the pool
\* once or with one borrower, and _size counts exactly these and the objects whose
\* activation failed, through every failure of the factory and every timeout.
THEOREM ObjectsAccountedFor == Spec => []PoolAccounts
  <1>1. ASSUME StockCounts PROVE PoolAccounts
    <2>1. Pool!Pooled = Stock
      <3>1. pool \in Seq(Objects) BY <1>1 DEF StockCounts
      <3>2. DOMAIN pool = 1..Len(pool) BY <3>1
      <3> QED BY <3>2 DEF Stock, Pool!Pooled
    <2>2. /\ Cardinality(Stock \cup Pool!Lent) = Len(pool) + Cardinality(Pool!Lent)
      <3>1. /\ IsFiniteSet(Stock) /\ IsFiniteSet(Pool!Lent) /\ Stock \cap Pool!Lent = {}
            /\ Cardinality(Stock) = Len(pool) /\ Len(pool) \in Nat
        BY <1>1 DEF StockCounts
      <3>2. Cardinality(Pool!Lent) \in Nat BY <3>1, FS_CardinalityType
      <3>3. Cardinality(Stock \cup Pool!Lent) =
              Cardinality(Stock) + Cardinality(Pool!Lent) - Cardinality(Stock \cap Pool!Lent)
        BY <3>1, FS_Union
      <3>4. Cardinality(Stock \cap Pool!Lent) = 0 BY <3>1, FS_EmptySet
      <3> QED BY <3>1, <3>2, <3>3, <3>4
    <2> QED BY <1>1, <2>1, <2>2, SameCardinality DEF StockCounts, Pool!PoolAccounts, PoolAccounts
  <1> QED BY <1>1, PoolAlways, PTL

\* For any number of borrowers: while one is in line, everything available is about to be
\* taken by a signalled borrower, or its signal was spent on one that could not use it.
THEOREM NobodySleepsNextToAnObject == Spec => []SignalsReach
  <1>1. Reached => SignalsReach
    BY SameCardinality DEF Reached, SignalsReach, Pool!SignalsReach, Pool!Available
  <1> QED BY <1>1, PoolAlways, PTL

-----------------------------------------------------------------------------
(* SessionPool: lists without repetition and what erasing loops leave.     *)

LEMMA SameCount == ASSUME NEW S PROVE SPool!Cardinality(S) = Cardinality(S)
  BY DEF Cardinality, SPool!Cardinality

\* A list without repetition has as many members as entries.
LEMMA MembersCount ==
  ASSUME NEW S, NEW s \in Seq(S), Once(s)
  PROVE  IsFiniteSet(Members(s)) /\ Cardinality(Members(s)) = Len(s)
  <1>1. Len(s) \in Nat OBVIOUS
  <1> DEFINE f == [i \in 1..Len(s) |-> s[i]]
  <1>2. f \in [1..Len(s) -> Members(s)] BY DEF Members
  <1>3. f \in Injection(1..Len(s), Members(s)) BY <1>2 DEF Once, Injection, IsInjective
  <1>4. f \in Surjection(1..Len(s), Members(s)) BY <1>2 DEF Members, Surjection
  <1>5. ExistsBijection(1..Len(s), Members(s))
    BY <1>3, <1>4 DEF Bijection, ExistsBijection
  <1> QED BY <1>1, <1>5, FS_NatBijection, FS_CountingElements

\* The loops that erase entries keep the others, each once.
LEMMA KeepOnce ==
  ASSUME NEW S, NEW s \in Seq(S), Once(s), NEW G
  PROVE  /\ SPool!Keep(s, G) \in Seq(S) /\ Once(SPool!Keep(s, G))
         /\ Members(SPool!Keep(s, G)) = Members(s) \cap G
  <1> DEFINE kept == {i \in DOMAIN s : s[i] \in G}
             n == SPool!Cardinality(kept)
             rank == [i \in kept |-> Cardinality({j \in kept : j <= i})]
             UpTo(i) == SPool!Cardinality({j \in kept : j <= i})
             place(k) == CHOOSE i \in kept : UpTo(i) = k
             e == [k \in 1..n |-> s[place(k)]]
  <1>1. Len(s) \in Nat /\ DOMAIN s = 1..Len(s) /\ \A i \in 1..Len(s) : s[i] \in S OBVIOUS
  <1>2. IsFiniteSet(kept) /\ n = Cardinality(kept) /\ n \in Nat
    <2>1. IsFiniteSet(1..Len(s)) BY <1>1, FS_Interval
    <2>2. n = Cardinality(kept) BY SameCount
    <2> HIDE DEF n
    <2> QED BY <1>1, <2>1, <2>2, FS_Subset, FS_CardinalityType
  <1>3. ASSUME NEW i \in kept PROVE rank[i] \in 1..n
    <2> DEFINE T == {j \in kept : j <= i}
    <2>1. T \in SUBSET kept /\ i \in T BY <1>1
    <2>2. IsFiniteSet(T) /\ Cardinality(T) <= n /\ Cardinality(T) \in Nat
      BY <1>2, <2>1, FS_Subset, FS_CardinalityType
    <2>3. Cardinality(T) # 0 BY <2>1, <2>2, FS_EmptySet
    <2>4. rank[i] = Cardinality(T) OBVIOUS
    <2> HIDE DEF T, rank, kept
    <2> QED BY <1>2, <2>2, <2>3, <2>4
  <1>4. ASSUME NEW i \in kept, NEW k \in kept, i < k PROVE rank[i] # rank[k]
    <2> DEFINE T == {j \in kept : j <= i}
               U == {j \in kept : j <= k}
    <2>1. T \in SUBSET U /\ k \in U /\ k \notin T /\ U \in SUBSET kept BY <1>1, <1>4
    <2>2. IsFiniteSet(U) BY <1>2, <2>1, FS_Subset
    <2>3. Cardinality(U) # Cardinality(T) BY <2>1, <2>2, FS_Subset
    <2> QED BY <2>3
  <1>5. \A i, k \in kept : rank[i] = rank[k] => i = k
    <2> SUFFICES ASSUME NEW i \in kept, NEW k \in kept, i # k PROVE rank[i] # rank[k]
      OBVIOUS
    <2>1. i < k \/ k < i BY <1>1
    <2> QED BY <1>4, <2>1
  <1>6. rank \in Injection(kept, 1..n)
    <2>1. rank = [i \in kept |-> rank[i]] OBVIOUS
    <2> HIDE DEF rank
    <2> QED BY <1>3, <1>5, <2>1 DEF Injection, IsInjective
  <1>7. \A k \in 1..n : \E i \in kept : rank[i] = k
    <2>1. IsFiniteSet(1..n) /\ Cardinality(1..n) = n BY <1>2, FS_Interval
    <2> HIDE DEF rank, n, kept
    <2>2. Cardinality(kept) = Cardinality(1..n) BY <1>2, <2>1
    <2>3. rank \in Surjection(kept, 1..n) BY <1>6, <2>1, <2>2, FS_Injection
    <2> QED BY <2>3 DEF Surjection
  <1>8. \A k \in 1..n : place(k) \in kept /\ rank[place(k)] = k
    <2>1. \A i \in kept : UpTo(i) = rank[i] BY SameCount
    <2> HIDE DEF rank, n, kept, UpTo
    <2> QED BY <1>7, <2>1
  <1>9. SPool!Keep(s, G) = e BY DEF SPool!Keep
  <1>10. \A i \in kept : rank[i] \in 1..n /\ place(rank[i]) = i
    <2> HIDE DEF rank, n, kept, place
    <2> QED BY <1>3, <1>5, <1>8
  <1>11. \A i \in kept : i \in 1..Len(s) /\ s[i] \in G BY <1>1
  <1>12. \A i \in 1..Len(s) : s[i] \in G => i \in kept BY <1>1
  <1> HIDE DEF rank, n, kept, place
  <1>13. e \in Seq(S) /\ Len(e) = n /\ \A k \in 1..n : e[k] = s[place(k)]
    <2>1. \A k \in 1..n : s[place(k)] \in S BY <1>1, <1>8, <1>11
    <2> QED BY <1>2, <2>1
  <1> HIDE DEF e
  <1>14. Once(e)
    <2> SUFFICES ASSUME NEW i \in 1..n, NEW k \in 1..n, e[i] = e[k] PROVE i = k
      BY <1>13 DEF Once
    <2>1. place(i) = place(k) BY <1>8, <1>11, <1>13 DEF Once
    <2> QED BY <1>8, <2>1
  <1>15. Members(e) = Members(s) \cap G
    <2>1. ASSUME NEW y \in Members(e) PROVE y \in Members(s) \cap G
      <3>1. PICK k \in 1..n : y = e[k] BY <1>13, <2>1 DEF Members
      <3> QED BY <1>8, <1>11, <1>13, <3>1 DEF Members
    <2>2. ASSUME NEW y \in Members(s) \cap G PROVE y \in Members(e)
      <3>1. PICK i \in 1..Len(s) : y = s[i] BY <2>2 DEF Members
      <3>2. i \in kept BY <1>12, <2>2, <3>1
      <3>3. rank[i] \in 1..n /\ e[rank[i]] = y BY <1>10, <1>13, <3>1, <3>2
      <3> QED BY <1>13, <3>3 DEF Members
    <2> QED BY <2>1, <2>2
  <1> QED BY <1>9, <1>13, <1>14, <1>15

-----------------------------------------------------------------------------
(* SessionPool: the inductive invariant.                                   *)

\* The sessions that are open are those the pool has, idle or active, each in one
\* place, and _nSessions counts them.
SessionCounts ==
  /\ idleSessions \in Seq(Sessions) /\ Once(idleSessions)
  /\ activeSessions \in SUBSET Sessions
  /\ Members(idleSessions) \cap activeSessions = {}
  /\ isOpen = Members(idleSessions) \cup activeSessions
  /\ IsFiniteSet(isOpen) /\ nSessions = Cardinality(isOpen) /\ nSessions <= maxSessions
  /\ hasDefault => Members(idleSessions) \cap own = {}

\* A session in use is one user's; it is active until shutdown() closes it, and who
\* then gives it back gives back a session that is unknown, not one created since.
SessionUse ==
  /\ upc \in [Users -> {"out", "get", "put back"}]
  /\ using \in [Users -> Sessions \cup {None}]
  /\ \A u, v \in Users : using[u] = using[v] /\ u # v => using[u] = None
  /\ \A u \in Users : using[u] # None =>
       /\ upc[u] # "get"
       /\ using[u] \notin Members(idleSessions)
       /\ spc # "done" => using[u] \in activeSessions
       /\ spc = "done" /\ upc[u] = "put back" => using[u] \notin activeSessions
  /\ \A u \in Users : upc[u] = "put back" => using[u] # None

\* The users whose get() is past its look at _shutdown.
Getting == {u \in Users : upc[u] = "get"}

\* After shutdown() every session that is open was opened by one of the late get().
SessionEnd ==
  /\ spc \in {"up", "stop janitor", "close", "done"}
  /\ shutDown = (spc # "up")
  /\ spc \in {"close", "done"} => janitor = "out"
  /\ late \in Nat /\ IsFiniteSet(Getting)
  /\ spc # "up" => Cardinality(Getting) <= late
  /\ spc = "done" =>
       idleSessions = <<>> /\ Cardinality(isOpen) + Cardinality(Getting) <= late
  /\ bugchecks => spc = "done"

LEMMA IdleMembers ==
  ASSUME NEW s \in Seq(Sessions)
  PROVE  {s[i] : i \in DOMAIN s} = Members(s)
  <1>1. DOMAIN s = 1..Len(s) OBVIOUS
  <1> QED BY <1>1 DEF Members

\* A set of open sessions that is closed is subtracted.
LEMMA OpenWithout ==
  ASSUME SessionCounts, NEW G \in SUBSET isOpen
  PROVE  /\ IsFiniteSet(isOpen \ G) /\ IsFiniteSet(G)
         /\ Cardinality(G) \in Nat /\ nSessions \in Nat
         /\ Cardinality(isOpen \ G) = nSessions - Cardinality(G)
         /\ Cardinality(isOpen \ G) \in Nat
  <1>1. IsFiniteSet(isOpen) /\ nSessions = Cardinality(isOpen) BY DEF SessionCounts
  <1>2. isOpen \cap G = G OBVIOUS
  <1>3. IsFiniteSet(G) BY <1>1, FS_Subset
  <1>4. Cardinality(G) \in Nat /\ nSessions \in Nat BY <1>1, <1>3, FS_CardinalityType
  <1>5. /\ IsFiniteSet(isOpen \ G)
        /\ Cardinality(isOpen \ G) = Cardinality(isOpen) - Cardinality(isOpen \cap G)
    BY <1>1, FS_Difference
  <1>6. Cardinality(isOpen \ G) \in Nat BY <1>5, FS_CardinalityType
  <1> QED BY <1>1, <1>2, <1>3, <1>4, <1>5, <1>6

\* The open sessions are the idle and the active ones, counted apart.
LEMMA OpenSplits ==
  ASSUME SessionCounts
  PROVE  nSessions = Len(idleSessions) + Cardinality(activeSessions) /\ nSessions \in Nat
  <1> DEFINE I == Members(idleSessions)
  <1>1. /\ I \cap activeSessions = {} /\ isOpen = I \cup activeSessions
        /\ IsFiniteSet(isOpen) /\ nSessions = Cardinality(isOpen)
        /\ idleSessions \in Seq(Sessions) /\ Once(idleSessions)
    BY DEF SessionCounts
  <1>2. IsFiniteSet(I) /\ Cardinality(I) = Len(idleSessions) BY <1>1, MembersCount
  <1> HIDE DEF I
  <1>3. IsFiniteSet(activeSessions) BY <1>1, FS_Subset
  <1>4. Cardinality(activeSessions) \in Nat /\ Cardinality(I) \in Nat
    BY <1>2, <1>3, FS_CardinalityType
  <1>5. Cardinality(I \cup activeSessions)
          = Cardinality(I) + Cardinality(activeSessions) - Cardinality(I \cap activeSessions)
    BY <1>2, <1>3, FS_Union
  <1>6. Cardinality(I \cap activeSessions) = 0 BY <1>1, FS_EmptySet
  <1> QED BY <1>1, <1>2, <1>4, <1>5, <1>6

\* What a purge leaves, and that _nSessions is decremented once per session it closes.
LEMMA PurgedKeeps ==
  ASSUME SessionCounts
  PROVE  /\ SPool!Purged \in Seq(Sessions) /\ Once(SPool!Purged)
         /\ Members(SPool!Purged) \subseteq Members(idleSessions)
         /\ Len(idleSessions) - Len(SPool!Purged)
              = Cardinality(Members(idleSessions) \ Members(SPool!Purged))
  <1>1. idleSessions \in Seq(Sessions) /\ Once(idleSessions) BY DEF SessionCounts
  <1>2. /\ SPool!Purged \in Seq(Sessions) /\ Once(SPool!Purged)
        /\ Members(SPool!Purged) \subseteq Members(idleSessions)
    BY <1>1, KeepOnce DEF SPool!Purged
  <1> DEFINE I == Members(idleSessions)
             P == Members(SPool!Purged)
  <1>3. /\ IsFiniteSet(I) /\ Cardinality(I) = Len(idleSessions)
        /\ Cardinality(P) = Len(SPool!Purged)
    BY <1>1, <1>2, MembersCount
  <1>4. I \cap P = P BY <1>2
  <1> HIDE DEF I, P
  <1>5. Cardinality(I \ P) = Cardinality(I) - Cardinality(I \cap P) BY <1>3, FS_Difference
  <1>6. Cardinality(I) - Cardinality(P) = Cardinality(I \ P) BY <1>4, <1>5
  <1> QED BY <1>2, <1>3, <1>6 DEF I, P

\* get() under the mutex, whatever the purge found and whether it lends an idle
\* session, creates one or throws.
LEMMA GetStep ==
  ASSUME SessionCounts, SessionUse, SessionEnd, NEW u \in Users, SPool!GetLocked(u)
  PROVE  SessionCounts' /\ SessionUse' /\ SessionEnd'
  <1> DEFINE P == SPool!Purged
             out == Members(idleSessions) \ Members(P)
             rest == isOpen \ out
  <1>1. idleSessions \in Seq(Sessions) BY DEF SessionCounts
  <1>2. /\ P \in Seq(Sessions) /\ Once(P) /\ Members(P) \subseteq Members(idleSessions)
        /\ Len(idleSessions) - Len(P) = Cardinality(out)
    BY PurgedKeeps
  <1>3. SPool!Idle \ {P[i] : i \in DOMAIN P} = out
    BY <1>1, <1>2, IdleMembers DEF SPool!Idle
  <1>4. /\ upc[u] = "get" /\ upc' = [upc EXCEPT ![u] = "out"]
        /\ UNCHANGED <<hasDefault, shutDown, janitor, spc, late, bugchecks>>
        /\ \/ /\ P # <<>>
              /\ activeSessions' = activeSessions \cup {Head(P)}
              /\ using' = [using EXCEPT ![u] = Head(P)]
              /\ own' \in {own \ out, (own \ out) \cup {Head(P)}}
              /\ idleSessions' = Tail(P)
              /\ nSessions' = nSessions - Cardinality(out) /\ isOpen' = rest
           \/ /\ P = <<>> /\ nSessions - Cardinality(out) < maxSessions
              /\ \E s \in Sessions \ (isOpen \cup {using[v] : v \in Users}) :
                   /\ activeSessions' = activeSessions \cup {s}
                   /\ using' = [using EXCEPT ![u] = s]
                   /\ isOpen' = rest \cup {s}
              /\ idleSessions' = <<>> /\ nSessions' = nSessions - Cardinality(out) + 1
           \/ /\ P = <<>> /\ idleSessions' = <<>>
              /\ nSessions' = nSessions - Cardinality(out) /\ isOpen' = rest
              /\ UNCHANGED <<activeSessions, using>>
    BY <1>2, <1>3 DEF SPool!GetLocked
  <1>5. using[u] = None /\ None \notin Sessions
    BY <1>4, ConstantsAssumption DEF SessionUse
  <1>6. /\ rest = Members(P) \cup activeSessions /\ out \in SUBSET isOpen
        /\ Members(P) \cap activeSessions = {}
    BY <1>2 DEF SessionCounts
  <1>7. /\ IsFiniteSet(rest) /\ Cardinality(rest) = nSessions - Cardinality(out)
        /\ Cardinality(rest) \in Nat /\ nSessions \in Nat /\ Cardinality(out) \in Nat
    BY <1>6, OpenWithout
  <1>8. Getting' = Getting \ {u} /\ u \in Getting
    BY <1>4 DEF Getting, SessionUse
  <1>9. /\ IsFiniteSet(Getting') /\ Cardinality(Getting') = Cardinality(Getting) - 1
        /\ Cardinality(Getting) \in Nat /\ Cardinality(Getting') \in Nat
    BY <1>8, FS_RemoveElement, FS_CardinalityType DEF SessionEnd
  <1>10. maxSessions \in Nat /\ nSessions <= maxSessions
    BY ConstantsAssumption DEF SessionCounts
  <1>11. \A v \in Users : upc'[v] = IF v = u THEN "out" ELSE upc[v]
    BY <1>4 DEF SessionUse
  <1>12. upc' \in [Users -> {"out", "get", "put back"}] BY <1>4 DEF SessionUse
  <1>13. spc = "done" => P = <<>>
    <2> SUFFICES ASSUME spc = "done" PROVE P = <<>>
      OBVIOUS
    <2>1. idleSessions = <<>> BY DEF SessionEnd
    <2>2. Members(idleSessions) = {} BY <2>1 DEF Members
    <2>3. Members(P) = {} BY <1>2, <2>2
    <2> HIDE DEF P
    <2>4. Len(P) \in Nat /\ \A i \in 1..Len(P) : FALSE BY <1>2, <2>3 DEF Members
    <2>5. Len(P) = 0 BY <2>4
    <2> QED BY <1>2, <2>5
  <1>14. spc # "up" => Cardinality(Getting') <= late
    <2>1. late \in Nat /\ (spc # "up" => Cardinality(Getting) <= late) BY DEF SessionEnd
    <2> QED BY <1>9, <2>1
  <1> HIDE DEF P, out, rest
  <1>15. CASE /\ P # <<>>
              /\ activeSessions' = activeSessions \cup {Head(P)}
              /\ using' = [using EXCEPT ![u] = Head(P)]
              /\ own' \in {own \ out, (own \ out) \cup {Head(P)}}
              /\ idleSessions' = Tail(P)
              /\ nSessions' = nSessions - Cardinality(out) /\ isOpen' = rest
    <2>1. /\ idleSessions' \in Seq(Sessions) /\ Once(idleSessions') /\ Head(P) \in Members(P)
          /\ Members(idleSessions') = Members(P) \ {Head(P)} /\ Head(P) \in Sessions
      BY <1>2, <1>15, TailOnce
    <2>2. SessionCounts'
      <3>1. hasDefault' => Members(idleSessions') \cap own' = {}
        BY <1>2, <1>4, <1>15, <2>1 DEF SessionCounts
      <3>2. nSessions' = Cardinality(isOpen') /\ nSessions' <= maxSessions
        BY <1>7, <1>10, <1>15
      <3>3. activeSessions' \in SUBSET Sessions BY <1>15, <2>1 DEF SessionCounts
      <3> QED BY <1>6, <1>7, <1>15, <2>1, <3>1, <3>2, <3>3 DEF SessionCounts
    <2>3. Head(P) \notin activeSessions /\ \A v \in Users : using[v] # Head(P)
      BY <1>2, <1>6, <2>1, <1>5 DEF SessionUse
    <2>4. \A v \in Users : using'[v] = IF v = u THEN Head(P) ELSE using[v]
      BY <1>15 DEF SessionUse
    <2>5. SessionUse'
      <3>1. using' \in [Users -> Sessions \cup {None}] BY <1>15, <2>1 DEF SessionUse
      <3>2. spc # "done" BY <1>13, <1>15
      <3>3. \A v \in Users : using'[v] # None =>
               /\ upc'[v] # "get" /\ using'[v] \notin Members(idleSessions')
               /\ using'[v] \in activeSessions'
        BY <1>2, <1>4, <1>11, <1>15, <2>1, <2>4, <3>2 DEF SessionUse
      <3>4. \A v, x \in Users : using'[v] = using'[x] /\ v # x => using'[v] = None
        BY <2>3, <2>4 DEF SessionUse
      <3>5. \A v \in Users : upc'[v] = "put back" => using'[v] # None
        BY <1>11, <2>4 DEF SessionUse
      <3> QED BY <1>4, <1>12, <3>1, <3>2, <3>3, <3>4, <3>5 DEF SessionUse
    <2>6. SessionEnd' BY <1>4, <1>9, <1>13, <1>15, <1>14 DEF SessionEnd
    <2> QED BY <2>2, <2>5, <2>6
  <1>16. ASSUME P = <<>>, nSessions - Cardinality(out) < maxSessions,
                NEW s \in Sessions, s \notin isOpen, \A v \in Users : using[v] # s,
                activeSessions' = activeSessions \cup {s},
                using' = [using EXCEPT ![u] = s], isOpen' = rest \cup {s},
                idleSessions' = <<>>, nSessions' = nSessions - Cardinality(out) + 1
         PROVE  SessionCounts' /\ SessionUse' /\ SessionEnd'
    <2>1. Members(idleSessions') = {} /\ Members(P) = {} /\ Once(idleSessions')
      BY <1>16 DEF Members, Once
    <2>2. s \notin rest BY <1>16 DEF rest
    <2>3. /\ IsFiniteSet(isOpen') /\ Cardinality(isOpen') = Cardinality(rest) + 1
      BY <1>7, <1>16, <2>2, FS_AddElement
    <2>4. SessionCounts'
      <3>1. nSessions' = Cardinality(isOpen') /\ nSessions' <= maxSessions
        BY <1>7, <1>10, <1>16, <2>3
      <3>2. idleSessions' \in Seq(Sessions) /\ activeSessions' \in SUBSET Sessions
        BY <1>16 DEF SessionCounts
      <3> QED BY <1>6, <1>16, <2>1, <2>3, <3>1, <3>2 DEF SessionCounts
    <2>5. \A v \in Users : using'[v] = IF v = u THEN s ELSE using[v]
      BY <1>16 DEF SessionUse
    <2>6. SessionUse'
      <3>1. using' \in [Users -> Sessions \cup {None}] BY <1>16 DEF SessionUse
      <3>2. \A v \in Users : using'[v] # None =>
               /\ upc'[v] # "get" /\ using'[v] \notin Members(idleSessions')
               /\ spc' # "done" => using'[v] \in activeSessions'
               /\ spc' = "done" /\ upc'[v] = "put back" => using'[v] \notin activeSessions'
        BY <1>4, <1>11, <1>16, <2>1, <2>5 DEF SessionUse
      <3>3. \A v, x \in Users : using'[v] = using'[x] /\ v # x => using'[v] = None
        BY <1>16, <2>5 DEF SessionUse
      <3>4. \A v \in Users : upc'[v] = "put back" => using'[v] # None
        BY <1>11, <2>5 DEF SessionUse
      <3> QED BY <1>12, <3>1, <3>2, <3>3, <3>4 DEF SessionUse
    <2>7. SessionEnd'
      <3>1. Cardinality(rest) <= Cardinality(isOpen) /\ Cardinality(isOpen) \in Nat
        BY <1>7 DEF SessionCounts
      <3>2. spc = "done" => Cardinality(isOpen') + Cardinality(Getting') <= late
        BY <1>7, <1>9, <2>3, <3>1 DEF SessionEnd
      <3> QED BY <1>4, <1>9, <1>16, <1>14, <3>2 DEF SessionEnd
    <2> QED BY <2>4, <2>6, <2>7
  <1>17. CASE /\ P = <<>> /\ idleSessions' = <<>>
              /\ nSessions' = nSessions - Cardinality(out) /\ isOpen' = rest
              /\ UNCHANGED <<activeSessions, using>>
    <2>1. Members(idleSessions') = {} /\ Members(P) = {} /\ Once(idleSessions')
      BY <1>17 DEF Members, Once
    <2>2. SessionCounts'
      <3>1. nSessions' = Cardinality(isOpen') /\ nSessions' <= maxSessions
        BY <1>7, <1>10, <1>17
      <3>2. idleSessions' \in Seq(Sessions) BY <1>17
      <3> QED BY <1>6, <1>7, <1>17, <2>1, <3>1, <3>2 DEF SessionCounts
    <2>3. SessionUse' BY <1>4, <1>11, <1>12, <1>17, <2>1 DEF SessionUse
    <2>4. SessionEnd'
      <3>1. Cardinality(rest) <= Cardinality(isOpen) /\ Cardinality(isOpen) \in Nat
        BY <1>7 DEF SessionCounts
      <3>2. spc = "done" => Cardinality(isOpen') + Cardinality(Getting') <= late
        BY <1>7, <1>9, <1>17, <3>1 DEF SessionEnd
      <3> QED BY <1>4, <1>9, <1>17, <1>14, <3>2 DEF SessionEnd
    <2> QED BY <2>2, <2>3, <2>4
  <1> QED BY <1>4, <1>15, <1>16, <1>17

\* putBack() under the mutex: the session becomes idle, is dropped, or is unknown.
LEMMA PutBackStep ==
  ASSUME SessionCounts, SessionUse, SessionEnd, NEW u \in Users, SPool!PutBackLocked(u)
  PROVE  SessionCounts' /\ SessionUse' /\ SessionEnd'
  <1> DEFINE s == using[u]
  <1>1. /\ upc[u] = "put back" /\ upc' = [upc EXCEPT ![u] = "out"]
        /\ using' = [using EXCEPT ![u] = None] /\ activeSessions' = activeSessions \ {s}
        /\ UNCHANGED <<hasDefault, shutDown, janitor, spc, late>>
        /\ \/ /\ s \in activeSessions /\ idleSessions' = Append(idleSessions, s)
              /\ own' = IF hasDefault THEN own \ {s} ELSE own
              /\ UNCHANGED <<nSessions, isOpen, bugchecks>>
           \/ /\ s \in activeSessions /\ nSessions' = nSessions - 1
              /\ isOpen' = isOpen \ {s} /\ own' = own \ {s}
              /\ UNCHANGED <<idleSessions, bugchecks>>
           \/ /\ s \notin activeSessions /\ bugchecks'
              /\ UNCHANGED <<idleSessions, nSessions, isOpen, own>>
    BY DEF SPool!PutBackLocked
  <1>2. /\ s # None /\ s \in Sessions /\ s \notin Members(idleSessions)
        /\ spc # "done" => s \in activeSessions
        /\ spc = "done" => s \notin activeSessions
    BY <1>1 DEF SessionUse
  <1>3. \A v \in Users : /\ using'[v] = IF v = u THEN None ELSE using[v]
                         /\ upc'[v] = IF v = u THEN "out" ELSE upc[v]
                         /\ v # u => using[v] # s
    BY <1>1, <1>2 DEF SessionUse
  <1>4. /\ using' \in [Users -> Sessions \cup {None}]
        /\ upc' \in [Users -> {"out", "get", "put back"}]
    BY <1>1 DEF SessionUse
  <1>5. Getting' = Getting
    <2>1. upc[u] = "put back" /\ \A v \in Users : upc'[v] = IF v = u THEN "out" ELSE upc[v]
      BY <1>1, <1>3
    <2> HIDE DEF s
    <2> QED BY <2>1 DEF Getting
  <1> HIDE DEF s
  <1>6. CASE /\ s \in activeSessions /\ idleSessions' = Append(idleSessions, s)
             /\ own' = IF hasDefault THEN own \ {s} ELSE own
             /\ UNCHANGED <<nSessions, isOpen, bugchecks>>
    <2>1. /\ idleSessions' \in Seq(Sessions) /\ Once(idleSessions')
          /\ Members(idleSessions') = Members(idleSessions) \cup {s}
      BY <1>2, <1>6, AppendOnce DEF SessionCounts
    <2>2. SessionCounts' BY <1>1, <1>6, <2>1 DEF SessionCounts
    <2>3. SessionUse' BY <1>1, <1>2, <1>3, <1>4, <1>6, <2>1 DEF SessionUse
    <2>4. SessionEnd' BY <1>1, <1>2, <1>5, <1>6 DEF SessionEnd
    <2> QED BY <2>2, <2>3, <2>4
  <1>7. CASE /\ s \in activeSessions /\ nSessions' = nSessions - 1
             /\ isOpen' = isOpen \ {s} /\ own' = own \ {s}
             /\ UNCHANGED <<idleSessions, bugchecks>>
    <2>1. s \in isOpen BY <1>7 DEF SessionCounts
    <2>2. /\ IsFiniteSet(isOpen') /\ Cardinality(isOpen') = nSessions - 1 /\ nSessions \in Nat
      BY <1>7, <2>1, FS_RemoveElement, FS_CardinalityType DEF SessionCounts
    <2>3. nSessions' = Cardinality(isOpen') /\ nSessions' <= maxSessions
      <3>1. maxSessions \in Nat /\ nSessions <= maxSessions
        BY ConstantsAssumption DEF SessionCounts
      <3> QED BY <1>7, <2>2, <3>1
    <2>4. SessionCounts' BY <1>1, <1>2, <1>7, <2>2, <2>3 DEF SessionCounts
    <2>5. SessionUse' BY <1>1, <1>2, <1>3, <1>4, <1>7 DEF SessionUse
    <2>6. SessionEnd' BY <1>1, <1>2, <1>5, <1>7 DEF SessionEnd
    <2> QED BY <2>4, <2>5, <2>6
  <1>8. CASE /\ s \notin activeSessions /\ bugchecks'
             /\ UNCHANGED <<idleSessions, nSessions, isOpen, own>>
    <2>1. activeSessions' = activeSessions /\ spc = "done" BY <1>1, <1>2, <1>8
    <2>2. SessionCounts' BY <1>1, <1>8, <2>1 DEF SessionCounts
    <2>3. SessionUse' BY <1>1, <1>2, <1>3, <1>4, <1>8, <2>1 DEF SessionUse
    <2>4. SessionEnd' BY <1>1, <1>5, <1>8, <2>1 DEF SessionEnd
    <2> QED BY <2>2, <2>3, <2>4
  <1> QED BY <1>1, <1>6, <1>7, <1>8 DEF s

\* The janitor closes idle sessions only, and counts each of them.
LEMMA JanitorStep ==
  ASSUME SessionCounts, SessionUse, SessionEnd, SPool!JanitorLocked
  PROVE  SessionCounts' /\ SessionUse' /\ SessionEnd'
  <1>1. idleSessions \in Seq(Sessions) /\ Once(idleSessions) BY DEF SessionCounts
  <1>2. SPool!Idle = Members(idleSessions) BY <1>1, IdleMembers DEF SPool!Idle
  <1>3. PICK G \in SUBSET Members(idleSessions) :
          /\ idleSessions' = SPool!Keep(idleSessions, Members(idleSessions) \ G)
          /\ nSessions' = nSessions - SPool!Cardinality(G)
          /\ isOpen' = isOpen \ G /\ own' = own \ G
    BY <1>2 DEF SPool!JanitorLocked
  <1>4. /\ janitor = "lock" /\ janitor' = "out"
        /\ UNCHANGED <<hasDefault, activeSessions, shutDown, upc, using, spc, late, bugchecks>>
    BY DEF SPool!JanitorLocked
  <1>5. /\ idleSessions' \in Seq(Sessions) /\ Once(idleSessions')
        /\ Members(idleSessions') = Members(idleSessions) \ G
    BY <1>1, <1>3, KeepOnce
  <1>6. G \in SUBSET isOpen BY <1>3 DEF SessionCounts
  <1>7. /\ IsFiniteSet(isOpen') /\ Cardinality(isOpen') = nSessions - Cardinality(G)
        /\ Cardinality(G) \in Nat /\ nSessions \in Nat
    BY <1>3, <1>6, OpenWithout
  <1>8. nSessions' = Cardinality(isOpen') /\ nSessions' <= maxSessions
    <2>1. maxSessions \in Nat /\ nSessions <= maxSessions
      BY ConstantsAssumption DEF SessionCounts
    <2>2. nSessions' = nSessions - Cardinality(G) BY <1>3, SameCount
    <2> QED BY <1>7, <2>1, <2>2
  <1>9. SessionCounts' BY <1>3, <1>4, <1>5, <1>7, <1>8 DEF SessionCounts
  <1>10. SessionUse' BY <1>4, <1>5 DEF SessionUse
  <1>11. SessionEnd'
    <2>1. Getting' = Getting BY <1>4 DEF Getting
    <2>2. spc \notin {"close", "done"} BY <1>4 DEF SessionEnd
    <2> QED BY <1>4, <2>1, <2>2 DEF SessionEnd
  <1> QED BY <1>9, <1>10, <1>11

\* shutdown() under the mutex closes all there is.
LEMMA ShutdownStep ==
  ASSUME SessionCounts, SessionUse, SessionEnd, SPool!ShutdownLocked
  PROVE  SessionCounts' /\ SessionUse' /\ SessionEnd'
  <1>1. idleSessions \in Seq(Sessions) /\ Once(idleSessions) BY DEF SessionCounts
  <1>2. SPool!Idle = Members(idleSessions) BY <1>1, IdleMembers DEF SPool!Idle
  <1>3. /\ spc = "close" /\ spc' = "done"
        /\ isOpen' = {} /\ idleSessions' = <<>> /\ activeSessions' = {}
        /\ UNCHANGED <<hasDefault, shutDown, upc, using, janitor, late, bugchecks>>
    BY <1>2 DEF SPool!ShutdownLocked, SessionCounts
  <1>4. nSessions = Len(idleSessions) + Cardinality(activeSessions) /\ nSessions \in Nat
    BY OpenSplits
  <1>5. nSessions' = 0
    <2>1. nSessions' = LET n == Len(idleSessions) + Cardinality(activeSessions)
                       IN  IF nSessions > n THEN nSessions - n ELSE 0
      BY SameCount DEF SPool!ShutdownLocked
    <2> QED BY <1>4, <2>1
  <1>6. Members(idleSessions') = {} /\ Once(idleSessions') BY <1>3 DEF Members, Once
  <1>7. SessionCounts'
    <2>1. IsFiniteSet(isOpen') /\ nSessions' = Cardinality(isOpen') BY <1>3, <1>5, FS_EmptySet
    <2>2. nSessions' <= maxSessions BY <1>5, ConstantsAssumption
    <2> QED BY <1>3, <1>6, <2>1, <2>2 DEF SessionCounts
  <1>8. SessionUse' BY <1>3, <1>6 DEF SessionUse
  <1>9. SessionEnd'
    <2>1. Getting' = Getting BY <1>3 DEF Getting
    <2>2. Cardinality(isOpen') = 0 BY <1>3, FS_EmptySet
    <2>3. Cardinality(Getting) \in Nat BY FS_CardinalityType DEF SessionEnd
    <2>4. Cardinality(Getting) <= late BY <1>3 DEF SessionEnd
    <2>5. Cardinality(isOpen') + Cardinality(Getting') <= late' BY <1>3, <2>1, <2>2, <2>3, <2>4
    <2> QED BY <1>3, <2>1, <2>4, <2>5 DEF SessionEnd
  <1> QED BY <1>7, <1>8, <1>9

LEMMA SessionStep ==
  ASSUME SessionCounts, SessionUse, SessionEnd, [SPool!Next]_(SPool!sessionVars)
  PROVE  SessionCounts' /\ SessionUse' /\ SessionEnd'
  <1>1. ASSUME NEW u \in Users, SPool!Get(u)
        PROVE  SessionCounts' /\ SessionUse' /\ SessionEnd'
    <2>1. /\ upc[u] = "out" /\ using[u] = None /\ ~shutDown
          /\ upc' = [upc EXCEPT ![u] = "get"]
          /\ UNCHANGED <<hasDefault, idleSessions, activeSessions, nSessions, isOpen, own,
                         shutDown, using, janitor, spc, late, bugchecks>>
      BY <1>1 DEF SPool!Get, SPool!sessions
    <2>2. SessionCounts' BY <2>1 DEF SessionCounts
    <2>3. \A v \in Users : upc'[v] = IF v = u THEN "get" ELSE upc[v]
      BY <2>1 DEF SessionUse
    <2>4. upc' \in [Users -> {"out", "get", "put back"}] BY <2>1 DEF SessionUse
    <2>5. SessionUse' BY <2>1, <2>3, <2>4 DEF SessionUse
    <2>6. Getting' = Getting \cup {u} BY <2>3 DEF Getting
    <2>7. IsFiniteSet(Getting') BY <2>6, FS_AddElement DEF SessionEnd
    <2>8. SessionEnd' BY <2>1, <2>7 DEF SessionEnd
    <2> QED BY <2>2, <2>5, <2>8
  <1>2. ASSUME NEW u \in Users, SPool!GetLocked(u)
        PROVE  SessionCounts' /\ SessionUse' /\ SessionEnd'
    BY <1>2, GetStep
  <1>3. ASSUME NEW u \in Users, SPool!PutBack(u)
        PROVE  SessionCounts' /\ SessionUse' /\ SessionEnd'
    <2>1. /\ upc[u] = "out" /\ using[u] # None
          /\ IF shutDown THEN using' = [using EXCEPT ![u] = None] /\ UNCHANGED upc
                         ELSE upc' = [upc EXCEPT ![u] = "put back"] /\ UNCHANGED using
          /\ UNCHANGED <<hasDefault, idleSessions, activeSessions, nSessions, isOpen, own,
                         shutDown, janitor, spc, late, bugchecks>>
      BY <1>3 DEF SPool!PutBack, SPool!sessions
    <2>2. SessionCounts' BY <2>1 DEF SessionCounts
    <2>3. \A v \in Users : /\ using'[v] = IF v = u /\ shutDown THEN None ELSE using[v]
                           /\ upc'[v] = IF v = u /\ ~shutDown THEN "put back" ELSE upc[v]
      BY <2>1 DEF SessionUse
    <2>4. /\ upc' \in [Users -> {"out", "get", "put back"}]
          /\ using' \in [Users -> Sessions \cup {None}]
      BY <2>1 DEF SessionUse
    <2>5. ~shutDown => spc # "done" BY DEF SessionEnd
    <2>6. SessionUse' BY <2>1, <2>3, <2>4, <2>5 DEF SessionUse
    <2>7. Getting' = Getting BY <2>1, <2>3 DEF Getting
    <2>8. SessionEnd' BY <2>1, <2>7 DEF SessionEnd
    <2> QED BY <2>2, <2>6, <2>8
  <1>4. ASSUME NEW u \in Users, SPool!PutBackLocked(u)
        PROVE  SessionCounts' /\ SessionUse' /\ SessionEnd'
    BY <1>4, PutBackStep
  <1>5. ASSUME \/ \E s \in Sessions : SPool!GoesBad(s)
               \/ SPool!Janitor \/ SPool!ShutdownStopsJanitor
               \/ UNCHANGED SPool!sessionVars
        PROVE  SessionCounts' /\ SessionUse' /\ SessionEnd'
    <2>1. /\ UNCHANGED <<hasDefault, idleSessions, activeSessions, nSessions, shutDown, isOpen,
                         own, upc, using, late, bugchecks>>
          /\ \/ UNCHANGED <<janitor, spc>>
             \/ spc \notin {"close", "done"} /\ UNCHANGED spc
             \/ spc = "stop janitor" /\ spc' = "close" /\ janitor = "out" /\ UNCHANGED janitor
      BY <1>5 DEF SPool!GoesBad, SPool!Janitor, SPool!ShutdownStopsJanitor, SPool!sessions,
                  SPool!sessionVars
    <2>2. SessionCounts' BY <2>1 DEF SessionCounts
    <2>3. SessionUse' BY <2>1 DEF SessionUse
    <2>4. Getting' = Getting BY <2>1 DEF Getting
    <2>5. SessionEnd' BY <2>1, <2>4 DEF SessionEnd
    <2> QED BY <2>2, <2>3, <2>5
  <1>6. ASSUME SPool!Shutdown PROVE SessionCounts' /\ SessionUse' /\ SessionEnd'
    <2>1. /\ spc = "up" /\ shutDown' = TRUE /\ spc' = "stop janitor"
          /\ late' = SPool!Cardinality(Getting)
          /\ UNCHANGED <<hasDefault, idleSessions, activeSessions, nSessions, isOpen, own, upc,
                         using, janitor, bugchecks>>
      BY <1>6 DEF SPool!Shutdown, SPool!sessions, Getting
    <2>2. SessionCounts' BY <2>1 DEF SessionCounts
    <2>3. SessionUse' BY <2>1 DEF SessionUse
    <2>4. Getting' = Getting BY <2>1 DEF Getting
    <2>5. late' = Cardinality(Getting) /\ late' \in Nat
      BY <2>1, SameCount, FS_CardinalityType DEF SessionEnd
    <2>6. Cardinality(Getting') <= late' BY <2>4, <2>5
    <2>7. ~bugchecks' BY <2>1 DEF SessionEnd
    <2>8. IsFiniteSet(Getting') BY <2>4 DEF SessionEnd
    <2>9. SessionEnd' BY <2>1, <2>5, <2>6, <2>7, <2>8 DEF SessionEnd
    <2> QED BY <2>2, <2>3, <2>9
  <1> QED BY <1>1, <1>2, <1>3, <1>4, <1>5, <1>6, JanitorStep, ShutdownStep DEF SPool!Next

LEMMA SessionsAlways == Spec => [](SessionCounts /\ SessionUse /\ SessionEnd)
  <1>1. Init => SessionCounts /\ SessionUse /\ SessionEnd
    <2> SUFFICES ASSUME SPool!Init PROVE SessionCounts /\ SessionUse /\ SessionEnd
      BY DEF Init
    <2>1. Members(idleSessions) = {} /\ Once(idleSessions) /\ Getting = {}
      BY DEF SPool!Init, Members, Once, Getting
    <2>2. SessionCounts
      BY <2>1, FS_EmptySet, ConstantsAssumption DEF SPool!Init, SessionCounts
    <2>3. SessionUse BY <2>1 DEF SPool!Init, SessionUse
    <2>4. SessionEnd BY <2>1, FS_EmptySet DEF SPool!Init, SessionEnd
    <2> QED BY <2>2, <2>3, <2>4
  <1>2. [Next]_vars => [SPool!Next]_(SPool!sessionVars)
    BY DEF vars, ofSPool, SPool!sessionVars, Next, PoolNext, SPoolNext, AsyncNext, Aside, ActNext,
           ReactorNext
  <1> QED BY <1>1, <1>2, SessionStep, PTL DEF Spec

\* For any number of sessions and users and any limits: _nSessions is exact and bounded,
\* a lent session is one user's and stays open until shutdown() closes it, an idle one
\* has no setting the pool overrides, and what is open after shutdown() was opened by
\* calls of get() that had looked at _shutdown before.
THEOREM SessionsAreAccountedFor == Spec => []SessionsAccounted
  <1>1. ASSUME SessionCounts, SessionUse, SessionEnd PROVE SPool!SessionsAccounted
    <2>1. idleSessions \in Seq(Sessions) /\ Once(idleSessions) BY <1>1 DEF SessionCounts
    <2>2. SPool!Idle = Members(idleSessions) BY <2>1, IdleMembers DEF SPool!Idle
    <2>3. /\ nSessions = Len(idleSessions) + SPool!Cardinality(activeSessions)
          /\ SPool!Cardinality(Members(idleSessions)) = Len(idleSessions)
      BY <1>1, <2>1, OpenSplits, MembersCount, SameCount
    <2>4. /\ Members(idleSessions) \cap activeSessions = {} /\ nSessions <= maxSessions
          /\ hasDefault => Members(idleSessions) \cap own = {}
          /\ activeSessions \subseteq isOpen
      BY <1>1 DEF SessionCounts
    <2>5. /\ \A u, v \in Users : using[u] = using[v] /\ u # v => using[u] = None
          /\ \A u \in Users : using[u] # None /\ spc # "done"
                                => using[u] \in activeSessions \cap isOpen
      BY <1>1, <2>4 DEF SessionUse
    <2>6. spc = "done" => idleSessions = <<>> /\ SPool!Cardinality(isOpen) <= late
      <3>1. Cardinality(isOpen) \in Nat /\ Cardinality(Getting) \in Nat /\ late \in Nat
        BY <1>1, FS_CardinalityType DEF SessionCounts, SessionEnd
      <3>2. spc = "done" =>
              idleSessions = <<>> /\ Cardinality(isOpen) + Cardinality(Getting) <= late
        BY <1>1 DEF SessionEnd
      <3>3. SPool!Cardinality(isOpen) = Cardinality(isOpen) BY SameCount
      <3> QED BY <3>1, <3>2, <3>3
    <2>7. bugchecks => spc = "done" BY <1>1 DEF SessionEnd
    <2> QED BY <2>2, <2>3, <2>4, <2>5, <2>6, <2>7 DEF SPool!SessionsAccounted
  <1>2. SessionCounts /\ SessionUse /\ SessionEnd => SessionsAccounted
    BY <1>1 DEF SessionsAccounted
  <1> QED BY <1>2, SessionsAlways, PTL

-----------------------------------------------------------------------------
(* AsyncChannel: the inductive invariant.                                  *)

Messages == (Loggers \X Nat) \cup {Async!Report}

ChannelTypes ==
  /\ closed = (cpc # "open")
  /\ worker \in {"none", "run", "waiting", "logging", "woken", "ended"}
  /\ worker = "logging" => inHand \in Messages
  /\ worker = "waiting" => queue = <<>>
  /\ lpc \in [Loggers -> {"out", "size", "report", "reset", "open", "enqueue"}]
  /\ count \in [Loggers -> Nat]
  /\ cpc \in {"open", "running?", "drain", "wake", "join", "pthread_join", "joining", "closed"}
  /\ queue \in Seq(Messages) /\ written \in Seq(Messages)

\* m may come before n; a report stands for messages of any logger.
Before(m, n) == m # Async!Report /\ m[1] = n[1] => m[2] < n[2]

\* What is written, what is in hand and what is queued follow one another in the order
\* in which each logger logged.
InOrder ==
  /\ \A i, j \in 1..Len(written) : i < j => Before(written[i], written[j])
  /\ \A i, j \in 1..Len(queue) : i < j => Before(queue[i], queue[j])
  /\ \A i \in 1..Len(written), j \in 1..Len(queue) : Before(written[i], queue[j])
  /\ worker = "logging" =>
       /\ \A i \in 1..Len(written) : Before(written[i], inHand)
       /\ \A j \in 1..Len(queue) : Before(inHand, queue[j])

\* A message its logger has passed on: not the one it is still working on.
Passed(m) ==
  m # Async!Report => m[2] <= count[m[1]] /\ (lpc[m[1]] # "out" => m[2] < count[m[1]])

AllPassed ==
  /\ \A i \in 1..Len(written) : Passed(written[i])
  /\ \A i \in 1..Len(queue) : Passed(queue[i])
  /\ worker = "logging" => Passed(inHand)

Done(m) == \E i \in 1..Len(written) : written[i] = m
AtHand(m) == worker = "logging" /\ inHand = m
Waiting(m) == \E i \in 1..Len(queue) : queue[i] = m

\* Nothing that is owed is lost.  Until close() wakes the thread it does not end, and
\* it runs when a message is about to be queued; when close() has seen the queue empty,
\* all that is owed is written or in hand; and when the thread has ended, written.
Kept ==
  /\ \A m \in owed : Done(m) \/ AtHand(m) \/ Waiting(m)
  /\ cpc \in {"open", "running?", "drain"} =>
       /\ ~wokeUp /\ worker \notin {"woken", "ended"}
       /\ worker = "none" => owed = {} /\ \A l \in Loggers : lpc[l] # "enqueue"
  /\ cpc \in {"wake", "join"} => \A m \in owed : Done(m) \/ AtHand(m)
  /\ cpc \in {"pthread_join", "joining", "closed"} => \A m \in owed : Done(m)

\* A channel that throws takes a message, and the thread, with it.
NothingLost == ~threw => Kept

LEMMA MessageParts ==
  ASSUME NEW m \in Messages, m # Async!Report
  PROVE  m[1] \in Loggers /\ m[2] \in Nat
  BY DEF Messages

\* Steps that neither add nor take nor write a message.
LEMMA OrderStays ==
  ASSUME InOrder, UNCHANGED <<queue, written, inHand>>, worker' = "logging" => worker = "logging"
  PROVE  InOrder'
  BY DEF InOrder, Before

LEMMA PassedStays ==
  ASSUME ChannelTypes, AllPassed, UNCHANGED <<queue, written, inHand>>,
         worker' = "logging" => worker = "logging",
         \A m \in Messages : Passed(m) => Passed(m)'
  PROVE  AllPassed'
  <1>1. \A i \in 1..Len(written) : written[i] \in Messages BY DEF ChannelTypes
  <1>2. \A i \in 1..Len(queue) : queue[i] \in Messages BY DEF ChannelTypes
  <1>3. \A m \in Messages : Passed(m) => Passed(m)' OBVIOUS
  <1>4. ASSUME NEW i \in 1..Len(written)
        PROVE  written[i] # Async!Report =>
                 /\ written[i][2] <= count'[written[i][1]]
                 /\ lpc'[written[i][1]] # "out" => written[i][2] < count'[written[i][1]]
    <2>1. PICK m \in Messages : m = written[i] BY <1>1
    <2>2. Passed(m) BY <2>1 DEF AllPassed
    <2>3. Passed(m)' BY <1>3, <2>2
    <2> QED BY <2>1, <2>3 DEF Passed
  <1>5. ASSUME NEW i \in 1..Len(queue)
        PROVE  queue[i] # Async!Report =>
                 /\ queue[i][2] <= count'[queue[i][1]]
                 /\ lpc'[queue[i][1]] # "out" => queue[i][2] < count'[queue[i][1]]
    <2>1. PICK m \in Messages : m = queue[i] BY <1>2
    <2>2. Passed(m) BY <2>1 DEF AllPassed
    <2>3. Passed(m)' BY <1>3, <2>2
    <2> QED BY <2>1, <2>3 DEF Passed
  <1>6. ASSUME worker = "logging"
        PROVE  inHand # Async!Report =>
                 /\ inHand[2] <= count'[inHand[1]]
                 /\ lpc'[inHand[1]] # "out" => inHand[2] < count'[inHand[1]]
    <2>1. PICK m \in Messages : m = inHand BY <1>6 DEF ChannelTypes
    <2>2. Passed(m) BY <1>6, <2>1 DEF AllPassed
    <2>3. Passed(m)' BY <1>3, <2>2
    <2> QED BY <2>1, <2>3 DEF Passed
  <1> QED BY <1>4, <1>5, <1>6 DEF AllPassed, Passed

\* A logger that goes on, or returns, has passed on what it had.
LEMMA LoggerMoves ==
  ASSUME ChannelTypes, NEW l \in Loggers, lpc[l] # "out", NEW p, lpc' = [lpc EXCEPT ![l] = p],
         count' = count
  PROVE  \A m \in Messages : Passed(m) => Passed(m)'
  <1>1. \A k \in Loggers : lpc'[k] # "out" => lpc[k] # "out" BY DEF ChannelTypes
  <1> QED BY <1>1, MessageParts DEF Passed

\* A notification goes to the waiting thread or to the end of the queue.
LEMMA Enqueues ==
  ASSUME ChannelTypes, InOrder, NEW m \in Messages, Async!enqueueNotification(m),
         written' = written,
         \A i \in 1..Len(written) : Before(written[i], m),
         \A i \in 1..Len(queue) : Before(queue[i], m),
         worker = "logging" => Before(inHand, m)
  PROVE  /\ InOrder' /\ wokeUp' = FALSE
         /\ \/ /\ worker = "waiting" /\ worker' = "logging" /\ inHand' = m /\ queue' = queue
               /\ queue = <<>>
            \/ /\ worker # "waiting" /\ worker' = worker /\ inHand' = inHand
               /\ queue' \in Seq(Messages) /\ Len(queue') = Len(queue) + 1
               /\ \A i \in 1..Len(queue') : queue'[i] = IF i = Len(queue) + 1 THEN m ELSE queue[i]
  <1>1. CASE worker = "waiting"
    <2>1. /\ worker' = "logging" /\ inHand' = m /\ queue' = queue /\ wokeUp' = FALSE
          /\ queue = <<>>
      BY <1>1 DEF Async!enqueueNotification, ChannelTypes
    <2>2. Len(queue) = 0 BY <2>1
    <2> QED BY <1>1, <2>1, <2>2 DEF InOrder, Before
  <1>2. CASE worker # "waiting"
    <2>1. /\ worker' = worker /\ inHand' = inHand /\ queue' = Append(queue, m)
          /\ wokeUp' = FALSE
      BY <1>2 DEF Async!enqueueNotification
    <2>2. queue \in Seq(Messages) /\ Len(queue) \in Nat BY DEF ChannelTypes
    <2>3. /\ queue' \in Seq(Messages) /\ Len(queue') = Len(queue) + 1
          /\ \A i \in 1..Len(queue') : queue'[i] = IF i = Len(queue) + 1 THEN m ELSE queue[i]
      BY <2>1, <2>2
    <2>4. \A i \in 1..Len(queue') : i # Len(queue) + 1 => i \in 1..Len(queue) BY <2>2, <2>3
    <2>5. ASSUME NEW i \in 1..Len(queue'), NEW j \in 1..Len(queue'), i < j
          PROVE  Before(queue'[i], queue'[j])
      <3>1. i # Len(queue) + 1 BY <2>2, <2>3, <2>5
      <3>2. CASE j = Len(queue) + 1 BY <2>3, <2>4, <3>1, <3>2
      <3>3. CASE j # Len(queue) + 1 BY <2>3, <2>4, <2>5, <3>1, <3>3 DEF InOrder
      <3> QED BY <3>2, <3>3
    <2>6. ASSUME NEW i \in 1..Len(written), NEW j \in 1..Len(queue')
          PROVE  Before(written[i], queue'[j])
      <3>1. CASE j = Len(queue) + 1 BY <2>3, <3>1
      <3>2. CASE j # Len(queue) + 1 BY <2>3, <2>4, <3>2 DEF InOrder
      <3> QED BY <3>1, <3>2
    <2>7. ASSUME worker = "logging", NEW j \in 1..Len(queue')
          PROVE  Before(inHand, queue'[j])
      <3>1. CASE j = Len(queue) + 1 BY <2>3, <2>7, <3>1
      <3>2. CASE j # Len(queue) + 1 BY <2>3, <2>4, <2>7, <3>2 DEF InOrder
      <3> QED BY <3>1, <3>2
    <2>8. InOrder' BY <2>1, <2>5, <2>6, <2>7 DEF InOrder, Before
    <2> QED BY <1>2, <2>1, <2>3, <2>8
  <1> QED BY <1>1, <1>2

ChannelIInv == ChannelTypes /\ InOrder /\ AllPassed /\ NothingLost

\* log() hands a message or a report to the queue.
LEMMA LogHandsOver ==
  ASSUME ChannelIInv, NEW l \in Loggers, NEW m \in Messages, NEW p \in {"out", "reset"},
         lpc[l] \in {"report", "enqueue"}, lpc' = [lpc EXCEPT ![l] = p],
         Async!enqueueNotification(m), UNCHANGED <<closed, count, cpc, written, threw>>,
         \/ m = Async!Report /\ owed' = owed
         \/ /\ m = <<l, count[l]>> /\ lpc[l] = "enqueue" /\ p = "out"
            /\ owed' = IF closed THEN owed ELSE owed \cup {m}
  PROVE  ChannelIInv'
  <1>0. ChannelTypes /\ InOrder /\ AllPassed /\ NothingLost BY DEF ChannelIInv
  <1>1. ASSUME NEW x \in Messages, Passed(x) PROVE Before(x, m)
    <2> SUFFICES ASSUME x # Async!Report, x[1] = m[1] PROVE x[2] < m[2]
      BY DEF Before
    <2>1. x[1] \in Loggers BY MessageParts
    <2>2. m # Async!Report BY <2>1, ConstantsAssumption DEF Async!Report
    <2>3. m[1] = l /\ m[2] = count[l] /\ lpc[l] # "out" BY <2>2
    <2> QED BY <1>1, <2>3 DEF Passed
  <1>2. /\ \A i \in 1..Len(written) : Before(written[i], m)
        /\ \A i \in 1..Len(queue) : Before(queue[i], m)
        /\ worker = "logging" => Before(inHand, m)
    <2>1. /\ \A i \in 1..Len(written) : written[i] \in Messages
          /\ \A i \in 1..Len(queue) : queue[i] \in Messages
          /\ worker = "logging" => inHand \in Messages
      BY <1>0 DEF ChannelTypes
    <2> QED BY <1>0, <1>1, <2>1 DEF AllPassed
  <1>3. /\ InOrder' /\ wokeUp' = FALSE
        /\ \/ /\ worker = "waiting" /\ worker' = "logging" /\ inHand' = m /\ queue' = queue
              /\ queue = <<>>
           \/ /\ worker # "waiting" /\ worker' = worker /\ inHand' = inHand
              /\ queue' \in Seq(Messages) /\ Len(queue') = Len(queue) + 1
              /\ \A i \in 1..Len(queue') : queue'[i] = IF i = Len(queue) + 1 THEN m ELSE queue[i]
    BY <1>0, <1>2, Enqueues
  <1>4. Len(queue) \in Nat BY <1>0 DEF ChannelTypes
  <1>5. /\ lpc' \in [Loggers -> {"out", "size", "report", "reset", "open", "enqueue"}]
        /\ \A k \in Loggers : lpc'[k] = IF k = l THEN p ELSE lpc[k]
    BY <1>0 DEF ChannelTypes
  <1>6. ChannelTypes' BY <1>0, <1>3, <1>5 DEF ChannelTypes
  <1>7. \A x \in Messages : Passed(x) => Passed(x)' BY <1>0, LoggerMoves
  <1>8. Passed(m)'
    <2>1. CASE m = Async!Report BY <2>1 DEF Passed
    <2>2. CASE m = <<l, count[l]>> /\ p = "out"
      <3>1. m[1] = l /\ m[2] = count[l] /\ count[l] \in Nat /\ lpc'[l] = "out"
        BY <1>0, <1>5, <2>2 DEF ChannelTypes
      <3> QED BY <3>1 DEF Passed
    <2> QED BY <2>1, <2>2
  <1>9. AllPassed'
    <2>1. ASSUME NEW x \in Messages, Passed(x)
          PROVE  x # Async!Report => /\ x[2] <= count'[x[1]]
                                     /\ lpc'[x[1]] # "out" => x[2] < count'[x[1]]
      BY <1>7, <2>1 DEF Passed
    <2>2. m # Async!Report => /\ m[2] <= count'[m[1]]
                              /\ lpc'[m[1]] # "out" => m[2] < count'[m[1]]
      BY <1>8 DEF Passed
    <2>3. \A i \in 1..Len(written) : written[i] \in Messages /\ Passed(written[i])
      BY <1>0 DEF ChannelTypes, AllPassed
    <2>4. \A i \in 1..Len(queue) : queue[i] \in Messages /\ Passed(queue[i])
      BY <1>0 DEF ChannelTypes, AllPassed
    <2>5. worker = "logging" => inHand \in Messages /\ Passed(inHand)
      BY <1>0 DEF ChannelTypes, AllPassed
    <2>6. \A i \in 1..Len(queue') : queue'[i] = m \/ \E j \in 1..Len(queue) : queue'[i] = queue[j]
      BY <1>3, <1>4
    <2>7. ASSUME NEW i \in 1..Len(queue')
          PROVE  queue'[i] = m \/ (queue'[i] \in Messages /\ Passed(queue'[i]))
      BY <2>4, <2>6
    <2>8. worker' = "logging" => inHand' = m \/ (inHand' \in Messages /\ Passed(inHand'))
      BY <1>3, <2>5
    <2> HIDE DEF Passed
    <2>9. \A i \in 1..Len(written') :
            written'[i] # Async!Report =>
              /\ written'[i][2] <= count'[written'[i][1]]
              /\ lpc'[written'[i][1]] # "out" => written'[i][2] < count'[written'[i][1]]
      BY <2>1, <2>3
    <2>10. \A i \in 1..Len(queue') :
             queue'[i] # Async!Report =>
               /\ queue'[i][2] <= count'[queue'[i][1]]
               /\ lpc'[queue'[i][1]] # "out" => queue'[i][2] < count'[queue'[i][1]]
      BY <2>1, <2>2, <2>7
    <2>11. worker' = "logging" =>
             (inHand' # Async!Report =>
               /\ inHand'[2] <= count'[inHand'[1]]
               /\ lpc'[inHand'[1]] # "out" => inHand'[2] < count'[inHand'[1]])
      BY <2>1, <2>2, <2>8
    <2> QED BY <2>9, <2>10, <2>11 DEF AllPassed, Passed
  <1>10. NothingLost'
    <2> SUFFICES ASSUME ~threw PROVE Kept' BY DEF NothingLost
    <2>0. Kept BY <1>0 DEF NothingLost
    <2>1. \A x \in owed : Done(x)' \/ AtHand(x)' \/ Waiting(x)'
      <3> SUFFICES ASSUME NEW x \in owed PROVE Done(x)' \/ AtHand(x)' \/ Waiting(x)'
        OBVIOUS
      <3>1. CASE Done(x) BY <3>1 DEF Done
      <3>2. CASE AtHand(x) BY <1>3, <3>2 DEF AtHand
      <3>3. CASE Waiting(x)
        <4>1. PICK i \in 1..Len(queue) : queue[i] = x BY <3>3 DEF Waiting
        <4>2. queue # <<>> BY <1>0, <4>1 DEF ChannelTypes
        <4>3. i \in 1..Len(queue') /\ queue'[i] = x BY <1>3, <1>4, <4>1, <4>2
        <4> QED BY <4>3 DEF Waiting
      <3> QED BY <2>0, <3>1, <3>2, <3>3 DEF Kept
    <2>2. AtHand(m)' \/ Waiting(m)'
      <3>1. CASE worker = "waiting" BY <1>3, <3>1 DEF AtHand
      <3>2. CASE worker # "waiting"
        <4>1. Len(queue) + 1 \in 1..Len(queue') /\ queue'[Len(queue) + 1] = m
          BY <1>3, <1>4, <3>2
        <4> QED BY <4>1 DEF Waiting
      <3> QED BY <3>1, <3>2
    <2>3. \A x \in owed' : Done(x)' \/ AtHand(x)' \/ Waiting(x)' BY <2>1, <2>2
    <2>4. owed' # owed => cpc = "open" /\ lpc[l] = "enqueue" BY <1>0 DEF ChannelTypes
    <2>5. ASSUME cpc' \in {"open", "running?", "drain"}
          PROVE  /\ ~wokeUp' /\ worker' \notin {"woken", "ended"}
                 /\ worker' = "none" => owed' = {} /\ \A k \in Loggers : lpc'[k] # "enqueue"
      <3>1. /\ worker \notin {"woken", "ended"}
            /\ worker = "none" => owed = {} /\ \A k \in Loggers : lpc[k] # "enqueue"
        BY <2>0, <2>5 DEF Kept
      <3>2. worker' = "none" => worker = "none" BY <1>3
      <3> QED BY <1>3, <1>5, <2>4, <3>1, <3>2
    <2>6. ASSUME cpc' \in {"wake", "join"} PROVE \A x \in owed' : Done(x)' \/ AtHand(x)'
      <3>1. owed' = owed /\ \A x \in owed : Done(x) \/ AtHand(x)
        BY <2>0, <2>4, <2>6 DEF Kept
      <3>2. \A x : AtHand(x) => AtHand(x)' BY <1>3 DEF AtHand
      <3>3. \A x : Done(x) => Done(x)' BY DEF Done
      <3> QED BY <3>1, <3>2, <3>3
    <2>7. ASSUME cpc' \in {"pthread_join", "joining", "closed"} PROVE \A x \in owed' : Done(x)'
      <3>1. owed' = owed /\ \A x \in owed : Done(x) BY <2>0, <2>4, <2>7 DEF Kept
      <3>2. \A x : Done(x) => Done(x)' BY DEF Done
      <3> QED BY <3>1, <3>2
    <2> QED BY <2>3, <2>5, <2>6, <2>7 DEF Kept
  <1> QED BY <1>3, <1>6, <1>9, <1>10 DEF ChannelIInv

\* The thread takes the first message of the queue.
LEMMA TakesFirst ==
  ASSUME ChannelIInv, Async!Dequeue, queue # <<>>
  PROVE  ChannelIInv'
  <1>0. ChannelTypes /\ InOrder /\ AllPassed /\ NothingLost BY DEF ChannelIInv
  <1>1. /\ worker = "run" /\ worker' = "logging" /\ inHand' = Head(queue) /\ queue' = Tail(queue)
        /\ UNCHANGED <<closed, wokeUp, dropCount, lpc, count, cpc, written, owed, threw>>
    BY DEF Async!Dequeue, Async!history
  <1>2. queue \in Seq(Messages) /\ Len(queue) \in Nat BY <1>0 DEF ChannelTypes
  <1>3. /\ 1 \in 1..Len(queue) /\ inHand' = queue[1] /\ inHand' \in Messages
        /\ queue' \in Seq(Messages) /\ Len(queue') = Len(queue) - 1
        /\ \A i \in 1..Len(queue') : queue'[i] = queue[i + 1]
    BY <1>1, <1>2
  <1>4. \A i \in 1..Len(queue') : i + 1 \in 1..Len(queue) /\ 1 < i + 1 BY <1>2, <1>3
  <1>5. ChannelTypes' BY <1>0, <1>1, <1>3 DEF ChannelTypes
  <1>6. InOrder'
    <2>1. ASSUME NEW i \in 1..Len(queue'), NEW j \in 1..Len(queue'), i < j
          PROVE  Before(queue'[i], queue'[j])
      <3>1. /\ i + 1 \in 1..Len(queue) /\ j + 1 \in 1..Len(queue)
            /\ queue'[i] = queue[i + 1] /\ queue'[j] = queue[j + 1]
        BY <1>3, <1>4
      <3>2. i + 1 < j + 1 BY <2>1
      <3>3. Before(queue[i + 1], queue[j + 1]) BY <1>0, <3>1, <3>2 DEF InOrder
      <3> QED BY <3>1, <3>3
    <2>2. \A i \in 1..Len(written), j \in 1..Len(queue') : Before(written[i], queue'[j])
      BY <1>0, <1>3, <1>4 DEF InOrder
    <2>3. \A i \in 1..Len(written) : Before(written[i], inHand') BY <1>0, <1>3 DEF InOrder
    <2>4. \A j \in 1..Len(queue') : Before(inHand', queue'[j]) BY <1>0, <1>3, <1>4 DEF InOrder
    <2>5. \A i, j \in 1..Len(written) : i < j => Before(written[i], written[j])
      BY <1>0 DEF InOrder
    <2> QED BY <1>1, <2>1, <2>2, <2>3, <2>4, <2>5 DEF InOrder, Before
  <1>7. AllPassed' BY <1>0, <1>1, <1>3, <1>4 DEF AllPassed, Passed
  <1>8. NothingLost'
    <2> SUFFICES ASSUME ~threw PROVE Kept' BY <1>1 DEF NothingLost
    <2>0. Kept BY <1>0 DEF NothingLost
    <2>1. ASSUME NEW m, Waiting(m) PROVE AtHand(m)' \/ Waiting(m)'
      <3>1. PICK i \in 1..Len(queue) : queue[i] = m BY <2>1 DEF Waiting
      <3>2. CASE i = 1 BY <1>1, <1>3, <3>1, <3>2 DEF AtHand
      <3>3. CASE i # 1
        <4>1. i - 1 \in 1..Len(queue') /\ queue'[i - 1] = m BY <1>2, <1>3, <3>1, <3>3
        <4> QED BY <4>1 DEF Waiting
      <3> QED BY <3>2, <3>3
    <2>2. \A m : ~AtHand(m) /\ (Done(m) => Done(m)') BY <1>1 DEF AtHand, Done
    <2> QED BY <1>1, <2>0, <2>1, <2>2 DEF Kept
  <1> QED BY <1>5, <1>6, <1>7, <1>8 DEF ChannelIInv

\* The thread passes the message on to the channel.
LEMMA Writes ==
  ASSUME ChannelIInv, Async!Write
  PROVE  ChannelIInv'
  <1>0. ChannelTypes /\ InOrder /\ AllPassed /\ NothingLost BY DEF ChannelIInv
  <1>1. /\ worker = "logging" /\ worker' = "run" /\ written' = Append(written, inHand)
        /\ UNCHANGED <<closed, queue, wokeUp, dropCount, lpc, count, cpc, owed, threw>>
    BY DEF Async!Write, Async!history
  <1>2. written \in Seq(Messages) /\ Len(written) \in Nat /\ inHand \in Messages
    BY <1>0, <1>1 DEF ChannelTypes
  <1>3. /\ written' \in Seq(Messages) /\ Len(written') = Len(written) + 1
        /\ \A i \in 1..Len(written') :
             written'[i] = IF i = Len(written) + 1 THEN inHand ELSE written[i]
    BY <1>1, <1>2
  <1>4. \A i \in 1..Len(written') : i # Len(written) + 1 => i \in 1..Len(written)
    BY <1>2, <1>3
  <1>5. ChannelTypes' BY <1>0, <1>1, <1>3 DEF ChannelTypes
  <1>6. InOrder'
    <2>1. ASSUME NEW i \in 1..Len(written'), NEW j \in 1..Len(written'), i < j
          PROVE  Before(written'[i], written'[j])
      <3>1. i # Len(written) + 1 BY <1>2, <1>3, <2>1
      <3>2. CASE j = Len(written) + 1 BY <1>0, <1>1, <1>3, <1>4, <3>1, <3>2 DEF InOrder
      <3>3. CASE j # Len(written) + 1 BY <1>0, <1>3, <1>4, <2>1, <3>1, <3>3 DEF InOrder
      <3> QED BY <3>2, <3>3
    <2>2. ASSUME NEW i \in 1..Len(written'), NEW j \in 1..Len(queue)
          PROVE  Before(written'[i], queue[j])
      <3>1. CASE i = Len(written) + 1 BY <1>0, <1>1, <1>3, <3>1 DEF InOrder
      <3>2. CASE i # Len(written) + 1 BY <1>0, <1>3, <1>4, <3>2 DEF InOrder
      <3> QED BY <3>1, <3>2
    <2>3. \A i, j \in 1..Len(queue) : i < j => Before(queue[i], queue[j]) BY <1>0 DEF InOrder
    <2> QED BY <1>1, <2>1, <2>2, <2>3 DEF InOrder, Before
  <1>7. AllPassed' BY <1>0, <1>1, <1>3, <1>4 DEF AllPassed, Passed
  <1>8. NothingLost'
    <2> SUFFICES ASSUME ~threw PROVE Kept' BY <1>1 DEF NothingLost
    <2>0. Kept BY <1>0 DEF NothingLost
    <2>1. ASSUME NEW m, Done(m) \/ AtHand(m) PROVE Done(m)'
      <3>1. CASE AtHand(m)
        <4>1. Len(written) + 1 \in 1..Len(written') /\ written'[Len(written) + 1] = m
          BY <1>2, <1>3, <3>1 DEF AtHand
        <4> QED BY <4>1 DEF Done
      <3>2. CASE Done(m)
        <4>1. PICK i \in 1..Len(written) : written[i] = m BY <3>2 DEF Done
        <4>2. i \in 1..Len(written') /\ written'[i] = m BY <1>2, <1>3, <4>1
        <4> QED BY <4>2 DEF Done
      <3> QED BY <2>1, <3>1, <3>2
    <2>2. \A m : Waiting(m) => Waiting(m)' BY <1>1 DEF Waiting
    <2> QED BY <1>1, <2>0, <2>1, <2>2 DEF Kept
  <1> QED BY <1>5, <1>6, <1>7, <1>8 DEF ChannelIInv

\* Steps that leave the messages where they are.
LEMMA MessagesStay ==
  ASSUME ChannelIInv, UNCHANGED <<queue, written, inHand, owed, threw>>, ChannelTypes',
         worker' = "logging" <=> worker = "logging",
         \A m \in Messages : Passed(m) => Passed(m)',
         Kept /\ cpc' \in {"open", "running?", "drain"} =>
           /\ ~wokeUp' /\ worker' \notin {"woken", "ended"}
           /\ worker' = "none" => owed = {} /\ \A l \in Loggers : lpc'[l] # "enqueue",
         Kept /\ cpc' \in {"wake", "join"} => cpc \in {"wake", "join"} \/ queue = <<>>,
         Kept /\ cpc' \in {"pthread_join", "joining", "closed"} =>
           \/ cpc \in {"pthread_join", "joining", "closed"}
           \/ cpc \in {"wake", "join"} /\ worker # "logging"
           \/ owed = {}
  PROVE  ChannelIInv'
  <1>0. ChannelTypes /\ InOrder /\ AllPassed /\ NothingLost BY DEF ChannelIInv
  <1>1. InOrder' BY <1>0, OrderStays
  <1>2. AllPassed' BY <1>0, PassedStays
  <1>3. NothingLost'
    <2> SUFFICES ASSUME ~threw PROVE Kept' BY DEF NothingLost
    <2>0. Kept BY <1>0 DEF NothingLost
    <2>1. \A m : /\ Done(m)' <=> Done(m)
                 /\ AtHand(m)' <=> AtHand(m)
                 /\ Waiting(m)' <=> Waiting(m)
      BY DEF Done, AtHand, Waiting
    <2>2. cpc' \in {"wake", "join"} => \A m \in owed : Done(m) \/ AtHand(m)
      <3>1. queue = <<>> => \A m : ~Waiting(m) BY DEF Waiting
      <3> QED BY <2>0, <3>1 DEF Kept
    <2>3. cpc' \in {"pthread_join", "joining", "closed"} => \A m \in owed : Done(m)
      BY <2>0 DEF Kept, AtHand
    <2>4. \A m \in owed : Done(m) \/ AtHand(m) \/ Waiting(m) BY <2>0 DEF Kept
    <2> QED BY <2>0, <2>1, <2>2, <2>3, <2>4 DEF Kept
  <1> QED BY <1>1, <1>2, <1>3 DEF ChannelIInv

\* The attached channel throws: the message in hand is lost, and the thread ends.
LEMMA Throws ==
  ASSUME ChannelIInv, Async!WriteThrows
  PROVE  ChannelIInv'
  <1>0. ChannelTypes /\ InOrder /\ AllPassed BY DEF ChannelIInv
  <1>1. /\ worker = "logging" /\ worker' = "ended" /\ threw' = TRUE
        /\ cpc' = IF cpc = "joining" THEN "closed" ELSE cpc
        /\ UNCHANGED <<closed, queue, lpc, count, written, owed>>
    BY DEF Async!WriteThrows, Async!End
  <1>2. ChannelTypes' BY <1>0, <1>1 DEF ChannelTypes
  <1>3. InOrder' BY <1>0, <1>1 DEF InOrder, Before
  <1>4. AllPassed' BY <1>0, <1>1 DEF AllPassed, Passed
  <1>5. NothingLost' BY <1>1 DEF NothingLost
  <1> QED BY <1>2, <1>3, <1>4, <1>5 DEF ChannelIInv

LEMMA ChannelStep ==
  ASSUME ChannelIInv, [Async!Next]_(Async!channelVars)
  PROVE  ChannelIInv'
  <1>0. ChannelTypes BY DEF ChannelIInv
  <1> USE DEF Async!isRunning, Async!history
  <1>1. ASSUME NEW l \in Loggers, Async!Log(l) PROVE ChannelIInv'
    <2>1. /\ count' = [count EXCEPT ![l] = @ + 1] /\ lpc[l] = "out"
          /\ lpc' = [lpc EXCEPT ![l] = IF closed THEN "out" ELSE "size"]
          /\ UNCHANGED <<closed, queue, wokeUp, worker, inHand, cpc, written, owed, threw>>
      BY <1>1 DEF Async!Log
    <2>2. /\ \A k \in Loggers : count[k] \in Nat
          /\ \A k \in Loggers : count'[k] = IF k = l THEN count[k] + 1 ELSE count[k]
          /\ \A k \in Loggers : k # l => lpc'[k] = lpc[k]
      BY <1>0, <2>1 DEF ChannelTypes
    <2>3. \A m \in Messages : Passed(m) => Passed(m)' BY <2>2, MessageParts DEF Passed
    <2>4. ChannelTypes' BY <1>0, <2>1 DEF ChannelTypes
    <2>5. \A k \in Loggers : lpc'[k] = "enqueue" => lpc[k] = "enqueue"
      BY <1>0, <2>1 DEF ChannelTypes
    <2> QED BY <1>0, <2>1, <2>3, <2>4, <2>5, MessagesStay DEF Kept
  <1>2. ASSUME NEW l \in Loggers, Async!LogSize(l) \/ Async!LogReset(l) PROVE ChannelIInv'
    <2>1. PICK p \in {"out", "report", "open"} : lpc' = [lpc EXCEPT ![l] = p]
      BY <1>2 DEF Async!LogSize, Async!LogReset
    <2>2. /\ lpc[l] # "out"
          /\ UNCHANGED <<closed, queue, wokeUp, worker, inHand, count, cpc, written, owed, threw>>
      BY <1>2 DEF Async!LogSize, Async!LogReset
    <2>3. \A m \in Messages : Passed(m) => Passed(m)' BY <1>0, <2>1, <2>2, LoggerMoves
    <2>4. ChannelTypes' BY <1>0, <2>1, <2>2 DEF ChannelTypes
    <2>5. \A k \in Loggers : lpc'[k] = "enqueue" => lpc[k] = "enqueue"
      BY <1>0, <2>1 DEF ChannelTypes
    <2> QED BY <1>0, <2>2, <2>3, <2>4, <2>5, MessagesStay DEF Kept
  <1>3. ASSUME NEW l \in Loggers, Async!LogReport(l) PROVE ChannelIInv'
    <2>1. Async!Report \in Messages BY DEF Messages
    <2> QED BY <1>3, <2>1, LogHandsOver DEF Async!LogReport
  <1>4. ASSUME NEW l \in Loggers, Async!LogOpen(l) PROVE ChannelIInv'
    <2>1. /\ lpc[l] # "out" /\ lpc' = [lpc EXCEPT ![l] = "enqueue"]
          /\ worker' = IF worker \notin {"none", "ended"} THEN worker ELSE "run"
          /\ UNCHANGED <<closed, queue, wokeUp, inHand, count, cpc, written, owed, threw>>
      BY <1>4 DEF Async!LogOpen
    <2>2. \A m \in Messages : Passed(m) => Passed(m)' BY <1>0, <2>1, LoggerMoves
    <2>3. ChannelTypes' BY <1>0, <2>1 DEF ChannelTypes
    <2> QED BY <1>0, <2>1, <2>2, <2>3, MessagesStay DEF Kept
  <1>5. ASSUME NEW l \in Loggers, Async!LogEnqueue(l) PROVE ChannelIInv'
    <2>1. Async!Current(l) \in Messages /\ Async!Current(l) = <<l, count[l]>>
      BY <1>0 DEF ChannelTypes, Messages, Async!Current
    <2> QED BY <1>5, <2>1, LogHandsOver DEF Async!LogEnqueue
  <1>6. ASSUME UNCHANGED <<lpc, count>> PROVE \A m \in Messages : Passed(m) => Passed(m)'
    BY <1>6 DEF Passed
  <1>7. CASE Async!Dequeue
    <2>1. CASE queue # <<>> BY <1>7, <2>1, TakesFirst
    <2>2. CASE queue = <<>>
      <3>1. /\ worker = "run" /\ worker' = IF wokeUp THEN "woken" ELSE "waiting"
            /\ UNCHANGED <<closed, queue, wokeUp, inHand, lpc, count, cpc, written, owed, threw>>
        BY <1>7, <2>2 DEF Async!Dequeue
      <3>2. ChannelTypes' BY <1>0, <2>2, <3>1 DEF ChannelTypes
      <3> QED BY <1>0, <1>6, <3>1, <3>2, MessagesStay DEF Kept
    <2> QED BY <2>1, <2>2
  <1>8. CASE Async!Write BY <1>8, Writes
  <1>8a. CASE Async!WriteThrows BY <1>8a, Throws
  <1>9. CASE Async!RunEnds
    <2>1. /\ worker = "woken" /\ worker' = "ended"
          /\ cpc' = IF cpc = "joining" THEN "closed" ELSE cpc
          /\ UNCHANGED <<closed, queue, wokeUp, inHand, lpc, count, written, owed, threw>>
      BY <1>9 DEF Async!RunEnds, Async!End
    <2>2. ChannelTypes' BY <1>0, <2>1 DEF ChannelTypes
    <2> QED BY <1>0, <1>6, <2>1, <2>2, MessagesStay DEF Kept
  <1>10. CASE Async!Close
    <2>1. /\ cpc = "open" /\ cpc' = "running?" /\ closed' = TRUE
          /\ UNCHANGED <<queue, wokeUp, worker, inHand, lpc, count, written, owed, threw>>
      BY <1>10 DEF Async!Close
    <2>2. ChannelTypes' BY <1>0, <2>1 DEF ChannelTypes
    <2> QED BY <1>0, <1>6, <2>1, <2>2, MessagesStay DEF Kept
  <1>11. CASE Async!CloseIsRunning
    <2>1. /\ cpc = "running?"
          /\ cpc' = IF worker \notin {"none", "ended"} THEN "drain" ELSE "closed"
          /\ UNCHANGED <<closed, queue, wokeUp, worker, inHand, lpc, count, written, owed, threw>>
      BY <1>11 DEF Async!CloseIsRunning
    <2>2. ChannelTypes' BY <1>0, <2>1 DEF ChannelTypes
    <2> QED BY <1>0, <1>6, <2>1, <2>2, MessagesStay DEF Kept
  <1>12. CASE Async!CloseDrains
    <2>1. /\ cpc = "drain" /\ queue = <<>> /\ cpc' = "wake"
          /\ UNCHANGED <<closed, queue, wokeUp, worker, inHand, lpc, count, written, owed, threw>>
      BY <1>12 DEF Async!CloseDrains
    <2>2. ChannelTypes' BY <1>0, <2>1 DEF ChannelTypes
    <2> QED BY <1>0, <1>6, <2>1, <2>2, MessagesStay DEF Kept
  <1>13. CASE Async!CloseWakes
    <2>1. /\ cpc = "wake" /\ cpc' = "join"
          /\ worker' = IF worker = "waiting" THEN "woken" ELSE worker
          /\ UNCHANGED <<closed, queue, inHand, lpc, count, written, owed, threw>>
      BY <1>13 DEF Async!CloseWakes
    <2>2. ChannelTypes' BY <1>0, <2>1 DEF ChannelTypes
    <2> QED BY <1>0, <1>6, <2>1, <2>2, MessagesStay DEF Kept
  <1>14. CASE Async!CloseTriesJoin
    <2>1. /\ cpc = "join" /\ cpc' \in {"wake", "pthread_join"}
          /\ cpc' = "pthread_join" => worker \in {"none", "ended"}
          /\ UNCHANGED <<closed, queue, wokeUp, worker, inHand, lpc, count, written, owed, threw>>
      BY <1>14 DEF Async!CloseTriesJoin
    <2>2. ChannelTypes' BY <1>0, <2>1 DEF ChannelTypes
    <2> QED BY <1>0, <1>6, <2>1, <2>2, MessagesStay DEF Kept
  <1>14a. CASE Async!ClosePthreadJoin
    <2>1. /\ cpc = "pthread_join" /\ cpc' \in {"joining", "closed"}
          /\ UNCHANGED <<closed, queue, wokeUp, worker, inHand, lpc, count, written, owed, threw>>
      BY <1>14a DEF Async!ClosePthreadJoin
    <2>2. ChannelTypes' BY <1>0, <2>1 DEF ChannelTypes
    <2> QED BY <1>0, <1>6, <2>1, <2>2, MessagesStay DEF Kept
  <1>15. CASE UNCHANGED Async!channelVars
    <2>1. UNCHANGED <<closed, queue, wokeUp, worker, inHand, lpc, count, cpc, written, owed,
    threw>>
      BY <1>15 DEF Async!channelVars
    <2>2. ChannelTypes' BY <1>0, <2>1 DEF ChannelTypes
    <2> QED BY <1>0, <1>6, <2>1, <2>2, MessagesStay DEF Kept
  <1> QED
    BY <1>1, <1>2, <1>3, <1>4, <1>5, <1>7, <1>8, <1>8a, <1>9, <1>10, <1>11, <1>12, <1>13,
       <1>14, <1>14a,
             <1>15
          DEF Async!Next, Async!LogStep, Async!WorkerStep, Async!CloseStep

\* For any number of loggers and messages and any size of the queue: when close() has
\* returned, what log() had accepted before it is written, unless the attached channel
\* has thrown; and messages are written once
\* and in each logger's order, whatever logs late or is dropped.
THEOREM ClosedIsFlushed == Spec => []CloseFlushes
  <1>1. Init => ChannelIInv
    <2> SUFFICES ASSUME Async!Init PROVE ChannelIInv
      BY DEF Init
    <2>1. ChannelTypes
      <3>1. closed = (cpc # "open") BY DEF Async!Init
      <3>2. queue \in Seq(Messages) /\ written \in Seq(Messages) BY DEF Async!Init
      <3>3. lpc \in [Loggers -> {"out", "size", "report", "reset", "open", "enqueue"}]
        BY DEF Async!Init
      <3>4. count \in [Loggers -> Nat] BY DEF Async!Init
      <3> QED BY <3>1, <3>2, <3>3, <3>4 DEF Async!Init, ChannelTypes
    <2>2. InOrder /\ AllPassed BY DEF Async!Init, InOrder, AllPassed
    <2>3. NothingLost BY DEF Async!Init, NothingLost, Kept
    <2> QED BY <2>1, <2>2, <2>3 DEF ChannelIInv
  <1>2. [Next]_vars => [Async!Next]_(Async!channelVars)
    BY DEF vars, ofAsync, Async!channelVars, Async!history, Next, PoolNext, SPoolNext,
       AsyncNext, Aside, ActNext,
           ReactorNext
  <1>3. ASSUME ChannelIInv PROVE CloseFlushes
    <2>1. DOMAIN written = 1..Len(written)
      <3>1. written \in Seq(Messages) BY <1>3 DEF ChannelIInv, ChannelTypes
      <3> QED BY <3>1
    <2>2. cpc = "closed" /\ ~threw => owed \subseteq Async!Written
      BY <1>3, <2>1 DEF ChannelIInv, NothingLost, Kept, Done, Async!Written
    <2>3. \A i, j \in DOMAIN written :
            i < j /\ written[i][1] = written[j][1] /\ written[i] # Async!Report
              => written[i][2] < written[j][2]
      BY <1>3, <2>1 DEF ChannelIInv, InOrder, Before
    <2> QED BY <2>2, <2>3 DEF CloseFlushes, Async!CloseFlushes
  <1> QED BY <1>1, <1>2, <1>3, ChannelStep, PTL DEF Spec

-----------------------------------------------------------------------------
(* Activity: the inductive invariant.                                      *)

ActTypes ==
  /\ running \in BOOLEAN /\ done \in BOOLEAN /\ startOverlapped \in BOOLEAN
  /\ run \in [Act!Runs -> {"none", "method", "ended", "cleared"}]
  /\ starts \in Nat
  /\ wpc \in [Controllers -> {"out", "starting", "wait", "clear"}]

Starting == \E c \in Controllers : wpc[c] = "starting"
Live == \E r \in Act!Runs : run[r] # "none"

\* One start() at a time is between its lock and the pool, and has a run left to start.
OneStart ==
  /\ \A c, d \in Controllers : wpc[c] = "starting" /\ wpc[d] = "starting" => c = d
  /\ Starting => starts < MaxStarts
  /\ \A r \in Act!Runs : r > starts => run[r] = "none"

\* Unless calls overlapped, one activity at most is under way, from the start() that
\* resets the event until the run() that sets it; the flag is true for the first part
\* of that time; and nobody who was woken by the event is still in wait() then.
InStep ==
  ~startOverlapped =>
    /\ running = (Starting \/ \E r \in Act!Runs : run[r] \in {"method", "ended"})
    /\ \A q, r \in Act!Runs : run[q] # "none" /\ run[r] # "none" => q = r
    /\ Starting => ~Live
    /\ Starting \/ Live => ~done /\ \A c \in Controllers : wpc[c] # "clear"
    /\ \A c \in Controllers : wpc[c] = "wait" => done \/ Starting \/ Live

ActIInv == ActTypes /\ OneStart /\ InStep

-----------------------------------------------------------------------------
LEMMA ActivityNext ==
  ASSUME ActIInv, [Act!Next]_(Act!activityVars)
  PROVE  ActIInv'
  <1>0. ActTypes /\ OneStart /\ InStep /\ MaxStarts \in Nat
    BY ConstantsAssumption DEF ActIInv
  <1>1. ASSUME NEW c \in Controllers, Act!start(c) PROVE ActIInv'
    <2>1. ActTypes'
      BY <1>1, <1>0 DEF ActTypes, Act!Runs, Act!start
    <2>2. OneStart'
      BY <1>1, <1>0 DEF ActTypes, OneStart, Starting, Act!Runs, Act!start
    <2>3. InStep'
      BY <1>1, <1>0 DEF ActTypes, OneStart, InStep, Starting, Live, Act!Overlap, Act!start
    <2> QED BY <2>1, <2>2, <2>3 DEF ActIInv
  <1>2. ASSUME NEW c \in Controllers, Act!StartRuns(c) PROVE ActIInv'
    <2>1. ActTypes'
      <3>1. UNCHANGED <<running, done, startOverlapped>> BY <1>2 DEF Act!StartRuns
      <3>2. starts' \in Nat BY <1>2, <1>0 DEF ActTypes, Act!StartRuns
      <3>3. PICK n : n = starts + 1 OBVIOUS
      <3>4. run' = [run EXCEPT ![n] = "method"] /\ wpc' = [wpc EXCEPT ![c] = "out"]
        BY <1>2, <3>3 DEF Act!StartRuns
      <3>5. /\ run' \in [Act!Runs -> {"none", "method", "ended", "cleared"}]
            /\ wpc' \in [Controllers -> {"out", "starting", "wait", "clear"}]
        BY <1>0, <3>4 DEF ActTypes
      <3> QED BY <1>0, <3>1, <3>2, <3>5 DEF ActTypes
    <2>2. OneStart'
      BY <1>2, <1>0 DEF ActTypes, OneStart, Starting, Act!Runs, Act!StartRuns
    <2>3. InStep'
      <3>1. starts + 1 \in Act!Runs
        BY <1>2, <1>0 DEF ActTypes, OneStart, Starting, Act!Runs, Act!StartRuns
      <3>2. PICK q \in Act!Runs : q = starts + 1 BY <3>1
      <3>3. /\ run'[q] = "method" /\ \A r \in Act!Runs : r # q => run'[r] = run[r]
        BY <1>2, <1>0, <3>2 DEF ActTypes, Act!StartRuns
      <3>4. Starting /\ ~Starting'
        BY <1>2, <1>0 DEF ActTypes, OneStart, Starting, Act!StartRuns
      <3>5. /\ UNCHANGED <<running, done, startOverlapped>>
            /\ \A d \in Controllers : wpc'[d] # wpc[d] => wpc'[d] = "out"
        BY <1>2, <1>0 DEF ActTypes, Act!StartRuns
      <3>6. SUFFICES ASSUME ~startOverlapped' PROVE InStep'
        BY DEF InStep
      <3>7. ~Live /\ running /\ ~done /\ \A d \in Controllers : wpc[d] # "clear"
        BY <1>0, <3>4, <3>5, <3>6 DEF InStep
      <3>8. \A r \in Act!Runs : r # q => run'[r] = "none" BY <3>3, <3>7 DEF Live
      <3>9. \A d \in Controllers : wpc'[d] # "clear" BY <3>5, <3>7
      <3>10. Live' BY <3>3 DEF Live
      <3>11. running' = (Starting' \/ \E r \in Act!Runs : run'[r] \in {"method", "ended"})
        BY <3>3, <3>5, <3>7, <1>0 DEF ActTypes
      <3> QED BY <3>3, <3>4, <3>5, <3>7, <3>8, <3>9, <3>10, <3>11 DEF InStep
    <2> QED BY <2>1, <2>2, <2>3 DEF ActIInv
  <1>3. ASSUME NEW c \in Controllers, Act!StartFails(c) PROVE ActIInv'
    <2>1. ActTypes'
      BY <1>3, <1>0 DEF ActTypes, Act!Runs, Act!StartFails
    <2>2. OneStart'
      BY <1>3, <1>0 DEF ActTypes, OneStart, Starting, Act!Runs, Act!StartFails
    <2>3. InStep'
      BY <1>3, <1>0 DEF ActTypes, OneStart, InStep, Starting, Live, Act!StartFails
    <2> QED BY <2>1, <2>2, <2>3 DEF ActIInv
  <1>4. ASSUME NEW c \in Controllers, Act!stop(c) PROVE ActIInv'
    <2>1. ActTypes'
      BY <1>4, <1>0 DEF ActTypes, Act!Runs, Act!stop
    <2>2. OneStart'
      BY <1>4, <1>0 DEF ActTypes, OneStart, Starting, Act!Runs, Act!stop
    <2>3. InStep'
      BY <1>4, <1>0 DEF ActTypes, OneStart, InStep, Starting, Live, Act!stop
    <2> QED BY <2>1, <2>2, <2>3 DEF ActIInv
  <1>5. ASSUME NEW c \in Controllers, Act!wait(c) PROVE ActIInv'
    <2>1. ActTypes'
      BY <1>5, <1>0 DEF ActTypes, Act!Runs, Act!wait
    <2>2. OneStart'
      BY <1>5, <1>0 DEF ActTypes, OneStart, Starting, Act!Runs, Act!wait
    <2>3. InStep'
      BY <1>5, <1>0 DEF ActTypes, OneStart, InStep, Starting, Live, Act!wait
    <2> QED BY <2>1, <2>2, <2>3 DEF ActIInv
  <1>6. ASSUME NEW c \in Controllers, Act!WaitDone(c) PROVE ActIInv'
    <2>1. ActTypes'
      BY <1>6, <1>0 DEF ActTypes, Act!Runs, Act!WaitDone
    <2>2. OneStart'
      BY <1>6, <1>0 DEF ActTypes, OneStart, Starting, Act!Runs, Act!WaitDone
    <2>3. InStep'
      BY <1>6, <1>0 DEF ActTypes, OneStart, InStep, Starting, Live, Act!WaitDone
    <2> QED BY <2>1, <2>2, <2>3 DEF ActIInv
  <1>7. ASSUME NEW c \in Controllers, Act!WaitTimesOut(c) PROVE ActIInv'
    <2>1. ActTypes'
      BY <1>7, <1>0 DEF ActTypes, Act!Runs, Act!WaitTimesOut
    <2>2. OneStart'
      BY <1>7, <1>0 DEF ActTypes, OneStart, Starting, Act!Runs, Act!WaitTimesOut
    <2>3. InStep'
      BY <1>7, <1>0 DEF ActTypes, OneStart, InStep, Starting, Live, Act!WaitTimesOut
    <2> QED BY <2>1, <2>2, <2>3 DEF ActIInv
  <1>8. ASSUME NEW c \in Controllers, Act!WaitClears(c) PROVE ActIInv'
    <2>1. ActTypes'
      BY <1>8, <1>0 DEF ActTypes, Act!Runs, Act!WaitClears
    <2>2. OneStart'
      BY <1>8, <1>0 DEF ActTypes, OneStart, Starting, Act!Runs, Act!WaitClears
    <2>3. InStep'
      BY <1>8, <1>0 DEF ActTypes, OneStart, InStep, Starting, Live, Act!WaitClears
    <2> QED BY <2>1, <2>2, <2>3 DEF ActIInv
  <1>9. ASSUME NEW r \in Act!Runs, Act!MethodEnds(r) PROVE ActIInv'
    <2>1. ActTypes'
      BY <1>9, <1>0 DEF ActTypes, Act!Runs, Act!MethodEnds
    <2>2. OneStart'
      BY <1>9, <1>0 DEF ActTypes, OneStart, Starting, Act!Runs, Act!MethodEnds
    <2>3. InStep'
      BY <1>9, <1>0 DEF ActTypes, OneStart, InStep, Starting, Live, Act!MethodEnds
    <2> QED BY <2>1, <2>2, <2>3 DEF ActIInv
  <1>10. ASSUME NEW r \in Act!Runs, Act!RunClears(r) PROVE ActIInv'
    <2>1. ActTypes'
      BY <1>10, <1>0 DEF ActTypes, Act!Runs, Act!RunClears
    <2>2. OneStart'
      BY <1>10, <1>0 DEF ActTypes, OneStart, Starting, Act!Runs, Act!RunClears
    <2>3. InStep'
      BY <1>10, <1>0 DEF ActTypes, OneStart, InStep, Starting, Live, Act!RunClears
    <2> QED BY <2>1, <2>2, <2>3 DEF ActIInv
  <1>11. ASSUME NEW r \in Act!Runs, Act!RunSetsDone(r) PROVE ActIInv'
    <2>1. ActTypes'
      BY <1>11, <1>0 DEF ActTypes, Act!Runs, Act!RunSetsDone
    <2>2. OneStart'
      BY <1>11, <1>0 DEF ActTypes, OneStart, Starting, Act!Runs, Act!RunSetsDone
    <2>3. InStep'
      BY <1>11, <1>0 DEF ActTypes, OneStart, InStep, Starting, Live, Act!RunSetsDone
    <2> QED BY <2>1, <2>2, <2>3 DEF ActIInv
  <1>12. CASE UNCHANGED Act!activityVars
    BY <1>12, <1>0 DEF ActIInv, ActTypes, OneStart, InStep, Starting, Live, Act!activityVars
  <1> QED
    BY <1>1, <1>2, <1>3, <1>4, <1>5, <1>6, <1>7, <1>8, <1>9, <1>10, <1>11, <1>12 DEF Act!Next

LEMMA ActSpec == Spec => Act!Spec
  <1>1. Init => Act!Init BY DEF Init
  <1>2. [Next]_vars => [Act!Next]_(Act!activityVars)
    BY DEF vars, ofAct, Act!activityVars, Next, PoolNext, SPoolNext, AsyncNext, Aside, ActNext,
           ReactorNext
  <1> QED BY <1>1, <1>2, PTL DEF Spec, Act!Spec

\* Whatever the number of threads and of starts: unless a start() overlapped the end of
\* an earlier run or wait, or failed while somebody waited, _running says whether the
\* activity runs, one run at most is under way, nobody leaves wait() while the method
\* runs, and nobody waits for an event that no run() will set.
THEOREM ActivityInStep == Spec => []RunningIsTrue
  <1>1. Act!Init => ActIInv
    <2> SUFFICES ASSUME Act!Init PROVE ActIInv
      OBVIOUS
    <2>1. ~Starting /\ ~Live BY DEF Act!Init, Starting, Live
    <2>2. ActTypes BY DEF Act!Init, ActTypes
    <2>3. OneStart BY <2>1 DEF Act!Init, OneStart
    <2>4. InStep BY <2>1 DEF Act!Init, InStep
    <2> QED BY <2>2, <2>3, <2>4 DEF ActIInv
  <1>2. ActIInv /\ [Act!Next]_(Act!activityVars) => ActIInv'
    BY ActivityNext
  <1>3. ASSUME ActIInv PROVE Act!RunningIsTrue
    <2>1. SUFFICES ASSUME ~startOverlapped PROVE Act!RunningIsTrue
      BY DEF Act!RunningIsTrue
    <2>2. InStep BY <1>3 DEF ActIInv
    <2>3. \A q, r \in Act!Runs : run[q] # "none" /\ run[r] # "none" => q = r
      BY <2>1, <2>2 DEF InStep
    <2>4. \A c \in Controllers :
            /\ wpc[c] = "clear" => \A r \in Act!Runs : run[r] # "method"
            /\ wpc[c] = "wait" => done \/ Starting \/ Live
      BY <2>1, <2>2 DEF InStep, Live
    <2>5. running = (Starting \/ \E r \in Act!Runs : run[r] \in {"method", "ended"})
      BY <2>1, <2>2 DEF InStep
    <2> QED BY <2>3, <2>4, <2>5 DEF Act!RunningIsTrue, Starting, Live
  <1>4. Act!RunningIsTrue => RunningIsTrue BY DEF RunningIsTrue
  <1> QED BY <1>1, <1>2, <1>3, <1>4, ActSpec, PTL DEF Act!Spec

-----------------------------------------------------------------------------
(* SocketReactor: removed observers.                                       *)

Places == {"out", "has?", "link", "insert", "mode", "ctl add", "ctl mod", "map", "count", "erase",
           "ctl del", "map erase", "unlink", "disable", "drop", "update", "take", "clear",
           "disable all"}

\* What has been removed is disabled, by the client that removed it and before its
\* call returns; only while it disables a client has unlinked clones that are not.
RemovedIsDisabled ==
  /\ kpc \in [Clients -> Places]
  /\ dead = [c \in Clients |-> dead[c]]
  /\ gone \subseteq disabled
  /\ \A c \in Clients : kpc[c] \notin {"disable", "disable all"} => dead[c] \subseteq disabled

LEMMA RemovedNext ==
  ASSUME RemovedIsDisabled, [Reactor!Next]_(Reactor!reactorVars)
  PROVE  RemovedIsDisabled'
  <1> USE DEF Reactor!client, Reactor!reactor, Reactor!registry, Reactor!pollSet
  <1>1. ASSUME NEW c \in Clients, NEW o \in Uses[c], Reactor!addEventHandler(c, o)
        PROVE  RemovedIsDisabled'
    BY <1>1 DEF RemovedIsDisabled, Places, Reactor!addEventHandler
  <1>2. ASSUME NEW c \in Clients, NEW o \in Uses[c], Reactor!removeEventHandler(c, o)
        PROVE  RemovedIsDisabled'
    BY <1>2 DEF RemovedIsDisabled, Places, Reactor!removeEventHandler
  <1>3. ASSUME NEW c \in Clients, Reactor!AddHas(c) PROVE RemovedIsDisabled'
    BY <1>3 DEF RemovedIsDisabled, Places, Reactor!AddHas, Reactor!Go, Reactor!GoWith
  <1>4. ASSUME NEW c \in Clients, Reactor!AddObserver(c) PROVE RemovedIsDisabled'
    BY <1>4 DEF RemovedIsDisabled, Places, Reactor!AddObserver, Reactor!Go, Reactor!GoWith
  <1>5. ASSUME NEW c \in Clients, Reactor!AddEvent(c) PROVE RemovedIsDisabled'
    BY <1>5 DEF RemovedIsDisabled, Places, Reactor!AddEvent, Reactor!Go, Reactor!GoWith
  <1>6. ASSUME NEW c \in Clients, Reactor!AddMode(c) PROVE RemovedIsDisabled'
    BY <1>6 DEF RemovedIsDisabled, Places, Reactor!AddMode, Reactor!GoWith, Reactor!Return
  <1>7. ASSUME NEW c \in Clients, Reactor!PollAdd(c) PROVE RemovedIsDisabled'
    BY <1>7 DEF RemovedIsDisabled, Places, Reactor!PollAdd, Reactor!Go, Reactor!GoWith,
       Reactor!Return
  <1>8. ASSUME NEW c \in Clients, Reactor!PollMod(c) PROVE RemovedIsDisabled'
    BY <1>8 DEF RemovedIsDisabled, Places, Reactor!PollMod, Reactor!Go, Reactor!GoWith,
       Reactor!Return
  <1>9. ASSUME NEW c \in Clients, Reactor!socketMapUpdate(c) PROVE RemovedIsDisabled'
    BY <1>9 DEF RemovedIsDisabled, Places, Reactor!socketMapUpdate, Reactor!Return
  <1>10. ASSUME NEW c \in Clients, Reactor!RemoveCounts(c) PROVE RemovedIsDisabled'
    BY <1>10 DEF RemovedIsDisabled, Places, Reactor!RemoveCounts, Reactor!Go, Reactor!GoWith,
       Reactor!Return
  <1>11. ASSUME NEW c \in Clients, Reactor!EraseHandler(c) PROVE RemovedIsDisabled'
    BY <1>11 DEF RemovedIsDisabled, Places, Reactor!EraseHandler, Reactor!Go, Reactor!GoWith
  <1>12. ASSUME NEW c \in Clients, Reactor!PollRemove(c) PROVE RemovedIsDisabled'
    BY <1>12 DEF RemovedIsDisabled, Places, Reactor!PollRemove, Reactor!Go, Reactor!GoWith,
       Reactor!Return
  <1>13. ASSUME NEW c \in Clients, Reactor!socketMapErase(c) PROVE RemovedIsDisabled'
    BY <1>13 DEF RemovedIsDisabled, Places, Reactor!socketMapErase, Reactor!Go, Reactor!GoWith
  <1>14. ASSUME NEW c \in Clients, Reactor!Unlink(c) PROVE RemovedIsDisabled'
    BY <1>14 DEF RemovedIsDisabled, Places, Reactor!Unlink
  <1>15. ASSUME NEW c \in Clients, Reactor!Disable(c) PROVE RemovedIsDisabled'
    BY <1>15 DEF RemovedIsDisabled, Places, Reactor!Disable, Reactor!Go, Reactor!GoWith
  <1>16. ASSUME NEW c \in Clients, Reactor!RemoveEvent(c) PROVE RemovedIsDisabled'
    BY <1>16 DEF RemovedIsDisabled, Places, Reactor!RemoveEvent, Reactor!Go, Reactor!GoWith
  <1>17. ASSUME NEW c \in Clients, Reactor!PollUpdate(c) PROVE RemovedIsDisabled'
    BY <1>17 DEF RemovedIsDisabled, Places, Reactor!PollUpdate, Reactor!GoWith, Reactor!Return
  <1>18. ASSUME NEW c \in Clients, Reactor!remove(c) PROVE RemovedIsDisabled'
    BY <1>18 DEF RemovedIsDisabled, Places, Reactor!remove, Reactor!Go, Reactor!GoWith
  <1>19. ASSUME NEW c \in Clients, Reactor!Take(c) PROVE RemovedIsDisabled'
    BY <1>19 DEF RemovedIsDisabled, Places, Reactor!Take, Reactor!Return
  <1>20. ASSUME NEW c \in Clients, Reactor!Clear(c) PROVE RemovedIsDisabled'
    BY <1>20 DEF RemovedIsDisabled, Places, Reactor!Clear
  <1>21. ASSUME NEW c \in Clients, Reactor!DisableAll(c) PROVE RemovedIsDisabled'
    BY <1>21 DEF RemovedIsDisabled, Places, Reactor!DisableAll, Reactor!Return
  <1>22. ASSUME Reactor!Poll PROVE RemovedIsDisabled'
    BY <1>22 DEF RemovedIsDisabled, Reactor!Poll
  <1>23. ASSUME Reactor!DispatchHas PROVE RemovedIsDisabled'
    BY <1>23 DEF RemovedIsDisabled, Reactor!DispatchHas
  <1>24. ASSUME Reactor!DispatchNotifier PROVE RemovedIsDisabled'
    BY <1>24 DEF RemovedIsDisabled, Reactor!DispatchNotifier
  <1>25. ASSUME Reactor!Copy PROVE RemovedIsDisabled'
    BY <1>25 DEF RemovedIsDisabled, Reactor!Copy
  <1>26. ASSUME Reactor!Notify PROVE RemovedIsDisabled'
    BY <1>26 DEF RemovedIsDisabled, Reactor!Notify
  <1>27. CASE UNCHANGED Reactor!reactorVars
    BY <1>27 DEF RemovedIsDisabled, Reactor!reactorVars
  <1> QED
    BY <1>1, <1>2, <1>3, <1>4, <1>5, <1>6, <1>7, <1>8, <1>9, <1>10, <1>11, <1>12, <1>13,
       <1>14, <1>15, <1>16, <1>17, <1>18, <1>19, <1>20, <1>21, <1>22, <1>23, <1>24, <1>25,
       <1>26, <1>27 DEF Reactor!Next

LEMMA ReactorSpec == Spec => Reactor!Spec
  <1>1. Init => Reactor!Init BY DEF Init
  <1>2. [Next]_vars => [Reactor!Next]_(Reactor!reactorVars)
    BY DEF vars, ofReactor, Reactor!reactorVars, Reactor!reactor, Reactor!client,
           Reactor!registry, Reactor!pollSet, Next, PoolNext,
           SPoolNext, AsyncNext, Aside, ActNext, ReactorNext
  <1> QED BY <1>1, <1>2, PTL DEF Spec, Reactor!Spec

\* Whatever the number of clients, observers and notifiers, and whatever the reactor's
\* thread has copied: no handler is called for an observer whose removal has returned.
THEOREM RemovedIsNotCalled == Spec => NoLateCall
  <1>1. Reactor!Init => RemovedIsDisabled
    BY DEF Reactor!Init, RemovedIsDisabled, Places
  <1>2. RemovedIsDisabled /\ [Reactor!Next]_(Reactor!reactorVars) => RemovedIsDisabled'
    BY RemovedNext
  <1>3. ASSUME RemovedIsDisabled, [Reactor!Next]_(Reactor!reactorVars), calling' # calling,
               calling' # None
        PROVE  calling' \notin gone
    <2>1. Reactor!Notify
      BY <1>3
      DEF Reactor!reactorVars, Reactor!reactor, Reactor!Next, Reactor!addEventHandler,
          Reactor!removeEventHandler, Reactor!Poll, Reactor!DispatchHas,
          Reactor!DispatchNotifier, Reactor!Copy, Reactor!AddHas, Reactor!AddObserver,
          Reactor!AddEvent, Reactor!AddMode, Reactor!PollAdd, Reactor!PollMod,
          Reactor!socketMapUpdate, Reactor!RemoveCounts, Reactor!EraseHandler,
          Reactor!PollRemove, Reactor!socketMapErase, Reactor!Unlink, Reactor!Disable,
          Reactor!RemoveEvent, Reactor!PollUpdate, Reactor!remove, Reactor!Take,
          Reactor!Clear, Reactor!DisableAll
    <2> QED BY <1>3, <2>1 DEF RemovedIsDisabled, Reactor!Notify
  <1>4. RemovedIsDisabled /\ [Reactor!Next]_(Reactor!reactorVars) =>
          [calling' # calling /\ calling' # None => calling' \notin gone]_(Reactor!reactorVars)
    BY <1>3
  <1> QED BY <1>1, <1>2, <1>4, ReactorSpec, PTL DEF Reactor!Spec, Reactor!NoLateCall, NoLateCall

=============================================================================
