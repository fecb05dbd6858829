----------------------------- MODULE ObjectPool -----------------------------
(***************************************************************************)
(* Poco::ObjectPool: objects are lent to threads, which wait for one with  *)
(* a timeout when there is none; and Poco::Condition, with which they      *)
(* wait.  The factory may fail to create or to activate an object, and may *)
(* find a returned object invalid.                                         *)
(*                                                                         *)
(* Everything borrowObject() does between two waits, and returnObject(),   *)
(* happens under _mutex and is one action.  tryWait() locks the            *)
(* condition's own mutex before it unlocks _mutex, so that going to wait   *)
(* is one step with it; the end of a wait is not.                          *)
(***************************************************************************)
EXTENDS Naturals, Sequences, FiniteSets

CONSTANTS
  Objects,      \* what the factory can create
  Borrowers,    \* threads
  capacity, peakCapacity,
  None

VARIABLES
  pool,       \* _pool
  size,       \* _size
  lent,       \* lent[b]: the object b has borrowed, or None
  bpc,        \* bpc[b]: where b is in borrowObject()
  waitQueue,  \* the condition's _waitQueue: the borrowers whose Events are in it
  signalled,  \* the borrowers whose Event is set
  lost,       \* history: objects destroyed that _size still counts
  spent       \* history: signals that reached a borrower that took nothing,
              \* as long as something is available

poolVars == <<pool, size, lent, bpc, waitQueue, signalled, lost, spent>>

Init ==
  /\ pool = <<>> /\ size = 0
  /\ lent = [b \in Borrowers |-> None]
  /\ bpc = [b \in Borrowers |-> "out"]
  /\ waitQueue = <<>> /\ signalled = {}
  /\ lost = 0 /\ spent = 0

Pooled == {pool[i] : i \in DOMAIN pool}
Lent == {lent[b] : b \in Borrowers} \ {None}
Exhausted == size >= peakCapacity /\ pool = <<>>

\* available()
Available(p, n) == Len(p) + peakCapacity - n

\* The history of signals that did no good, after n more.
Spend(n) ==
  spent' = LET left == Available(pool', size') IN
           IF spent + n <= left THEN spent + n ELSE left

-----------------------------------------------------------------------------
(* Condition *)

signal ==
  /\ signalled' = IF waitQueue = <<>> THEN signalled ELSE signalled \cup {Head(waitQueue)}
  /\ waitQueue' = IF waitQueue = <<>> THEN waitQueue ELSE Tail(waitQueue)

\* Condition::dequeue(event): b's Event, if it is still in the queue.
dequeue(b) ==
  \/ /\ b \notin {waitQueue[i] : i \in DOMAIN waitQueue}
     /\ UNCHANGED waitQueue
  \/ \E k \in DOMAIN waitQueue :
       /\ waitQueue[k] = b
       /\ waitQueue' = [i \in 1..(Len(waitQueue) - 1) |->
                          IF i < k THEN waitQueue[i] ELSE waitQueue[i + 1]]

\* The wait ends without the Event having been set.
TimeOut(b) ==
  /\ bpc[b] = "waiting"
  /\ b \notin signalled
  /\ bpc' = [bpc EXCEPT ![b] = "timed out"]
  /\ UNCHANGED <<pool, size, lent, waitQueue, signalled, lost, spent>>

\* The Event is dequeued and borrowObject() returns null, even if a signal has come since.
ReturnNull(b) ==
  /\ bpc[b] = "timed out"
  /\ bpc' = [bpc EXCEPT ![b] = "out"]
  /\ dequeue(b)
  /\ signalled' = signalled \ {b}
  /\ UNCHANGED <<pool, size, lent, lost>>
  /\ Spend(IF b \in signalled THEN 1 ELSE 0)

-----------------------------------------------------------------------------
(* borrowObject() and returnObject() *)

\* tryWait(): the Event goes to the end of the queue.
Wait(b) ==
  /\ Exhausted
  /\ bpc' = [bpc EXCEPT ![b] = "waiting"]
  /\ waitQueue' = Append(waitQueue, b)
  /\ UNCHANGED <<pool, size, lent, lost>>

\* The last object of the pool is activated.  If that fails it is destroyed.
TakePooled(b) ==
  /\ pool # <<>>
  /\ pool' = SubSeq(pool, 1, Len(pool) - 1)
  /\ \/ /\ lent' = [lent EXCEPT ![b] = pool[Len(pool)]]
        /\ UNCHANGED lost
     \/ /\ lost' = lost + 1
        /\ UNCHANGED lent
  /\ bpc' = [bpc EXCEPT ![b] = "out"]
  /\ UNCHANGED <<size, waitQueue>>

\* A defect: the object is counted before it is created.
CreateCountsFirst(b) ==
  /\ pool = <<>> /\ size < peakCapacity
  /\ size' = size + 1
  /\ \/ \E o \in Objects \ Lent : lent' = [lent EXCEPT ![b] = o]
     \/ UNCHANGED lent
  /\ bpc' = [bpc EXCEPT ![b] = "out"]
  /\ UNCHANGED <<pool, lost, waitQueue>>

\* A new object is created, activated, and only then counted.
Create(b) ==
  /\ pool = <<>> /\ size < peakCapacity
  /\ \/ /\ \E o \in Objects \ Lent : lent' = [lent EXCEPT ![b] = o]
        /\ size' = size + 1
     \/ UNCHANGED <<lent, size>>
  /\ bpc' = [bpc EXCEPT ![b] = "out"]
  /\ UNCHANGED <<pool, lost, waitQueue>>

\* With timeout 0 an exhausted pool returns null at once, and nothing changes.
borrowObject(b) ==
  /\ bpc[b] = "out" /\ lent[b] = None
  /\ Wait(b) \/ TakePooled(b) \/ Create(b)
  /\ UNCHANGED signalled
  /\ Spend(0)

\* A signalled borrower has the mutex again, and looks once more.
Resume(b) ==
  /\ bpc[b] = "waiting" /\ b \in signalled
  /\ signalled' = signalled \ {b}
  /\ \/ Wait(b) /\ Spend(0)
     \/ TakePooled(b) /\ Spend(0)
     \/ Create(b) /\ Spend(IF lent'[b] = None THEN 1 ELSE 0)

\* A defect: only a pooled object is announced.
returnObjectQuietly(b) ==
  /\ lent[b] # None
  /\ lent' = [lent EXCEPT ![b] = None]
  /\ \/ /\ Len(pool) < capacity
        /\ pool' = Append(pool, lent[b])
        /\ signal
        /\ UNCHANGED size
     \/ /\ size' = size - 1
        /\ UNCHANGED <<pool, waitQueue, signalled>>
  /\ UNCHANGED <<bpc, lost>>
  /\ Spend(0)

\* The object goes back, or is destroyed because it is not valid or the pool is full.
returnObject(b) ==
  /\ lent[b] # None
  /\ lent' = [lent EXCEPT ![b] = None]
  /\ \/ /\ Len(pool) < capacity
        /\ pool' = Append(pool, lent[b])
        /\ UNCHANGED size
     \/ /\ size' = size - 1
        /\ UNCHANGED pool
  /\ signal
  /\ UNCHANGED <<bpc, lost>>
  /\ Spend(0)

Next == \E b \in Borrowers : borrowObject(b) \/ Resume(b) \/ TimeOut(b) \/ ReturnNull(b) \/ returnObject(b)

Spec == Init /\ [][Next]_poolVars

-----------------------------------------------------------------------------
(* Properties. *)

\* An object is in the pool once or with one borrower, never with two; there are
\* never more than peakCapacity of them, nor more than capacity in the pool; and
\* _size counts them, and those that could not be activated (borrowObject(),
\* returnObject()): each of these takes away a place for ever.
PoolAccounts ==
  /\ Cardinality(Pooled) = Len(pool) /\ Len(pool) <= capacity
  /\ Pooled \cap Lent = {}
  /\ \A b, c \in Borrowers : lent[b] = lent[c] /\ b # c => lent[b] = None
  /\ size = Cardinality(Pooled \cup Lent) + lost
  /\ size <= peakCapacity

\* No borrower sleeps next to an object it could have (Condition::signal() in
\* returnObject()): while somebody waits, every object or place available is one
\* that a signalled borrower is about to take, or whose signal was spent on a
\* borrower that timed out or could not create its object.
SignalsReach ==
  waitQueue # <<>> => Available(pool, size) <= Cardinality(signalled) + spent

=============================================================================
