----------------------- MODULE ActiveThreadPoolProofs -----------------------
(***************************************************************************)
(* Proofs, for any number of callers, threads, tasks and priorities and    *)
(* any capacity, that Poco::ActiveThreadPool counts its active threads,    *)
(* leaves no queued task without a thread, and that joinAll() returns only *)
(* when the tasks started before it are done.                              *)
(***************************************************************************)
EXTENDS ActiveThreadPool, FiniteSetTheorems, WellFoundedInduction, TLAPS

-----------------------------------------------------------------------------
(* The inductive invariant.                                                *)

Active == {w \in Threads : wpc[w] \in {"starting", "running", "failed"}}

Counts == IsFiniteSet(Active) /\ activeThreads = Cardinality(Active)

\* Where the threads of the lists are: in the pool a thread waits, has expired, or is
\* on its way to the queue, its wait ended if it had begun.
OnTheWay(w) ==
  \/ wpc[w] \in {"starting", "running", "woken", "failed"}
  \/ wpc[w] = "waiting" /\ signalled[w]

Lists ==
  /\ IsFiniteSet(allThreads)
  /\ waitingThreads \subseteq allThreads /\ expiredThreads \subseteq allThreads
  /\ \A w \in waitingThreads : wpc[w] \in {"waiting", "woken"}
  /\ \A w \in expiredThreads : wpc[w] = "exited"
  /\ \A w \in allThreads \ (waitingThreads \cup expiredThreads) : OnTheWay(w)
  /\ Active \subseteq allThreads

\* A thread taken out of the pool belongs to one joinAll(), which waits for it before
\* the object can be used again.
Copies ==
  /\ \A c \in Clients : \A w \in copy[c] : w \notin allThreads /\ wpc[w] # "absent"
  /\ \A c, d \in Clients : \A w \in copy[c] : w \in copy[d] => c = d
  /\ \A c \in Clients : at[c] # Nothing => at[c] \in copy[c]
  /\ \A c \in Clients : jpc[c] # "join" => copy[c] = {}

\* A task that is not done is in the queue or in the hands of an active thread.
InQueue(r) == \E p \in Priorities : \E i \in DOMAIN runnables[p] : runnables[p][i] = r

Whereabouts(r) ==
  /\ st[r] = "queued" => InQueue(r)
  /\ st[r] = "assigned" => \E w \in Threads : wpc[w] = "starting" /\ target[w] = r
  /\ st[r] = "running" => \E w \in Threads : wpc[w] = "running" /\ running[w] = r

Tracked ==
  /\ \A r \in Targets : Whereabouts(r)
  /\ \A w \in Threads : wpc[w] = "starting" => target[w] \in Targets
  /\ \A c \in Clients : \A r \in joinSet[c] : st[r] # "new"

\* While anything is queued, a thread of the pool is neither waiting nor expired.
Attended == ~RunnablesEmpty => allThreads # waitingThreads \cup expiredThreads

IInv == ActiveTypeOK /\ Counts /\ Lists /\ Copies /\ Tracked /\ Attended

-----------------------------------------------------------------------------
(* The queue.                                                              *)

\* A set of numbers with an upper bound has a greatest one.
LEMMA Greatest ==
  ASSUME NEW N, N # {}, NEW m \in Int, \A p \in N : p \in Int /\ p <= m
  PROVE  \E p \in N : \A q \in N : q <= p
  <1> DEFINE T == {m - p : p \in N}
  <1>1. T \subseteq Nat /\ T # {} OBVIOUS
  <1>2. PICK x \in T : \A y \in T : ~(<<y, x>> \in OpToRel(<, Nat))
    BY <1>1, WFMin, NatLessThanWellFounded
  <1>3. \A y \in T : ~(y < x) BY <1>1, <1>2 DEF OpToRel
  <1>4. PICK p \in N : x = m - p OBVIOUS
  <1>5. ASSUME NEW q \in N PROVE q <= p
    <2>1. ~(m - q < m - p) BY <1>3, <1>4
    <2> QED BY <2>1
  <1> QED BY <1>5

\* The front of the heap is the list of a priority at which something is queued.
LEMMA TopIsQueued ==
  ASSUME ActiveTypeOK, ~RunnablesEmpty
  PROVE  Top \in Priorities /\ runnables[Top] # <<>>
  <1> DEFINE N == {p \in Priorities : runnables[p] # <<>>}
  <1>1. N # {} BY DEF RunnablesEmpty
  <1>2. PICK m \in Priorities : \A p \in Priorities : p <= m BY ActiveAssumption
  <1>3. m \in Int /\ \A p \in N : p \in Int /\ p <= m BY <1>2, ActiveAssumption
  <1> HIDE DEF N
  <1>4. PICK p \in N : \A q \in N : q <= p BY <1>1, <1>3, Greatest
  <1>5. \E p1 \in Priorities :
          runnables[p1] # <<>> /\ \A q \in Priorities : runnables[q] # <<>> => q <= p1
    BY <1>4 DEF N
  <1> QED BY <1>5 DEF Top

LEMMA PopType ==
  ASSUME ActiveTypeOK, ~RunnablesEmpty
  PROVE  pop \in [Priorities -> Seq(Targets)] /\ Head(runnables[Top]) \in Targets
  <1> DEFINE p == Top  q == runnables[p]
  <1>1. p \in Priorities /\ q \in Seq(Targets) /\ q # <<>>
    BY TopIsQueued DEF ActiveTypeOK
  <1> HIDE DEF p
  <1>2. Tail(q) \in Seq(Targets) /\ Head(q) \in Targets BY <1>1
  <1>3. [runnables EXCEPT ![p] = Tail(@)] \in [Priorities -> Seq(Targets)]
    BY <1>1, <1>2 DEF ActiveTypeOK
  <1> QED BY <1>2, <1>3 DEF pop, p

\* A task at the end of a list is queued, and the others stay queued.
LEMMA PushQueues ==
  ASSUME ActiveTypeOK, NEW r \in Targets, NEW p \in Priorities, runnables' = push(r, p)
  PROVE  /\ runnables' \in [Priorities -> Seq(Targets)]
         /\ InQueue(r)' /\ \A q \in Targets : InQueue(q) => InQueue(q)'
         /\ ~RunnablesEmpty'
  <1> DEFINE l == runnables[p]
  <1>1. l \in Seq(Targets) BY DEF ActiveTypeOK
  <1>2. runnables' = [runnables EXCEPT ![p] = Append(l, r)] BY DEF push
  <1>3. /\ Append(l, r) \in Seq(Targets) /\ Append(l, r)[Len(l) + 1] = r
        /\ Len(l) + 1 \in DOMAIN Append(l, r)
        /\ \A i \in DOMAIN l : i \in DOMAIN Append(l, r) /\ Append(l, r)[i] = l[i]
        /\ Append(l, r) # <<>>
    BY <1>1
  <1>4. /\ runnables'[p] = Append(l, r)
        /\ \A q \in Priorities : q # p => runnables'[q] = runnables[q]
    BY <1>2 DEF ActiveTypeOK
  <1>5. runnables' \in [Priorities -> Seq(Targets)] BY <1>2, <1>3 DEF ActiveTypeOK
  <1>6. InQueue(r)' BY <1>3, <1>4 DEF InQueue
  <1>7. ASSUME NEW q \in Targets, InQueue(q) PROVE InQueue(q)'
    <2>1. PICK o \in Priorities : \E i \in DOMAIN runnables[o] : runnables[o][i] = q
      BY <1>7 DEF InQueue
    <2> QED BY <1>3, <1>4, <2>1 DEF InQueue
  <1>8. ~RunnablesEmpty' BY <1>3, <1>4 DEF RunnablesEmpty
  <1> QED BY <1>5, <1>6, <1>7, <1>8

\* Taking the task at the front leaves the others queued.
LEMMA PopLeavesOthers ==
  ASSUME ActiveTypeOK, ~RunnablesEmpty, runnables' = pop,
         NEW r \in Targets, r # Head(runnables[Top]), InQueue(r)
  PROVE  InQueue(r)'
  <1>1. PICK p \in Priorities : p = Top /\ runnables[p] # <<>> BY TopIsQueued
  <1> DEFINE l == runnables[p]
  <1>2. l \in Seq(Targets) /\ l # <<>> BY <1>1 DEF ActiveTypeOK
  <1>3. /\ runnables'[p] = Tail(l)
        /\ \A q \in Priorities : q # p => runnables'[q] = runnables[q]
    BY <1>1 DEF ActiveTypeOK, pop
  <1>4. PICK o \in Priorities : \E i \in DOMAIN runnables[o] : runnables[o][i] = r
    BY DEF InQueue
  <1>5. CASE o # p BY <1>3, <1>4, <1>5 DEF InQueue
  <1>6. CASE o = p
    <2>1. PICK i \in DOMAIN l : l[i] = r BY <1>4, <1>6
    <2>2. l[1] # r BY <1>1, <1>2
    <2>3. i - 1 \in DOMAIN Tail(l) /\ Tail(l)[i - 1] = r BY <1>2, <2>1, <2>2
    <2> QED BY <1>3, <2>3 DEF InQueue
  <1> QED BY <1>5, <1>6

LEMMA QueueUnchanged ==
  ASSUME UNCHANGED runnables
  PROVE  /\ RunnablesEmpty' <=> RunnablesEmpty
         /\ \A r : InQueue(r)' <=> InQueue(r)
  BY DEF RunnablesEmpty, InQueue

-----------------------------------------------------------------------------
(* Counting the active threads.                                            *)

LEMMA CountsSame ==
  ASSUME Counts, Active' = Active, UNCHANGED activeThreads
  PROVE  Counts'
  BY DEF Counts

LEMMA CountsOneMore ==
  ASSUME Counts, NEW w, w \notin Active, Active' = Active \cup {w},
         activeThreads' = activeThreads + 1
  PROVE  Counts'
  BY FS_AddElement DEF Counts

LEMMA CountsOneLess ==
  ASSUME Counts, NEW w, w \in Active, Active' = Active \ {w},
         activeThreads' = activeThreads - 1
  PROVE  Counts'
  BY FS_RemoveElement DEF Counts

\* With a thread in use that is neither waiting nor expired, nobody is stranded; tasks
\* are queued only when the capacity is used up, which takes such a thread.
LEMMA SomebodyIsOnTheWay ==
  ASSUME Lists, allThreads = waitingThreads \cup expiredThreads
  PROVE  ~(activeThreadCount >= Capacity)
  <1>1. waitingThreads \cap expiredThreads = {} BY DEF Lists
  <1>2. IsFiniteSet(waitingThreads) /\ IsFiniteSet(expiredThreads)
    BY FS_Subset DEF Lists
  <1>3. Cardinality(allThreads) = Cardinality(waitingThreads) + Cardinality(expiredThreads)
    <2>1. Cardinality(waitingThreads \cup expiredThreads)
            = Cardinality(waitingThreads) + Cardinality(expiredThreads)
              - Cardinality(waitingThreads \cap expiredThreads)
      BY <1>2, FS_Union
    <2>2. Cardinality({}) = 0 BY FS_EmptySet
    <2>3. /\ Cardinality(waitingThreads) \in Nat /\ Cardinality(expiredThreads) \in Nat
      BY <1>2, FS_CardinalityType
    <2>4. Cardinality(waitingThreads \cap expiredThreads) = 0 BY <1>1, <2>2
    <2>5. Cardinality(waitingThreads \cup expiredThreads)
            = Cardinality(waitingThreads) + Cardinality(expiredThreads)
      BY <2>1, <2>3, <2>4
    <2> QED BY <2>5
  <1>4. /\ Cardinality(waitingThreads) \in Nat /\ Cardinality(expiredThreads) \in Nat
    BY <1>2, FS_CardinalityType
  <1>5. activeThreadCount = 0 BY <1>3, <1>4 DEF activeThreadCount
  <1> QED BY <1>5, ActiveAssumption

-----------------------------------------------------------------------------
(* Every step keeps the invariant.                                         *)

LEMMA NextIInv == IInv /\ [ActiveNext]_activeVars => IInv'
  <1> SUFFICES ASSUME IInv, [ActiveNext]_activeVars PROVE IInv'
    OBVIOUS
  <1> USE ActiveAssumption DEF pool, activeWorker, joiner
  <1>0. ActiveTypeOK /\ Counts /\ Lists /\ Copies /\ Tracked /\ Attended BY DEF IInv
  <1>1. ASSUME NEW r \in Targets, NEW w \in Threads, startThread(w, r), UNCHANGED joiner
        PROVE  IInv'
    <2>1. ActiveTypeOK'
      <3>1. /\ wpc' \in [Threads -> Places]
            /\ st' \in [Targets -> {"new", "queued", "assigned", "running", "done"}]
        BY <1>1, <1>0 DEF ActiveTypeOK, Places, startThread, Assign
      <3>2. /\ activeThreads' \in Nat /\ allThreads' \subseteq Threads
            /\ target' \in [Threads -> Targets \cup {Nothing}]
        BY <1>1, <1>0 DEF ActiveTypeOK, startThread, Assign
      <3> QED BY <1>1, <1>0, <3>1, <3>2 DEF ActiveTypeOK, startThread
    <2>2. Counts'
      <3>1. /\ w \notin Active /\ Active' = Active \cup {w}
            /\ activeThreads' = activeThreads + 1
        BY <1>1, <1>0 DEF ActiveTypeOK, Lists, Active, OnTheWay, startThread, Assign
      <3> QED BY <1>0, <3>1, CountsOneMore
    <2>3. Lists'
      <3>1. IsFiniteSet(allThreads') BY <1>1, <1>0, FS_AddElement DEF Lists, startThread
      <3>2. /\ wpc[w] = "absent" /\ wpc'[w] \in {"starting", "failed"}
            /\ \A v \in Threads : v # w => wpc'[v] = wpc[v]
            /\ allThreads' = allThreads \cup {w}
            /\ UNCHANGED <<waitingThreads, expiredThreads, signalled>>
        BY <1>1, <1>0 DEF ActiveTypeOK, startThread, Assign
      <3>3. w \notin allThreads BY <1>0, <3>2 DEF Lists, OnTheWay
      <3>4. \A v \in allThreads' \ (waitingThreads' \cup expiredThreads') : OnTheWay(v)'
        BY <1>0, <3>2 DEF ActiveTypeOK, Lists, OnTheWay
      <3> QED BY <1>0, <3>1, <3>2, <3>3, <3>4 DEF ActiveTypeOK, Lists, Active
    <2>4. Copies'
      BY <1>1, <1>0 DEF ActiveTypeOK, Lists, OnTheWay, Copies, startThread, Assign
    <2>5. Tracked'
      <3>1. /\ \A v \in Threads : v # w => wpc'[v] = wpc[v] /\ target'[v] = target[v]
            /\ wpc[w] \notin {"starting", "running"} /\ target'[w] = r
            /\ UNCHANGED <<runnables, running, joinSet>>
        BY <1>1, <1>0 DEF ActiveTypeOK, Lists, startThread, Assign
      <3>2. \/ wpc'[w] = "starting" /\ st'[r] = "assigned"
            \/ st'[r] = st[r]
        BY <1>1, <1>0 DEF ActiveTypeOK, startThread, Assign
      <3>3. \A q \in Targets : q # r => st'[q] = st[q]
        BY <1>1, <1>0 DEF ActiveTypeOK, startThread, Assign
      <3>4. ASSUME NEW q \in Targets PROVE Whereabouts(q)'
        BY <1>0, <3>1, <3>2, <3>3, QueueUnchanged DEF Tracked, Whereabouts
      <3>5. \A v \in Threads : wpc'[v] = "starting" => target'[v] \in Targets
        BY <1>0, <3>1 DEF Tracked
      <3>6. \A c \in Clients : \A q \in joinSet'[c] : st'[q] # "new"
        BY <1>0, <3>1, <3>2, <3>3 DEF Tracked, ActiveTypeOK
      <3> QED BY <3>4, <3>5, <3>6 DEF Tracked
    <2>6. Attended'
      BY <1>1, <1>0, QueueUnchanged
      DEF ActiveTypeOK, Lists, OnTheWay, Active, Attended, startThread, Assign
    <2> QED BY <2>1, <2>2, <2>3, <2>4, <2>5, <2>6 DEF IInv
  <1>2. ASSUME NEW r \in Targets, NEW w \in Threads, RestartExpired(w, r), UNCHANGED joiner
        PROVE  IInv'
    <2>1. ActiveTypeOK'
      BY <1>2, <1>0 DEF ActiveTypeOK, Places, JoinPlaces, RestartExpired, Assign
    <2>2. Counts'
      <3>1. /\ w \notin Active /\ Active' = Active \cup {w}
            /\ activeThreads' = activeThreads + 1
        BY <1>2, <1>0 DEF ActiveTypeOK, Lists, Active, OnTheWay, RestartExpired, Assign
      <3> QED BY <1>0, <3>1, CountsOneMore
    <2>3. Lists'
      <3>1. /\ w \in expiredThreads /\ expiredThreads' = expiredThreads \ {w}
            /\ wpc'[w] \in {"starting", "failed"}
            /\ \A v \in Threads : v # w => wpc'[v] = wpc[v]
            /\ UNCHANGED <<allThreads, waitingThreads, signalled>>
        BY <1>2, <1>0 DEF ActiveTypeOK, RestartExpired, Assign
      <3>2. wpc[w] = "exited" /\ w \in allThreads /\ w \notin waitingThreads
        BY <1>0, <3>1 DEF Lists
      <3> QED BY <1>0, <3>1, <3>2 DEF ActiveTypeOK, Lists, Active, OnTheWay
    <2>4. Copies'
      BY <1>2, <1>0 DEF ActiveTypeOK, Lists, OnTheWay, Copies, RestartExpired, Assign
    <2>5. Tracked'
      <3>1. /\ \A v \in Threads : v # w => wpc'[v] = wpc[v] /\ target'[v] = target[v]
            /\ wpc[w] \notin {"starting", "running"} /\ target'[w] = r
            /\ UNCHANGED <<runnables, running, joinSet>>
        BY <1>2, <1>0 DEF ActiveTypeOK, Lists, RestartExpired, Assign
      <3>2. \/ wpc'[w] = "starting" /\ st'[r] = "assigned"
            \/ st'[r] = st[r]
        BY <1>2, <1>0 DEF ActiveTypeOK, RestartExpired, Assign
      <3>3. \A q \in Targets : q # r => st'[q] = st[q]
        BY <1>2, <1>0 DEF ActiveTypeOK, RestartExpired, Assign
      <3>4. ASSUME NEW q \in Targets PROVE Whereabouts(q)'
        BY <1>0, <3>1, <3>2, <3>3, QueueUnchanged DEF Tracked, Whereabouts
      <3>5. \A v \in Threads : wpc'[v] = "starting" => target'[v] \in Targets
        BY <1>0, <3>1 DEF Tracked
      <3>6. \A c \in Clients : \A q \in joinSet'[c] : st'[q] # "new"
        BY <1>0, <3>1, <3>2, <3>3 DEF Tracked, ActiveTypeOK
      <3> QED BY <3>4, <3>5, <3>6 DEF Tracked
    <2>6. Attended'
      BY <1>2, <1>0, QueueUnchanged
      DEF ActiveTypeOK, Lists, OnTheWay, Active, Attended, RestartExpired, Assign
    <2> QED BY <2>1, <2>2, <2>3, <2>4, <2>5, <2>6 DEF IInv
    <1>3. ASSUME NEW r \in Targets, NEW p \in Priorities, NEW w \in Threads, Recycle(w, r, p),
               UNCHANGED joiner
        PROVE  IInv'
    <2>1. ActiveTypeOK'
      <3>1. runnables' \in [Priorities -> Seq(Targets)] BY <1>3, <1>0, PushQueues DEF Recycle
      <3>2. signalled' \in [Threads -> BOOLEAN] BY <1>3, <1>0 DEF ActiveTypeOK, Recycle
      <3> QED BY <1>3, <1>0, <3>1, <3>2 DEF ActiveTypeOK, Recycle
    <2>2. Counts'
      <3>1. Active' = Active /\ UNCHANGED activeThreads
        BY <1>3, <1>0 DEF ActiveTypeOK, Active, Recycle
      <3> QED BY <1>0, <3>1, CountsSame
    <2>3. Lists'
      <3>1. wpc[w] = "waiting" => signalled'[w]
        BY <1>3, <1>0 DEF ActiveTypeOK, Recycle
      <3>2. \A v \in Threads : v # w => signalled'[v] = signalled[v]
        BY <1>3, <1>0 DEF ActiveTypeOK, Recycle
      <3>3. /\ waitingThreads' = waitingThreads \ {w} /\ w \in waitingThreads
            /\ UNCHANGED <<allThreads, expiredThreads, wpc>>
        BY <1>3 DEF Recycle
      <3>4. \A v \in allThreads' \ (waitingThreads' \cup expiredThreads') : OnTheWay(v)'
        BY <1>0, <3>1, <3>2, <3>3 DEF ActiveTypeOK, Lists, OnTheWay
      <3> QED BY <1>0, <3>3, <3>4 DEF Lists, Active
    <2>4. Copies'
      BY <1>3, <1>0 DEF ActiveTypeOK, Lists, OnTheWay, Copies, Recycle
    <2>5. Tracked'
      <3>1. InQueue(r)' /\ \A q \in Targets : InQueue(q) => InQueue(q)'
        BY <1>3, <1>0, PushQueues DEF Recycle
      <3>2. /\ UNCHANGED <<wpc, target, running, joinSet>> /\ st'[r] = "queued"
            /\ \A q \in Targets : q # r => st'[q] = st[q]
        BY <1>3, <1>0 DEF ActiveTypeOK, Recycle
      <3>3. ASSUME NEW q \in Targets PROVE Whereabouts(q)'
        BY <1>0, <3>1, <3>2 DEF Tracked, Whereabouts
      <3>4. \A c \in Clients : \A q \in joinSet'[c] : st'[q] # "new"
        BY <1>0, <3>2 DEF Tracked, ActiveTypeOK
      <3> QED BY <1>0, <3>2, <3>3, <3>4 DEF Tracked
    <2>6. Attended'
      BY <1>3, <1>0, QueueUnchanged DEF ActiveTypeOK, Lists, OnTheWay, Active, Attended, Recycle
    <2> QED BY <2>1, <2>2, <2>3, <2>4, <2>5, <2>6 DEF IInv
    <1>4. ASSUME NEW r \in Targets, NEW p \in Priorities, QueueTask(r, p), UNCHANGED joiner
        PROVE  IInv'
    <2>1. ActiveTypeOK'
      <3>1. runnables' \in [Priorities -> Seq(Targets)] BY <1>4, <1>0, PushQueues DEF QueueTask
      <3> QED BY <1>4, <1>0, <3>1 DEF ActiveTypeOK, QueueTask
    <2>2. Counts'
      <3>1. Active' = Active /\ UNCHANGED activeThreads
        BY <1>4, <1>0 DEF ActiveTypeOK, Active, QueueTask
      <3> QED BY <1>0, <3>1, CountsSame
    <2>3. Lists'
      BY <1>4, <1>0, FS_AddElement DEF ActiveTypeOK, Lists, Copies, Active, OnTheWay, QueueTask
    <2>4. Copies'
      BY <1>4, <1>0 DEF ActiveTypeOK, Lists, OnTheWay, Copies, QueueTask
    <2>5. Tracked'
      <3>1. InQueue(r)' /\ \A q \in Targets : InQueue(q) => InQueue(q)'
        BY <1>4, <1>0, PushQueues DEF QueueTask
      <3>2. /\ UNCHANGED <<wpc, target, running, joinSet>> /\ st'[r] = "queued"
            /\ \A q \in Targets : q # r => st'[q] = st[q]
        BY <1>4, <1>0 DEF ActiveTypeOK, QueueTask
      <3>3. ASSUME NEW q \in Targets PROVE Whereabouts(q)'
        BY <1>0, <3>1, <3>2 DEF Tracked, Whereabouts
      <3>4. \A c \in Clients : \A q \in joinSet'[c] : st'[q] # "new"
        BY <1>0, <3>2 DEF Tracked, ActiveTypeOK
      <3> QED BY <1>0, <3>2, <3>3, <3>4 DEF Tracked
    <2>6. Attended'
      <3>1. allThreads # waitingThreads \cup expiredThreads
        BY <1>4, <1>0, SomebodyIsOnTheWay DEF QueueTask
      <3> QED BY <1>4, <3>1 DEF Attended, QueueTask
    <2> QED BY <2>1, <2>2, <2>3, <2>4, <2>5, <2>6 DEF IInv
    <1>5. ASSUME NEW w \in Threads, Begin(w)
        PROVE  IInv'
    <2>1. ActiveTypeOK'
      BY <1>5, <1>0 DEF ActiveTypeOK, Places, JoinPlaces, Begin
    <2>2. Counts'
      <3>1. Active' = Active /\ UNCHANGED activeThreads
        BY <1>5, <1>0 DEF ActiveTypeOK, Active, Begin
      <3> QED BY <1>0, <3>1, CountsSame
    <2>3. Lists'
      BY <1>5, <1>0, FS_AddElement DEF ActiveTypeOK, Lists, Copies, Active, OnTheWay, Begin
    <2>4. Copies'
      BY <1>5, <1>0 DEF ActiveTypeOK, Lists, OnTheWay, Copies, Begin
    <2>5. Tracked'
      BY <1>5, <1>0, QueueUnchanged DEF ActiveTypeOK, Tracked, Whereabouts, Begin
    <2>6. Attended'
      BY <1>5, <1>0, QueueUnchanged DEF ActiveTypeOK, Lists, OnTheWay, Active, Attended, Begin
    <2> QED BY <2>1, <2>2, <2>3, <2>4, <2>5, <2>6 DEF IInv
    <1>6. ASSUME NEW w \in Threads, RunEnds(w)
        PROVE  IInv'
    <2>1. ActiveTypeOK'
      BY <1>6, <1>0 DEF ActiveTypeOK, Places, JoinPlaces, RunEnds
    <2>2. Counts'
      <3>1. Active' = Active /\ UNCHANGED activeThreads
        BY <1>6, <1>0 DEF ActiveTypeOK, Active, RunEnds
      <3> QED BY <1>0, <3>1, CountsSame
    <2>3. Lists'
      BY <1>6, <1>0, FS_AddElement DEF ActiveTypeOK, Lists, Copies, Active, OnTheWay, RunEnds
    <2>4. Copies'
      BY <1>6, <1>0 DEF ActiveTypeOK, Lists, OnTheWay, Copies, RunEnds
    <2>5. Tracked'
      BY <1>6, <1>0, QueueUnchanged DEF ActiveTypeOK, Tracked, Whereabouts, RunEnds
    <2>6. Attended'
      BY <1>6, <1>0, QueueUnchanged DEF ActiveTypeOK, Lists, OnTheWay, Active, Attended, RunEnds
    <2> QED BY <2>1, <2>2, <2>3, <2>4, <2>5, <2>6 DEF IInv
    <1>7. ASSUME NEW w \in Threads, AfterRun(w), ~RunnablesEmpty
        PROVE  IInv'
    <2>1. ActiveTypeOK'
      <3>1. /\ runnables' = pop /\ activeThreads' = activeThreads
            /\ running' = [running EXCEPT ![w] = Head(runnables[Top])]
            /\ st' = [st EXCEPT ![Head(runnables[Top])] = "running"]
            /\ wpc' = [wpc EXCEPT ![w] = "running"]
        BY <1>7 DEF AfterRun, TakeOrWait
      <3>2. /\ UNCHANGED <<allThreads, expiredThreads, target, copy, at, joinSet>>
            /\ UNCHANGED <<waitingThreads, signalled, jpc>>
        BY <1>7 DEF AfterRun, TakeOrWait
      <3>3. pop \in [Priorities -> Seq(Targets)] /\ Head(runnables[Top]) \in Targets
        BY <1>7, <1>0, PopType
      <3> QED BY <1>0, <3>1, <3>2, <3>3 DEF ActiveTypeOK, Places
    <2>2. Counts'
      <3>1. Active' = Active /\ UNCHANGED activeThreads
        BY <1>7, <1>0 DEF ActiveTypeOK, Active, AfterRun, TakeOrWait
      <3> QED BY <1>0, <3>1, CountsSame
    <2>3. Lists'
      BY <1>7, <1>0, FS_AddElement
      DEF ActiveTypeOK, Lists, Copies, Active, OnTheWay, AfterRun, TakeOrWait
    <2>4. Copies'
      BY <1>7, <1>0 DEF ActiveTypeOK, Lists, OnTheWay, Copies, AfterRun, TakeOrWait
    <2>5. Tracked'
      <3>1. PICK r \in Targets : r = Head(runnables[Top]) BY <1>7, <1>0, PopType
      <3>2. /\ \A v \in Threads : v # w => wpc'[v] = wpc[v] /\ running'[v] = running[v]
            /\ wpc'[w] = "running" /\ running'[w] = r
            /\ wpc[w] # "starting" /\ ~(wpc[w] = "running" /\ running[w] \in Targets)
            /\ st'[r] = "running" /\ \A q \in Targets : q # r => st'[q] = st[q]
            /\ UNCHANGED <<target, joinSet>>
        BY <1>7, <1>0, <3>1 DEF ActiveTypeOK, AfterRun, TakeOrWait
      <3>3. \A q \in Targets : q # r /\ InQueue(q) => InQueue(q)'
        BY <1>7, <1>0, <3>1, PopLeavesOthers DEF AfterRun, TakeOrWait
      <3>4. ASSUME NEW q \in Targets PROVE Whereabouts(q)'
        BY <1>0, <3>2, <3>3 DEF Tracked, Whereabouts
      <3>5. \A v \in Threads : wpc'[v] = "starting" => target'[v] \in Targets
        BY <1>0, <3>2 DEF Tracked
      <3>6. \A c \in Clients : \A q \in joinSet'[c] : st'[q] # "new"
        BY <1>0, <3>2 DEF Tracked, ActiveTypeOK
      <3> QED BY <3>4, <3>5, <3>6 DEF Tracked
    <2>6. Attended'
      BY <1>7, <1>0, QueueUnchanged
      DEF ActiveTypeOK, Lists, OnTheWay, Active, Attended, AfterRun, TakeOrWait
    <2> QED BY <2>1, <2>2, <2>3, <2>4, <2>5, <2>6 DEF IInv
    <1>8. ASSUME NEW w \in Threads, AfterRun(w), RunnablesEmpty
        PROVE  IInv'
    <2>1. ActiveTypeOK'
      <3>1. jpc' \in [Clients -> JoinPlaces]
        BY <1>8, <1>0 DEF ActiveTypeOK, JoinPlaces, AfterRun, TakeOrWait, Broadcast

      <3>2. activeThreads # 0
        BY <1>8, <1>0, FS_EmptySet DEF AfterRun, Counts, Active
      <3>3. activeThreads - 1 \in Nat BY <1>0, <3>2 DEF ActiveTypeOK
      <3>4. signalled' \in [Threads -> BOOLEAN] BY <1>8, <1>0 DEF ActiveTypeOK, AfterRun, TakeOrWait
      <3> QED BY <1>8, <1>0, <3>1, <3>3, <3>4 DEF ActiveTypeOK, Places, AfterRun, TakeOrWait
    <2>2. Counts'
      <3>1. /\ w \in Active /\ Active' = Active \ {w}
            /\ activeThreads' = activeThreads - 1
        BY <1>8, <1>0 DEF ActiveTypeOK, Lists, Active, OnTheWay, AfterRun, TakeOrWait, Broadcast
      <3> QED BY <1>0, <3>1, CountsOneLess
    <2>3. Lists'
      BY <1>8, <1>0, FS_AddElement
      DEF ActiveTypeOK, Lists, Copies, Active, OnTheWay, AfterRun, TakeOrWait, Broadcast
    <2>4. Copies'
      BY <1>8, <1>0 DEF ActiveTypeOK, Lists, OnTheWay, Copies, AfterRun, TakeOrWait, Broadcast
    <2>5. Tracked'
      BY <1>8, <1>0, QueueUnchanged
      DEF ActiveTypeOK, Tracked, Whereabouts, AfterRun, TakeOrWait, Broadcast
    <2>6. Attended'
      BY <1>8, <1>0, QueueUnchanged
      DEF ActiveTypeOK, Lists, OnTheWay, Active, Attended, AfterRun, TakeOrWait, Broadcast
    <2> QED BY <2>1, <2>2, <2>3, <2>4, <2>5, <2>6 DEF IInv
    <1>9. ASSUME NEW w \in Threads, Relock(w), w \in waitingThreads
        PROVE  IInv'
    <2>1. ActiveTypeOK'
      <3>1. jpc' \in [Clients -> JoinPlaces]
        BY <1>9, <1>0 DEF ActiveTypeOK, JoinPlaces, Relock, Broadcast

      <3> QED BY <1>9, <1>0, <3>1 DEF ActiveTypeOK, Places, Relock
    <2>2. Counts'
      <3>1. Active' = Active /\ UNCHANGED activeThreads
        BY <1>9, <1>0 DEF ActiveTypeOK, Active, Relock, Broadcast
      <3> QED BY <1>0, <3>1, CountsSame
    <2>3. Lists'
      BY <1>9, <1>0, FS_AddElement
      DEF ActiveTypeOK, Lists, Copies, Active, OnTheWay, Relock, Broadcast
    <2>4. Copies'
      BY <1>9, <1>0 DEF ActiveTypeOK, Lists, OnTheWay, Copies, Relock, Broadcast
    <2>5. Tracked'
      BY <1>9, <1>0, QueueUnchanged DEF ActiveTypeOK, Tracked, Whereabouts, Relock, Broadcast
    <2>6. Attended'
      BY <1>9, <1>0, QueueUnchanged
      DEF ActiveTypeOK, Lists, OnTheWay, Active, Attended, Relock, Broadcast
    <2> QED BY <2>1, <2>2, <2>3, <2>4, <2>5, <2>6 DEF IInv
    <1>10. ASSUME NEW w \in Threads, Relock(w), w \notin waitingThreads, w \notin allThreads
         PROVE  IInv'
    <2>1. ActiveTypeOK'
      <3>1. jpc' \in [Clients -> JoinPlaces]
        BY <1>10, <1>0 DEF ActiveTypeOK, JoinPlaces, Relock, Broadcast

      <3> QED BY <1>10, <1>0, <3>1 DEF ActiveTypeOK, Places, Relock
    <2>2. Counts'
      <3>1. Active' = Active /\ UNCHANGED activeThreads
        BY <1>10, <1>0 DEF ActiveTypeOK, Active, Relock, Broadcast
      <3> QED BY <1>0, <3>1, CountsSame
    <2>3. Lists'
      <3>1. /\ UNCHANGED <<allThreads, expiredThreads, waitingThreads, signalled>>
            /\ wpc' = [wpc EXCEPT ![w] = "exited"] /\ w \notin allThreads
        BY <1>10 DEF Relock
      <3> QED BY <1>0, <3>1 DEF ActiveTypeOK, Lists, Active, OnTheWay
    <2>4. Copies'
      BY <1>10, <1>0 DEF ActiveTypeOK, Lists, OnTheWay, Copies, Relock, Broadcast
    <2>5. Tracked'
      BY <1>10, <1>0, QueueUnchanged DEF ActiveTypeOK, Tracked, Whereabouts, Relock, Broadcast
    <2>6. Attended'
      BY <1>10, <1>0, QueueUnchanged
      DEF ActiveTypeOK, Lists, OnTheWay, Active, Attended, Relock, Broadcast
    <2> QED BY <2>1, <2>2, <2>3, <2>4, <2>5, <2>6 DEF IInv
    <1>11. ASSUME NEW w \in Threads, Relock(w), w \notin waitingThreads, w \in allThreads,
                ~RunnablesEmpty
         PROVE  IInv'
    <2>1. ActiveTypeOK'
      <3>1. /\ runnables' = pop /\ activeThreads' = activeThreads + 1
            /\ running' = [running EXCEPT ![w] = Head(runnables[Top])]
            /\ st' = [st EXCEPT ![Head(runnables[Top])] = "running"]
            /\ wpc' = [wpc EXCEPT ![w] = "running"]
        BY <1>11 DEF Relock, TakeOrWait
      <3>2. /\ UNCHANGED <<allThreads, expiredThreads, target, copy, at, joinSet>>
            /\ UNCHANGED <<waitingThreads, signalled, jpc>>
        BY <1>11 DEF Relock, TakeOrWait
      <3>3. pop \in [Priorities -> Seq(Targets)] /\ Head(runnables[Top]) \in Targets
        BY <1>11, <1>0, PopType
      <3> QED BY <1>0, <3>1, <3>2, <3>3 DEF ActiveTypeOK, Places
    <2>2. Counts'
      <3>1. /\ w \notin Active /\ Active' = Active \cup {w}
            /\ activeThreads' = activeThreads + 1
        BY <1>11, <1>0 DEF ActiveTypeOK, Lists, Active, OnTheWay, Relock, TakeOrWait
      <3> QED BY <1>0, <3>1, CountsOneMore
    <2>3. Lists'
      <3>1. UNCHANGED <<allThreads, expiredThreads, waitingThreads, signalled>>
        BY <1>11 DEF Relock, TakeOrWait
      <3>2. wpc' = [wpc EXCEPT ![w] = "running"] /\ wpc[w] = "woken"
        BY <1>11 DEF Relock, TakeOrWait
      <3> QED BY <1>11, <1>0, <3>1, <3>2 DEF ActiveTypeOK, Lists, Active, OnTheWay
    <2>4. Copies'
      BY <1>11, <1>0 DEF ActiveTypeOK, Lists, OnTheWay, Copies, Relock, TakeOrWait
    <2>5. Tracked'
      <3>1. PICK r \in Targets : r = Head(runnables[Top]) BY <1>11, <1>0, PopType
      <3>2. /\ \A v \in Threads : v # w => wpc'[v] = wpc[v] /\ running'[v] = running[v]
            /\ wpc'[w] = "running" /\ running'[w] = r
            /\ wpc[w] # "starting" /\ ~(wpc[w] = "running" /\ running[w] \in Targets)
            /\ st'[r] = "running" /\ \A q \in Targets : q # r => st'[q] = st[q]
            /\ UNCHANGED <<target, joinSet>>
        BY <1>11, <1>0, <3>1 DEF ActiveTypeOK, Relock, TakeOrWait
      <3>3. \A q \in Targets : q # r /\ InQueue(q) => InQueue(q)'
        BY <1>11, <1>0, <3>1, PopLeavesOthers DEF Relock, TakeOrWait
      <3>4. ASSUME NEW q \in Targets PROVE Whereabouts(q)'
        BY <1>0, <3>2, <3>3 DEF Tracked, Whereabouts
      <3>5. \A v \in Threads : wpc'[v] = "starting" => target'[v] \in Targets
        BY <1>0, <3>2 DEF Tracked
      <3>6. \A c \in Clients : \A q \in joinSet'[c] : st'[q] # "new"
        BY <1>0, <3>2 DEF Tracked, ActiveTypeOK
      <3> QED BY <3>4, <3>5, <3>6 DEF Tracked
    <2>6. Attended'
      BY <1>11, <1>0, QueueUnchanged
      DEF ActiveTypeOK, Lists, OnTheWay, Active, Attended, Relock, TakeOrWait
    <2> QED BY <2>1, <2>2, <2>3, <2>4, <2>5, <2>6 DEF IInv
    <1>12. ASSUME NEW w \in Threads, Relock(w), w \notin waitingThreads, w \in allThreads,
                RunnablesEmpty
         PROVE  IInv'
    <2>1. ActiveTypeOK'
      <3>1. jpc' \in [Clients -> JoinPlaces]
        BY <1>12, <1>0 DEF ActiveTypeOK, JoinPlaces, Relock, TakeOrWait, Broadcast

      <3>2. signalled' \in [Threads -> BOOLEAN] BY <1>12, <1>0 DEF ActiveTypeOK, Relock, TakeOrWait
      <3>3. activeThreads + 1 - 1 \in Nat BY <1>0 DEF ActiveTypeOK
      <3> QED BY <1>12, <1>0, <3>1, <3>2, <3>3 DEF ActiveTypeOK, Places, Relock, TakeOrWait
    <2>2. Counts'
      <3>1. Active' = Active /\ UNCHANGED activeThreads
        BY <1>12, <1>0 DEF ActiveTypeOK, Active, Relock, TakeOrWait, Broadcast
      <3> QED BY <1>0, <3>1, CountsSame
    <2>3. Lists'
      BY <1>12, <1>0, FS_AddElement
      DEF ActiveTypeOK, Lists, Copies, Active, OnTheWay, Relock, TakeOrWait, Broadcast
    <2>4. Copies'
      BY <1>12, <1>0 DEF ActiveTypeOK, Lists, OnTheWay, Copies, Relock, TakeOrWait, Broadcast
    <2>5. Tracked'
      BY <1>12, <1>0, QueueUnchanged
      DEF ActiveTypeOK, Tracked, Whereabouts, Relock, TakeOrWait, Broadcast
    <2>6. Attended'
      BY <1>12, <1>0, QueueUnchanged
      DEF ActiveTypeOK, Lists, OnTheWay, Active, Attended, Relock, TakeOrWait, Broadcast
    <2> QED BY <2>1, <2>2, <2>3, <2>4, <2>5, <2>6 DEF IInv
    <1>13. ASSUME NEW w \in Threads, WaitEnds(w)
         PROVE  IInv'
    <2>1. ActiveTypeOK'
      BY <1>13, <1>0 DEF ActiveTypeOK, Places, JoinPlaces, WaitEnds
    <2>2. Counts'
      <3>1. Active' = Active /\ UNCHANGED activeThreads
        BY <1>13, <1>0 DEF ActiveTypeOK, Active, WaitEnds
      <3> QED BY <1>0, <3>1, CountsSame
    <2>3. Lists'
      BY <1>13, <1>0, FS_AddElement DEF ActiveTypeOK, Lists, Copies, Active, OnTheWay, WaitEnds
    <2>4. Copies'
      BY <1>13, <1>0 DEF ActiveTypeOK, Lists, OnTheWay, Copies, WaitEnds
    <2>5. Tracked'
      BY <1>13, <1>0, QueueUnchanged DEF ActiveTypeOK, Tracked, Whereabouts, WaitEnds
    <2>6. Attended'
      BY <1>13, <1>0, QueueUnchanged DEF ActiveTypeOK, Lists, OnTheWay, Active, Attended, WaitEnds
    <2> QED BY <2>1, <2>2, <2>3, <2>4, <2>5, <2>6 DEF IInv
    <1>14. ASSUME NEW c \in Clients, joinAll(c)
         PROVE  IInv'
    <2>1. ActiveTypeOK'
      BY <1>14, <1>0 DEF ActiveTypeOK, Places, JoinPlaces, joinAll
    <2>2. Counts'
      <3>1. Active' = Active /\ UNCHANGED activeThreads
        BY <1>14, <1>0 DEF ActiveTypeOK, Active, joinAll
      <3> QED BY <1>0, <3>1, CountsSame
    <2>3. Lists'
      BY <1>14, <1>0, FS_AddElement DEF ActiveTypeOK, Lists, Copies, Active, OnTheWay, joinAll
    <2>4. Copies'
      BY <1>14, <1>0 DEF ActiveTypeOK, Lists, OnTheWay, Copies, joinAll
    <2>5. Tracked'
      BY <1>14, <1>0, QueueUnchanged DEF ActiveTypeOK, Tracked, Whereabouts, joinAll
    <2>6. Attended'
      BY <1>14, <1>0, QueueUnchanged DEF ActiveTypeOK, Lists, OnTheWay, Active, Attended, joinAll
    <2> QED BY <2>1, <2>2, <2>3, <2>4, <2>5, <2>6 DEF IInv
    <1>15. ASSUME NEW c \in Clients, JoinCheck(c), Busy
         PROVE  IInv'
    <2>1. ActiveTypeOK'
      BY <1>15, <1>0 DEF ActiveTypeOK, Places, JoinPlaces, JoinCheck
    <2>2. Counts'
      <3>1. Active' = Active /\ UNCHANGED activeThreads
        BY <1>15, <1>0 DEF ActiveTypeOK, Active, JoinCheck
      <3> QED BY <1>0, <3>1, CountsSame
    <2>3. Lists'
      BY <1>15, <1>0, FS_AddElement DEF ActiveTypeOK, Lists, Copies, Active, OnTheWay, JoinCheck
    <2>4. Copies'
      BY <1>15, <1>0 DEF ActiveTypeOK, Lists, OnTheWay, Copies, JoinCheck
    <2>5. Tracked'
      BY <1>15, <1>0, QueueUnchanged DEF ActiveTypeOK, Tracked, Whereabouts, JoinCheck
    <2>6. Attended'
      BY <1>15, <1>0, QueueUnchanged DEF ActiveTypeOK, Lists, OnTheWay, Active, Attended, JoinCheck
    <2> QED BY <2>1, <2>2, <2>3, <2>4, <2>5, <2>6 DEF IInv
    <1>16. ASSUME NEW c \in Clients, JoinCheck(c), ~Busy
         PROVE  IInv'
    <2>1. ActiveTypeOK'
      BY <1>16, <1>0 DEF ActiveTypeOK, Places, JoinPlaces, JoinCheck, Busy
    <2>2. Counts'
      <3>1. Active' = Active /\ UNCHANGED activeThreads
        BY <1>16, <1>0 DEF ActiveTypeOK, Active, JoinCheck, Busy
      <3> QED BY <1>0, <3>1, CountsSame
    <2>3. Lists'
      <3>1. Active = {} BY <1>16, <1>0, FS_EmptySet DEF Busy, Counts
      <3>2. /\ allThreads' = {} /\ waitingThreads' = {} /\ expiredThreads' = {} /\ UNCHANGED wpc
        BY <1>16 DEF JoinCheck
      <3>3. Active' = {} BY <3>1, <3>2 DEF Active
      <3> QED BY <3>2, <3>3, FS_EmptySet DEF Lists
    <2>4. Copies'
      <3>1. /\ copy' = [copy EXCEPT ![c] = allThreads] /\ allThreads' = {}
            /\ jpc[c] = "check" /\ jpc' = [jpc EXCEPT ![c] = "join"] /\ UNCHANGED <<wpc, at>>
        BY <1>16 DEF JoinCheck
      <3>2. \A w \in allThreads : wpc[w] # "absent" BY <1>0 DEF Lists, OnTheWay
      <3>3. \A d \in Clients : \A w \in copy'[d] : w \notin allThreads' /\ wpc'[w] # "absent"
        BY <1>0, <3>1, <3>2 DEF ActiveTypeOK, Copies
      <3>4. \A d, e \in Clients : \A w \in copy'[d] : w \in copy'[e] => d = e
        BY <1>0, <3>1 DEF ActiveTypeOK, Copies
      <3>5. \A d \in Clients : at'[d] # Nothing => at'[d] \in copy'[d]
        BY <1>0, <3>1 DEF ActiveTypeOK, Copies
      <3>6. \A d \in Clients : jpc'[d] # "join" => copy'[d] = {}
        BY <1>0, <3>1 DEF ActiveTypeOK, Copies
      <3> QED BY <3>3, <3>4, <3>5, <3>6 DEF Copies
    <2>5. Tracked'
      BY <1>16, <1>0, QueueUnchanged DEF ActiveTypeOK, Tracked, Whereabouts, JoinCheck, Busy
    <2>6. Attended'
      BY <1>16, <1>0, QueueUnchanged
      DEF ActiveTypeOK, Lists, OnTheWay, Active, Attended, JoinCheck, Busy
    <2> QED BY <2>1, <2>2, <2>3, <2>4, <2>5, <2>6 DEF IInv
    <1>17. ASSUME NEW c \in Clients, NEW w \in Threads, JoinNotify(c, w)
         PROVE  IInv'
    <2>1. ActiveTypeOK'
      BY <1>17, <1>0 DEF ActiveTypeOK, Places, JoinPlaces, JoinNotify
    <2>2. Counts'
      <3>1. Active' = Active /\ UNCHANGED activeThreads
        BY <1>17, <1>0 DEF ActiveTypeOK, Active, JoinNotify
      <3> QED BY <1>0, <3>1, CountsSame
    <2>3. Lists'
      BY <1>17, <1>0, FS_AddElement DEF ActiveTypeOK, Lists, Copies, Active, OnTheWay, JoinNotify
    <2>4. Copies'
      BY <1>17, <1>0 DEF ActiveTypeOK, Lists, OnTheWay, Copies, JoinNotify
    <2>5. Tracked'
      BY <1>17, <1>0, QueueUnchanged DEF ActiveTypeOK, Tracked, Whereabouts, JoinNotify
    <2>6. Attended'
      BY <1>17, <1>0, QueueUnchanged DEF ActiveTypeOK, Lists, OnTheWay, Active, Attended, JoinNotify
    <2> QED BY <2>1, <2>2, <2>3, <2>4, <2>5, <2>6 DEF IInv
    <1>18. ASSUME NEW c \in Clients, JoinThread(c)
         PROVE  IInv'
    <2>1. ActiveTypeOK'
      BY <1>18, <1>0 DEF ActiveTypeOK, Places, JoinPlaces, JoinThread
    <2>2. Counts'
      <3>1. Active' = Active /\ UNCHANGED activeThreads
        BY <1>18, <1>0 DEF ActiveTypeOK, Active, JoinThread
      <3> QED BY <1>0, <3>1, CountsSame
    <2>3. Lists'
      BY <1>18, <1>0, FS_AddElement DEF ActiveTypeOK, Lists, Copies, Active, OnTheWay, JoinThread
    <2>4. Copies'
      BY <1>18, <1>0 DEF ActiveTypeOK, Lists, OnTheWay, Copies, JoinThread
    <2>5. Tracked'
      BY <1>18, <1>0, QueueUnchanged DEF ActiveTypeOK, Tracked, Whereabouts, JoinThread
    <2>6. Attended'
      BY <1>18, <1>0, QueueUnchanged DEF ActiveTypeOK, Lists, OnTheWay, Active, Attended, JoinThread
    <2> QED BY <2>1, <2>2, <2>3, <2>4, <2>5, <2>6 DEF IInv
    <1>19. ASSUME NEW c \in Clients, JoinRecheck(c)
         PROVE  IInv'
    <2>1. ActiveTypeOK'
      BY <1>19, <1>0 DEF ActiveTypeOK, Places, JoinPlaces, JoinRecheck
    <2>2. Counts'
      <3>1. Active' = Active /\ UNCHANGED activeThreads
        BY <1>19, <1>0 DEF ActiveTypeOK, Active, JoinRecheck
      <3> QED BY <1>0, <3>1, CountsSame
    <2>3. Lists'
      BY <1>19, <1>0, FS_AddElement DEF ActiveTypeOK, Lists, Copies, Active, OnTheWay, JoinRecheck
    <2>4. Copies'
      BY <1>19, <1>0 DEF ActiveTypeOK, Lists, OnTheWay, Copies, JoinRecheck
    <2>5. Tracked'
      BY <1>19, <1>0, QueueUnchanged DEF ActiveTypeOK, Tracked, Whereabouts, JoinRecheck
    <2>6. Attended'
      BY <1>19, <1>0, QueueUnchanged
         DEF ActiveTypeOK, Lists, OnTheWay, Active, Attended, JoinRecheck
    <2> QED BY <2>1, <2>2, <2>3, <2>4, <2>5, <2>6 DEF IInv
  <1>20. CASE UNCHANGED activeVars
    <2>1. ActiveTypeOK' BY <1>20, <1>0 DEF activeVars, ActiveTypeOK
    <2>2. Counts' BY <1>20, <1>0 DEF activeVars, Counts, Active
    <2>3. Lists' BY <1>20, <1>0 DEF activeVars, Lists, OnTheWay, Active
    <2>4. Copies' BY <1>20, <1>0 DEF activeVars, Copies
    <2>5. Tracked' BY <1>20, <1>0, QueueUnchanged DEF activeVars, Tracked, Whereabouts
    <2>6. Attended' BY <1>20, <1>0, QueueUnchanged DEF activeVars, Attended
    <2> QED BY <2>1, <2>2, <2>3, <2>4, <2>5, <2>6 DEF IInv
  <1>21. ASSUME NEW r \in Targets, NEW p \in Priorities, ActiveThreadPool_start(r, p) PROVE IInv'
    BY <1>21, <1>1, <1>2, <1>3, <1>4 DEF ActiveThreadPool_start, tryStart
  <1>22. ASSUME NEW w \in Threads, RunThread(w) \/ WaitEnds(w) PROVE IInv'
    BY <1>22, <1>5, <1>6, <1>7, <1>8, <1>9, <1>10, <1>11, <1>12, <1>13 DEF RunThread
  <1>23. ASSUME NEW c \in Clients, joinAll(c) \/ Join(c) PROVE IInv'
    BY <1>23, <1>14, <1>15, <1>16, <1>17, <1>18, <1>19 DEF Join
  <1> QED BY <1>20, <1>21, <1>22, <1>23 DEF ActiveNext

-----------------------------------------------------------------------------
(* What the invariant shows.                                               *)

LEMMA InitIInv == ActiveInit => IInv
  <1> SUFFICES ASSUME ActiveInit PROVE IInv
    OBVIOUS
  <1>1. Active = {} BY DEF ActiveInit, Active
  <1>2. Counts /\ Lists BY <1>1, FS_EmptySet DEF ActiveInit, Counts, Lists
  <1>3. ActiveTypeOK BY DEF ActiveInit, ActiveTypeOK, Places, JoinPlaces
  <1>4. Copies /\ Tracked BY DEF ActiveInit, Copies, Tracked, Whereabouts
  <1>5. Attended BY DEF ActiveInit, Attended, RunnablesEmpty
  <1> QED BY <1>2, <1>3, <1>4, <1>5 DEF IInv

\* The inductive invariant holds for any capacity and any number of callers, threads
\* and tasks; the theorems below are read off it.
THEOREM Inductive == ActiveSpec => []IInv
  BY InitIInv, NextIInv, PTL DEF ActiveSpec

\* For any number of callers, threads, tasks and priorities the pool keeps its lists,
\* its queue and its count within their types; the count never goes below zero.
THEOREM TypeCorrect == ActiveSpec => []ActiveTypeOK
  BY Inductive, PTL DEF IInv

\* For any number of threads _activeThreads is the number of threads that have or look
\* for a task, through every recycling, expiry and restart, and including every thread
\* that start() could not start.
THEOREM CountIsExact == ActiveSpec => []ActiveThreadsCounts
  <1>1. IInv => ActiveThreadsCounts
    BY DEF IInv, Counts, Active, ActiveThreadsCounts
  <1> QED BY <1>1, Inductive, PTL

\* For any capacity and any number of threads, a queued task has a thread of the pool
\* that will look at the queue: a task is queued only when the capacity is used up, or
\* together with taking a thread off the waiting list, and a thread gives up looking
\* only when the queue is empty.
THEOREM QueuedIsAttended == ActiveSpec => []NobodyStranded
  <1>1. ASSUME IInv PROVE NobodyStranded
    <2> SUFFICES ASSUME Queued # {}
                 PROVE  \E w \in allThreads \ (waitingThreads \cup expiredThreads) : OnTheWay(w)
      BY DEF NobodyStranded, OnTheWay
    <2>1. ~RunnablesEmpty BY DEF Queued, RunnablesEmpty
    <2>2. PICK w \in allThreads : w \notin waitingThreads \cup expiredThreads
      BY <1>1, <2>1 DEF IInv, Attended, Lists
    <2> QED BY <1>1, <2>2 DEF IInv, Lists
  <1> QED BY <1>1, Inductive, PTL

\* With any number of callers, joinAll() returns only when every task started before
\* the call is done: nothing queued and no active thread leaves no task unfinished,
\* whatever was started while the threads were joined.
THEOREM JoinAllHasWaited == ActiveSpec => JoinAllWaits
  <1>1. ASSUME IInv, [ActiveNext]_activeVars, NEW c \in Clients, jpc[c] # "none", jpc'[c] = "none",
               NEW r \in joinSet[c]
        PROVE  st[r] = "done"
    <2>1. JoinRecheck(c) /\ ~Busy
      <3>1. ASSUME NEW n, Broadcast(n) PROVE FALSE BY <1>1, <3>1 DEF Broadcast
      <3>2. ~UNCHANGED jpc BY <1>1
      <3>3. ASSUME NEW q \in Targets, NEW p \in Priorities PROVE ~ActiveThreadPool_start(q, p)
        BY <3>2 DEF ActiveThreadPool_start, joiner
      <3>4. ASSUME NEW w \in Threads PROVE ~(RunThread(w) \/ WaitEnds(w))
        BY <3>1, <3>2
        DEF RunThread, Begin, RunEnds, AfterRun, TakeOrWait, Relock, WaitEnds, joiner
      <3>5. ASSUME NEW d \in Clients, joinAll(d) \/ Join(d) PROVE d = c /\ JoinRecheck(d) /\ ~Busy
        BY <1>1, <3>5
        DEF IInv, ActiveTypeOK, joinAll, Join, JoinCheck, JoinThread, JoinRecheck, JoinNotify
      <3>6. ActiveNext BY <1>1, <3>2 DEF activeVars, joiner
      <3> QED BY <3>3, <3>4, <3>5, <3>6 DEF ActiveNext
    <2>2. Active = {} BY <1>1, <2>1, FS_EmptySet DEF IInv, Counts, Busy
    <2>3. r \in Targets /\ st[r] # "new" BY <1>1 DEF IInv, ActiveTypeOK, Tracked
    <2>4. ~InQueue(r) BY <2>1 DEF Busy, RunnablesEmpty, InQueue
    <2>5. st[r] \notin {"queued", "assigned", "running"}
      BY <1>1, <2>2, <2>3, <2>4 DEF IInv, Tracked, Whereabouts, Active
    <2> QED BY <1>1, <2>3, <2>5 DEF IInv, ActiveTypeOK
  <1>2. IInv /\ [ActiveNext]_activeVars =>
          [\A c \in Clients : jpc[c] # "none" /\ jpc'[c] = "none" =>
             \A r \in joinSet[c] : st[r] = "done"]_activeVars
    BY <1>1
  <1> QED BY <1>2, Inductive, PTL DEF ActiveSpec, JoinAllWaits

=============================================================================
