-------------------------- MODULE ActiveThreadPool --------------------------
(***************************************************************************)
(* Poco::ActiveThreadPool: a pool with a task queue.                       *)
(*                                                                         *)
(* start() hands a task to a new, a recycled or a restarted thread, or     *)
(* queues it.  A thread runs its task outside the pool's mutex, then takes *)
(* tasks from the queue until it is empty, and waits for work on its own   *)
(* Condition; when that wait times out, and nobody has recycled it in the  *)
(* meantime, it expires.  joinAll() waits until nothing is queued or       *)
(* active, takes all threads out of the pool and joins them outside the    *)
(* mutex, while new tasks may be started.                                  *)
(*                                                                         *)
(* Every critical section of the pool's mutex is one action.  The lists of *)
(* waiting and of expired threads are sets: which of several equal threads *)
(* gets a task is left open.                                               *)
(***************************************************************************)
EXTENDS Integers, Sequences, FiniteSets

CONSTANTS
  Clients,     \* threads that call the pool
  Threads,     \* ActivePooledThread objects
  Targets,     \* Runnables, each started once
  Priorities,  \* the priorities start() is called with; 0 is the default
  Capacity,    \* maxThreadCount
  Nothing

ASSUME ActiveAssumption ==
  /\ Capacity \in Nat \ {0}
  /\ Priorities \subseteq Int /\ 0 \in Priorities
  /\ \E m \in Priorities : \A p \in Priorities : p <= m   \* an int is bounded
  /\ Nothing \notin Targets \cup Threads

VARIABLES
  allThreads, waitingThreads, expiredThreads,
  runnables,      \* runnables[p]: the RunnableList of priority p
  activeThreads,
  wpc,            \* wpc[w]: where w is in ActivePooledThread::run()
  target,         \* target[w]: _target
  running,        \* running[w]: the task w runs
  signalled,      \* signalled[w]: the Event of w's wait on _runnableReady is set
  jpc,            \* jpc[c]: where c is in joinAll()
  copy,           \* copy[c]: allThreadsCopy
  at,             \* at[c]: the thread joinAll() is joining
  st,             \* history: how far each task has come
  joinSet         \* joinSet[c], history: tasks unfinished when joinAll() began

pool == <<allThreads, waitingThreads, expiredThreads, runnables, activeThreads>>
activeWorker == <<wpc, target, running, signalled>>
joiner == <<jpc, copy, at, joinSet>>
activeVars == <<pool, activeWorker, joiner, st>>

Places == {"absent", "starting", "running", "waiting", "woken", "exited", "failed"}
JoinPlaces == {"none", "check", "wait", "join"}

ActiveTypeOK ==
  /\ allThreads \subseteq Threads
  /\ waitingThreads \subseteq Threads
  /\ expiredThreads \subseteq Threads
  /\ runnables \in [Priorities -> Seq(Targets)]
  /\ activeThreads \in Nat
  /\ wpc \in [Threads -> Places]
  /\ target \in [Threads -> Targets \cup {Nothing}]
  /\ running \in [Threads -> Targets \cup {Nothing}]
  /\ signalled \in [Threads -> BOOLEAN]
  /\ jpc \in [Clients -> JoinPlaces]
  /\ copy \in [Clients -> SUBSET Threads]
  /\ at \in [Clients -> Threads \cup {Nothing}]
  /\ joinSet \in [Clients -> SUBSET Targets]
  /\ st \in [Targets -> {"new", "queued", "assigned", "running", "done"}]

ActiveInit ==
  /\ allThreads = {} /\ waitingThreads = {} /\ expiredThreads = {}
  /\ runnables = [p \in Priorities |-> <<>>]
  /\ activeThreads = 0
  /\ wpc = [w \in Threads |-> "absent"]
  /\ target = [w \in Threads |-> Nothing]
  /\ running = [w \in Threads |-> Nothing]
  /\ signalled = [w \in Threads |-> FALSE]
  /\ jpc = [c \in Clients |-> "none"]
  /\ copy = [c \in Clients |-> {}]
  /\ at = [c \in Clients |-> Nothing]
  /\ joinSet = [c \in Clients |-> {}]
  /\ st = [r \in Targets |-> "new"]

-----------------------------------------------------------------------------
(* RunnablePriorityQueue: a heap of lists, one list per priority.          *)

RunnablesEmpty == \A p \in Priorities : runnables[p] = <<>>

push(r, p) == [runnables EXCEPT ![p] = Append(@, r)]

\* The priority of the list at the heap's front.
Top == CHOOSE p \in Priorities :
         runnables[p] # <<>> /\ \A q \in Priorities : runnables[q] # <<>> => q <= p

pop == [runnables EXCEPT ![Top] = Tail(@)]

-----------------------------------------------------------------------------
(* start().                                                                *)

activeThreadCount ==
  Cardinality(allThreads) - Cardinality(expiredThreads) - Cardinality(waitingThreads)

\* The task is given to thread w, which is started; a new one or one that expired.
\* When Thread::start() throws, the exception leaves all that was done before it.
Assign(w, r) ==
  /\ activeThreads' = activeThreads + 1
  /\ target' = [target EXCEPT ![w] = r]
  /\ \/ /\ wpc' = [wpc EXCEPT ![w] = "starting"]
        /\ st' = [st EXCEPT ![r] = "assigned"]
     \/ /\ wpc' = [wpc EXCEPT ![w] = "failed"]
        /\ UNCHANGED st

startThread(w, r) ==
  /\ wpc[w] = "absent"
  /\ allThreads' = allThreads \cup {w}
  /\ Assign(w, r)
  /\ UNCHANGED <<waitingThreads, expiredThreads, runnables, running, signalled>>

\* join() of the expired thread, which has only to leave run(), then restart it.
RestartExpired(w, r) ==
  /\ w \in expiredThreads
  /\ expiredThreads' = expiredThreads \ {w}
  /\ Assign(w, r)
  /\ UNCHANGED <<allThreads, waitingThreads, runnables, running, signalled>>

\* The task is queued at priority p and a waiting thread is woken for it.  A
\* thread that has just stopped waiting finds out by itself.
Recycle(w, r, p) ==
  /\ w \in waitingThreads
  /\ runnables' = push(r, p)
  /\ waitingThreads' = waitingThreads \ {w}
  /\ signalled' = [signalled EXCEPT ![w] = wpc[w] = "waiting" \/ @]
  /\ st' = [st EXCEPT ![r] = "queued"]
  /\ UNCHANGED <<allThreads, expiredThreads, activeThreads, wpc, target, running>>

\* tryStart(): FALSE where it returns false.
tryStart(r) ==
  \/ /\ allThreads = {}
     /\ \E w \in Threads : startThread(w, r)
  \/ /\ allThreads # {}
     /\ activeThreadCount < Capacity
     /\ \/ \E w \in Threads : Recycle(w, r, 0)
        \/ /\ waitingThreads = {}
           /\ \E w \in Threads : RestartExpired(w, r)
        \/ /\ waitingThreads = {} /\ expiredThreads = {}
           /\ \E w \in Threads : startThread(w, r)

\* tryStart() returns false: the task is queued at its priority.  That a thread is
\* waiting then is possible only in a pool whose capacity is 0.
QueueTask(r, p) ==
  /\ allThreads # {}
  /\ activeThreadCount >= Capacity
  /\ runnables' = push(r, p)
  /\ st' = [st EXCEPT ![r] = "queued"]
  /\ UNCHANGED <<allThreads, waitingThreads, expiredThreads, activeThreads, activeWorker>>

ActiveThreadPool_start(r, p) ==
  /\ st[r] = "new"
  /\ tryStart(r) \/ QueueTask(r, p)
  /\ UNCHANGED joiner

-----------------------------------------------------------------------------
(* ActivePooledThread::run().                                              *)

\* noActiveThreads.broadcast(), when n active threads are left.
Broadcast(n) ==
  jpc' = [c \in Clients |-> IF n = 0 /\ jpc[c] = "wait" THEN "check" ELSE jpc[c]]

\* Under the mutex, with no task in hand and n threads active, w included: take
\* the next task from the queue or become a waiting thread.
TakeOrWait(w, n) ==
  \/ /\ ~RunnablesEmpty
     /\ runnables' = pop
     /\ LET r == Head(runnables[Top]) IN
        /\ running' = [running EXCEPT ![w] = r]
        /\ st' = [st EXCEPT ![r] = "running"]
     /\ wpc' = [wpc EXCEPT ![w] = "running"]
     /\ activeThreads' = n
     /\ UNCHANGED <<waitingThreads, signalled, jpc>>
  \/ /\ RunnablesEmpty
     /\ waitingThreads' = waitingThreads \cup {w}
     /\ activeThreads' = n - 1
     /\ Broadcast(n - 1)
     /\ wpc' = [wpc EXCEPT ![w] = "waiting"]
     /\ signalled' = [signalled EXCEPT ![w] = FALSE]
     /\ UNCHANGED <<runnables, running, st>>

\* The thread starts and runs the task it was given.
Begin(w) ==
  /\ wpc[w] = "starting"
  /\ wpc' = [wpc EXCEPT ![w] = "running"]
  /\ running' = [running EXCEPT ![w] = target[w]]
  /\ target' = [target EXCEPT ![w] = Nothing]
  /\ st' = [st EXCEPT ![target[w]] = "running"]
  /\ UNCHANGED <<pool, signalled, joiner>>

\* The task returns or throws, which is handled.
RunEnds(w) ==
  /\ wpc[w] = "running"
  /\ running[w] # Nothing
  /\ st' = [st EXCEPT ![running[w]] = "done"]
  /\ running' = [running EXCEPT ![w] = Nothing]
  /\ UNCHANGED <<pool, wpc, target, signalled, joiner>>

\* The thread has the mutex again and looks at the queue.
AfterRun(w) ==
  /\ wpc[w] = "running"
  /\ running[w] = Nothing
  /\ TakeOrWait(w, activeThreads)
  /\ UNCHANGED <<allThreads, expiredThreads, target, copy, at, joinSet>>

\* _runnableReady.tryWait() ends by a signal or by the expiry timeout; either way
\* the thread has yet to get the mutex back.
WaitEnds(w) ==
  /\ wpc[w] = "waiting"
  /\ wpc' = [wpc EXCEPT ![w] = "woken"]
  /\ UNCHANGED <<pool, target, running, signalled, joiner, st>>

\* A defect: whoever times out expires, recycled or not.
RelockTrustsTimeout(w) ==
  /\ wpc[w] = "woken"
  /\ \/ /\ ~signalled[w] \/ w \notin allThreads
        /\ waitingThreads' = waitingThreads \ {w}
        /\ expiredThreads' = expiredThreads \cup ({w} \cap allThreads)
        /\ Broadcast(activeThreads)
        /\ wpc' = [wpc EXCEPT ![w] = "exited"]
        /\ UNCHANGED <<runnables, activeThreads, running, signalled, st>>
     \/ /\ signalled[w] /\ w \in allThreads
        /\ TakeOrWait(w, activeThreads + 1)
        /\ UNCHANGED expiredThreads
  /\ UNCHANGED <<allThreads, target, copy, at, joinSet>>

\* A defect: a recycled thread is not counted as active again.
RelockForgetsCount(w) ==
  /\ wpc[w] = "woken"
  /\ w \in allThreads \ waitingThreads
  /\ TakeOrWait(w, activeThreads)
  /\ UNCHANGED <<allThreads, expiredThreads, target, copy, at, joinSet>>

\* Back under the mutex: still on the waiting list means expired; no longer in the
\* pool means joined; otherwise the thread was recycled.
Relock(w) ==
  /\ wpc[w] = "woken"
  /\ \/ /\ w \in waitingThreads
        /\ waitingThreads' = waitingThreads \ {w}
        /\ expiredThreads' = expiredThreads \cup {w}
        /\ Broadcast(activeThreads)
        /\ wpc' = [wpc EXCEPT ![w] = "exited"]
        /\ UNCHANGED <<runnables, activeThreads, running, signalled, st>>
     \/ /\ w \notin waitingThreads
        /\ w \notin allThreads
        /\ Broadcast(activeThreads)
        /\ wpc' = [wpc EXCEPT ![w] = "exited"]
        /\ UNCHANGED <<waitingThreads, expiredThreads, runnables, activeThreads, running,
                       signalled, st>>
     \/ /\ w \notin waitingThreads
        /\ w \in allThreads
        /\ TakeOrWait(w, activeThreads + 1)
        /\ UNCHANGED expiredThreads
  /\ UNCHANGED <<allThreads, target, copy, at, joinSet>>

-----------------------------------------------------------------------------
(* joinAll().                                                              *)

\* A defect: queued tasks are not waited for.
BusyIgnoresQueue == activeThreads # 0

Busy == ~RunnablesEmpty \/ activeThreads # 0

joinAll(c) ==
  /\ jpc[c] = "none"
  /\ jpc' = [jpc EXCEPT ![c] = "check"]
  /\ joinSet' = [joinSet EXCEPT ![c] = {r \in Targets : st[r] \notin {"new", "done"}}]
  /\ UNCHANGED <<pool, activeWorker, copy, at, st>>

\* Under the mutex: wait for noActiveThreads while anything is queued or active,
\* else take all threads out of the pool.
JoinCheck(c) ==
  /\ jpc[c] = "check"
  /\ \/ /\ Busy
        /\ jpc' = [jpc EXCEPT ![c] = "wait"]
        /\ UNCHANGED <<pool, copy>>
     \/ /\ ~Busy
        /\ copy' = [copy EXCEPT ![c] = allThreads]
        /\ allThreads' = {} /\ waitingThreads' = {} /\ expiredThreads' = {}
        /\ jpc' = [jpc EXCEPT ![c] = "join"]
        /\ UNCHANGED <<runnables, activeThreads>>
  /\ UNCHANGED <<activeWorker, at, joinSet, st>>

\* A defect: the threads are joined without being woken up.
JoinWithoutNotify(c, w) ==
  /\ jpc[c] = "join"
  /\ at[c] = Nothing
  /\ w \in copy[c]
  /\ at' = [at EXCEPT ![c] = w]
  /\ UNCHANGED <<pool, activeWorker, jpc, copy, joinSet, st>>

\* Outside the mutex: wake the next thread if it waits, and start joining it.
JoinNotify(c, w) ==
  /\ jpc[c] = "join"
  /\ at[c] = Nothing
  /\ w \in copy[c]
  /\ at' = [at EXCEPT ![c] = w]
  /\ signalled' = [signalled EXCEPT ![w] = wpc[w] = "waiting" \/ @]
  /\ UNCHANGED <<pool, wpc, target, running, jpc, copy, joinSet, st>>

\* join() returns; the object is deleted when the copy goes away.
JoinThread(c) ==
  /\ at[c] # Nothing
  /\ wpc[at[c]] = "exited"
  /\ wpc' = [wpc EXCEPT ![at[c]] = "absent"]
  /\ copy' = [copy EXCEPT ![c] = @ \ {at[c]}]
  /\ at' = [at EXCEPT ![c] = Nothing]
  /\ UNCHANGED <<pool, target, running, signalled, jpc, joinSet, st>>

\* The mutex is taken again: threads started in the meantime are joined as well.
JoinRecheck(c) ==
  /\ jpc[c] = "join"
  /\ copy[c] = {}
  /\ jpc' = [jpc EXCEPT ![c] = IF Busy THEN "check" ELSE "none"]
  /\ joinSet' = [joinSet EXCEPT ![c] = IF Busy THEN @ ELSE {}]
  /\ UNCHANGED <<pool, activeWorker, copy, at, st>>

-----------------------------------------------------------------------------
RunThread(w) == Begin(w) \/ RunEnds(w) \/ AfterRun(w) \/ Relock(w)

\* A signalled wait ends; the expiry timeout may end it at any time.
Signal(w) == signalled[w] /\ WaitEnds(w)

Join(c) ==
  \/ JoinCheck(c) \/ JoinThread(c) \/ JoinRecheck(c)
  \/ \E w \in Threads : JoinNotify(c, w)

ActiveNext ==
  \/ \E r \in Targets, p \in Priorities : ActiveThreadPool_start(r, p)
  \/ \E w \in Threads : RunThread(w) \/ WaitEnds(w)
  \/ \E c \in Clients : joinAll(c) \/ Join(c)

ActiveSpec == ActiveInit /\ [][ActiveNext]_activeVars

\* Threads of the pool and calls in progress go on; tasks return; an unsignalled
\* wait need not end (the expiry timeout can be arbitrarily long).
ActiveFairness ==
  /\ \A w \in Threads : WF_activeVars(RunThread(w)) /\ WF_activeVars(Signal(w))
  /\ \A c \in Clients : WF_activeVars(Join(c))

FairActiveSpec == ActiveSpec /\ ActiveFairness

-----------------------------------------------------------------------------
(* Properties.                                                             *)

Queued == {r \in Targets : \E p \in Priorities : \E i \in DOMAIN runnables[p] : runnables[p][i] = r}

\* A queued task has a thread of the pool that will look at the queue: one that is
\* active, or one taken off the waiting list whose wait has been ended.  (A thread
\* that could not be started holds its share of the capacity for ever.)
NobodyStranded ==
  Queued # {} =>
    \E w \in allThreads \ (waitingThreads \cup expiredThreads) :
      \/ wpc[w] \in {"starting", "running", "woken", "failed"}
      \/ wpc[w] = "waiting" /\ signalled[w]

\* activeThreads, by which joinAll() tells that all work is done, counts the threads
\* that have or look for a task, and every one that start() failed to start.
ActiveThreadsCounts ==
  activeThreads = Cardinality({w \in Threads : wpc[w] \in {"starting", "running", "failed"}})

\* When joinAll() returns, every task started before it was called is done.
JoinAllWaits ==
  [][\A c \in Clients : jpc[c] # "none" /\ jpc'[c] = "none" =>
       \A r \in joinSet[c] : st[r] = "done"]_activeVars

\* joinAll() returns, with other callers of it and tasks started meanwhile, unless
\* the operating system once refused to start a thread.
JoinAllReturns ==
  \A c \in Clients : jpc[c] # "none" ~> jpc[c] = "none" \/ \E w \in Threads : wpc[w] = "failed"

=============================================================================
