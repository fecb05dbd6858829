----------------------------- MODULE ThreadPool -----------------------------
(***************************************************************************)
(* Poco::ThreadPool and its PooledThreads.                                 *)
(*                                                                         *)
(* start() takes a thread from the pool under the pool's mutex and gives   *)
(* it the target after the unlock; joinAll(), stopAll() and housekeep()    *)
(* hold the pool's mutex while they wait for threads one by one.  A worker *)
(* sleeps on _targetReady, looks at _pTarget under its own mutex, runs the *)
(* target outside every mutex, and dies when it finds no target.           *)
(*                                                                         *)
(* The vector _threads is a set here: only the order of visits and the     *)
(* choice among idle threads depend on its order, and both are left open,  *)
(* which also covers a worker that turns idle behind getThread()'s scan.   *)
(* The four start() overloads differ in name and priority only.  A target  *)
(* is assumed not to call back into the pool (see the README).             *)
(***************************************************************************)
EXTENDS Integers, FiniteSets

CONSTANTS
  Clients,      \* threads that call the pool
  Workers,      \* PooledThread objects
  Targets,      \* Runnables, each submitted until it has been accepted once
  None,         \* the null pointer
  MinCapacity,  \* _minCapacity
  MaxCapacity,  \* _maxCapacity as constructed
  AgeLimit,     \* getThread() calls housekeep() every AgeLimit calls; 32
  Deltas        \* the arguments of addCapacity()

ASSUME ConstantsAssumption ==
  /\ None \notin Clients \cup Workers \cup Targets
  /\ MinCapacity \in Nat \ {0}
  /\ MaxCapacity \in Nat /\ MaxCapacity >= MinCapacity
  /\ AgeLimit \in Nat \ {0}
  /\ Deltas \subseteq Int

VARIABLES
  threads,      \* _threads
  maxCapacity,  \* _maxCapacity
  age,          \* _age
  owner,        \* the client that holds the pool's _mutex, or None
  stage,        \* what the owner does under the mutex
  todo,         \* the threads its loop has still to join or release
  at,           \* the thread it is waiting for, or None
  call,         \* call[c]: the operation client c is in
  want,         \* want[c]: the target of c's start()
  got,          \* got[c]: the thread getThread() returned to c
  idle,         \* idle[w]: _idle
  expired,      \* expired[w]: idleTime() >= the pool's _idleTime
  pTarget,      \* pTarget[w]: _pTarget
  targetReady,      \* targetReady[w]: the state of the auto-reset Event
  targetCompleted,  \* targetCompleted[w]: the state of the manual-reset Event
  wpc,          \* wpc[w]: where w is in PooledThread::run()
  running,      \* running[w]: run()'s local pTarget while it runs
  st,           \* history: st[r] is how far target r has come
  joinSet,      \* history: targets accepted and unfinished when joinAll() began
  stopped       \* stopAll() has been called; it is the pool's last operation

pool == <<threads, maxCapacity, age>>
section == <<owner, stage, todo, at>>
client == <<call, want, got>>
worker == <<idle, expired, pTarget, targetReady, targetCompleted, wpc, running>>
history == <<st, joinSet, stopped>>
poolVars == <<pool, section, client, worker, history>>

Stages == {"free", "pick", "join", "joinWait", "release", "releaseWait"}
Calls == {"none", "start", "joinAll", "stopAll", "collect"}
States == {"new", "submitted", "queued", "running", "done", "dropped"}
Places == {"absent", "waiting", "woken", "running", "exited"}

PoolTypeOK ==
  /\ threads \subseteq Workers
  /\ maxCapacity \in Int
  /\ age \in 0..(AgeLimit - 1)
  /\ owner \in Clients \cup {None}
  /\ stage \in Stages
  /\ todo \subseteq Workers
  /\ at \in Workers \cup {None}
  /\ call \in [Clients -> Calls]
  /\ want \in [Clients -> Targets \cup {None}]
  /\ got \in [Clients -> Workers \cup {None}]
  /\ idle \in [Workers -> BOOLEAN]
  /\ expired \in [Workers -> BOOLEAN]
  /\ pTarget \in [Workers -> Targets \cup {None}]
  /\ targetReady \in [Workers -> BOOLEAN]
  /\ targetCompleted \in [Workers -> BOOLEAN]
  /\ wpc \in [Workers -> Places]
  /\ running \in [Workers -> Targets \cup {None}]
  /\ st \in [Targets -> States]
  /\ joinSet \subseteq Targets
  /\ stopped \in BOOLEAN

\* The constructor creates and starts MinCapacity threads.
PoolInit ==
  /\ threads \in {W \in SUBSET Workers : Cardinality(W) = MinCapacity}
  /\ maxCapacity = MaxCapacity
  /\ age = 0
  /\ owner = None
  /\ stage = "free"
  /\ todo = {}
  /\ at = None
  /\ call = [c \in Clients |-> "none"]
  /\ want = [c \in Clients |-> None]
  /\ got = [c \in Clients |-> None]
  /\ idle = [w \in Workers |-> TRUE]
  /\ expired = [w \in Workers |-> FALSE]
  /\ pTarget = [w \in Workers |-> None]
  /\ targetReady = [w \in Workers |-> FALSE]
  /\ targetCompleted = [w \in Workers |-> FALSE]
  /\ wpc = [w \in Workers |-> IF w \in threads THEN "waiting" ELSE "absent"]
  /\ running = [w \in Workers |-> None]
  /\ st = [r \in Targets |-> "new"]
  /\ joinSet = {}
  /\ stopped = FALSE

-----------------------------------------------------------------------------
(* Critical sections of the pool's mutex.                                  *)

Idle == {w \in threads : idle[w]}

\* Client c calls an operation and gets the pool's mutex.
Lock(c, op) ==
  /\ ~stopped
  /\ owner = None
  /\ call[c] = "none"
  /\ owner' = c
  /\ call' = [call EXCEPT ![c] = op]

Unlock ==
  /\ owner' = None
  /\ stage' = "free"
  /\ UNCHANGED <<todo, at>>

\* A defect: threads are classified by their age only, busy or not.
HousekeepReleasesBusy ==
  LET expiredThreads == {w \in threads : expired[w]} IN
  /\ age' = 0
  /\ stage' = "release"
  /\ IF Cardinality(threads) <= MinCapacity
       THEN todo' = {}
       ELSE \E keep \in SUBSET expiredThreads :
              /\ Cardinality(threads \ expiredThreads) + Cardinality(keep) >= MinCapacity
              /\ todo' = expiredThreads \ keep
  /\ threads' = threads \ todo'

\* housekeep(): the threads to release and the ones to keep are settled; the
\* releases follow one by one.  Threads idle for less than _idleTime all stay.
housekeep ==
  LET expiredThreads == {w \in Idle : expired[w]}
      limit == Cardinality(threads \ expiredThreads)
      room == IF limit < MinCapacity THEN MinCapacity - limit ELSE 0
  IN
  /\ age' = 0
  /\ stage' = "release"
  /\ IF Cardinality(threads) <= MinCapacity
       THEN todo' = {}
       ELSE \E keep \in SUBSET expiredThreads :
              /\ Cardinality(keep) = room
              /\ todo' = expiredThreads \ keep
  /\ threads' = threads \ todo'

\* start(): getThread() counts the call and, now and then, does housekeeping.
start(c, r) ==
  /\ st[r] = "new"
  /\ Lock(c, "start")
  /\ want' = [want EXCEPT ![c] = r]
  /\ st' = [st EXCEPT ![r] = "submitted"]
  /\ \/ /\ age + 1 = AgeLimit
        /\ housekeep
     \/ /\ age + 1 # AgeLimit
        /\ age' = age + 1
        /\ stage' = "pick"
        /\ UNCHANGED <<threads, todo>>
  /\ UNCHANGED <<maxCapacity, at, got, worker, joinSet, stopped>>

\* A defect: the thread is handed out without being marked busy.
ActivateLeavesIdle(w) ==
  /\ targetCompleted' = [targetCompleted EXCEPT ![w] = FALSE]
  /\ UNCHANGED idle

\* A defect: _targetCompleted keeps the state of the thread's previous target.
ActivateWithoutReset(w) ==
  /\ idle' = [idle EXCEPT ![w] = FALSE]
  /\ UNCHANGED targetCompleted

\* PooledThread::activate() of a thread that is idle.
activate(w) ==
  /\ idle' = [idle EXCEPT ![w] = FALSE]
  /\ targetCompleted' = [targetCompleted EXCEPT ![w] = FALSE]

\* The rest of getThread(): an idle thread, else a new one.
PickIdle(w) ==
  /\ stage = "pick"
  /\ w \in Idle
  /\ activate(w)
  /\ got' = [got EXCEPT ![owner] = w]
  /\ Unlock
  /\ UNCHANGED <<pool, call, want, expired, pTarget, targetReady, wpc, running, history>>

\* createThread(), PooledThread::start() and activate().
CreateThread(w) ==
  /\ stage = "pick"
  /\ Idle = {}
  /\ Cardinality(threads) < maxCapacity
  /\ wpc[w] = "absent"
  /\ threads' = threads \cup {w}
  /\ wpc' = [wpc EXCEPT ![w] = "waiting"]
  /\ expired' = [expired EXCEPT ![w] = FALSE]
  /\ pTarget' = [pTarget EXCEPT ![w] = None]
  /\ targetReady' = [targetReady EXCEPT ![w] = FALSE]
  /\ activate(w)
  /\ got' = [got EXCEPT ![owner] = w]
  /\ Unlock
  /\ UNCHANGED <<maxCapacity, age, call, want, running, history>>

\* NoThreadAvailableException, or the new thread could not be started.
GetThreadThrows ==
  /\ stage = "pick"
  /\ Idle = {}
  /\ st' = [st EXCEPT ![want[owner]] = "new"]
  /\ call' = [call EXCEPT ![owner] = "none"]
  /\ want' = [want EXCEPT ![owner] = None]
  /\ Unlock
  /\ UNCHANGED <<pool, got, worker, joinSet, stopped>>

\* PooledThread::start(priority, target), after the pool's mutex was released.
PooledThread_start(c) ==
  LET w == got[c] IN
  /\ w # None
  /\ pTarget' = [pTarget EXCEPT ![w] = want[c]]
  /\ targetReady' = [targetReady EXCEPT ![w] = TRUE]
  /\ st' = [st EXCEPT ![want[c]] = "queued"]
  /\ call' = [call EXCEPT ![c] = "none"]
  /\ want' = [want EXCEPT ![c] = None]
  /\ got' = [got EXCEPT ![c] = None]
  /\ UNCHANGED <<pool, section, idle, expired, targetCompleted, wpc, running,
                 joinSet, stopped>>

joinAll(c) ==
  /\ Lock(c, "joinAll")
  /\ stage' = "join"
  /\ todo' = threads
  /\ joinSet' = {r \in Targets : st[r] \in {"queued", "running"}}
  /\ UNCHANGED <<pool, at, want, got, worker, st, stopped>>

\* PooledThread::join(): a thread without a target is not waited for.
join(w) ==
  /\ stage = "join"
  /\ w \in todo
  /\ todo' = todo \ {w}
  /\ IF pTarget[w] # None THEN stage' = "joinWait" /\ at' = w
                          ELSE UNCHANGED <<stage, at>>
  /\ UNCHANGED <<pool, owner, client, worker, history>>

\* _targetCompleted is set, and stays so: only activate() resets it.
JoinWait ==
  /\ stage = "joinWait"
  /\ targetCompleted[at]
  /\ stage' = "join"
  /\ at' = None
  /\ UNCHANGED <<pool, owner, todo, client, worker, history>>

JoinDone ==
  /\ stage = "join"
  /\ todo = {}
  /\ housekeep
  /\ UNCHANGED <<maxCapacity, owner, at, client, worker, history>>

collect(c) ==
  /\ Lock(c, "collect")
  /\ housekeep
  /\ UNCHANGED <<maxCapacity, at, want, got, worker, history>>

addCapacity(c, n) ==
  /\ maxCapacity + n >= MinCapacity
  /\ Lock(c, "collect")
  /\ maxCapacity' = maxCapacity + n
  /\ housekeep
  /\ UNCHANGED <<at, want, got, worker, history>>

\* The header makes stopAll() the last operation: no other call is in progress.
stopAll(c) ==
  /\ \A d \in Clients : call[d] = "none"
  /\ Lock(c, "stopAll")
  /\ stage' = "release"
  /\ todo' = threads
  /\ threads' = {}
  /\ stopped' = TRUE
  /\ UNCHANGED <<maxCapacity, age, at, want, got, worker, st, joinSet>>

\* PooledThread::release(): a target not picked up yet is taken away, and the
\* thread is told to die.
release(w) ==
  /\ stage = "release"
  /\ w \in todo
  /\ todo' = todo \ {w}
  /\ at' = w
  /\ stage' = "releaseWait"
  /\ pTarget' = [pTarget EXCEPT ![w] = None]
  /\ targetReady' = [targetReady EXCEPT ![w] = TRUE]
  /\ st' = [r \in Targets |-> IF r = pTarget[w] /\ st[r] = "queued" THEN "dropped" ELSE st[r]]
  /\ UNCHANGED <<pool, owner, client, idle, expired, targetCompleted, wpc, running,
                 joinSet, stopped>>

\* tryJoin() succeeds and the object is deleted, or JOIN_TIMEOUT passes and the
\* object is left to itself.
ReleaseWait ==
  /\ stage = "releaseWait"
  /\ \/ /\ wpc[at] = "exited"
        /\ wpc' = [wpc EXCEPT ![at] = "absent"]
     \/ /\ wpc[at] # "exited"
        /\ UNCHANGED wpc
  /\ stage' = "release"
  /\ at' = None
  /\ UNCHANGED <<pool, owner, todo, client, idle, expired, pTarget, targetReady,
                 targetCompleted, running, history>>

\* The releases are over: start() goes on, the other operations return.
ReleaseDone ==
  /\ stage = "release"
  /\ todo = {}
  /\ \/ /\ call[owner] = "start"
        /\ stage' = "pick"
        /\ UNCHANGED <<owner, todo, at, call>>
     \/ /\ call[owner] # "start"
        /\ call' = [call EXCEPT ![owner] = "none"]
        /\ Unlock
  /\ UNCHANGED <<pool, want, got, worker, history>>

-----------------------------------------------------------------------------
(* PooledThread::run().                                                    *)

\* _targetReady.wait() returns and resets the Event.
Wake(w) ==
  /\ wpc[w] = "waiting"
  /\ targetReady[w]
  /\ targetReady' = [targetReady EXCEPT ![w] = FALSE]
  /\ wpc' = [wpc EXCEPT ![w] = "woken"]
  /\ UNCHANGED <<pool, section, client, idle, expired, pTarget, targetCompleted,
                 running, history>>

\* Under the thread's mutex: run the target there is, or die.
Look(w) ==
  /\ wpc[w] = "woken"
  /\ \/ /\ pTarget[w] # None
        /\ wpc' = [wpc EXCEPT ![w] = "running"]
        /\ running' = [running EXCEPT ![w] = pTarget[w]]
        /\ st' = [st EXCEPT ![pTarget[w]] = "running"]
     \/ /\ pTarget[w] = None
        /\ wpc' = [wpc EXCEPT ![w] = "exited"]
        /\ UNCHANGED <<running, st>>
  /\ UNCHANGED <<pool, section, client, idle, expired, pTarget, targetReady,
                 targetCompleted, joinSet, stopped>>

\* A defect: the thread does not signal a target that is over.
FinishForgetsSignal(w) ==
  /\ wpc[w] = "running"
  /\ pTarget' = [pTarget EXCEPT ![w] = None]
  /\ expired' = [expired EXCEPT ![w] = FALSE]
  /\ idle' = [idle EXCEPT ![w] = TRUE]
  /\ wpc' = [wpc EXCEPT ![w] = "waiting"]
  /\ running' = [running EXCEPT ![w] = None]
  /\ st' = [st EXCEPT ![running[w]] = "done"]
  /\ UNCHANGED <<pool, section, client, targetReady, targetCompleted, joinSet, stopped>>

\* The target returned or threw, which is handled: the thread is idle again.
Finish(w) ==
  /\ wpc[w] = "running"
  /\ pTarget' = [pTarget EXCEPT ![w] = None]
  /\ expired' = [expired EXCEPT ![w] = FALSE]
  /\ idle' = [idle EXCEPT ![w] = TRUE]
  /\ targetCompleted' = [targetCompleted EXCEPT ![w] = TRUE]
  /\ wpc' = [wpc EXCEPT ![w] = "waiting"]
  /\ running' = [running EXCEPT ![w] = None]
  /\ st' = [st EXCEPT ![running[w]] = "done"]
  /\ UNCHANGED <<pool, section, client, targetReady, joinSet, stopped>>

\* Time passes: a thread has been idle for _idleTime seconds.
Expire(w) ==
  /\ w \in Idle
  /\ ~expired[w]
  /\ expired' = [expired EXCEPT ![w] = TRUE]
  /\ UNCHANGED <<pool, section, client, idle, pTarget, targetReady, targetCompleted,
                 wpc, running, history>>

-----------------------------------------------------------------------------
(* Queries.                                                                *)

used == Cardinality(threads \ Idle)

allocated == Cardinality(threads)

available == Cardinality(Idle) + maxCapacity - Cardinality(threads)

-----------------------------------------------------------------------------
Call(c) ==
  \/ \E r \in Targets : start(c, r)
  \/ joinAll(c)
  \/ collect(c)
  \/ \E n \in Deltas : addCapacity(c, n)
  \/ stopAll(c)

\* The steps of the client that holds the mutex.
Section ==
  \/ \E w \in Workers : PickIdle(w) \/ CreateThread(w) \/ join(w) \/ release(w)
  \/ GetThreadThrows
  \/ JoinWait
  \/ JoinDone
  \/ ReleaseWait
  \/ ReleaseDone

Run(w) == Wake(w) \/ Look(w) \/ Finish(w)

\* Everybody has left: the pool is stopped and no thread has work to do.
Terminated ==
  /\ stopped
  /\ owner = None
  /\ \A w \in Workers : wpc[w] \in {"absent", "exited"}
  /\ UNCHANGED poolVars

PoolNext ==
  \/ \E c \in Clients : Call(c) \/ PooledThread_start(c)
  \/ Section
  \/ \E w \in Workers : Run(w) \/ Expire(w)
  \/ Terminated

PoolSpec == PoolInit /\ [][PoolNext]_poolVars

\* A call in progress goes on and a thread with something to do does it.  That a
\* target's run() returns is the assumption joinAll() and stopAll() make.
PoolFairness ==
  /\ WF_poolVars(Section)
  /\ \A c \in Clients : WF_poolVars(PooledThread_start(c))
  /\ \A w \in Workers : WF_poolVars(Run(w))

FairPoolSpec == PoolSpec /\ PoolFairness

-----------------------------------------------------------------------------
(* Properties.                                                             *)

\* A thread that getThread() handed out belongs to one client until that client
\* has started its target: nobody else gets it, gives it a target (the assertion
\* in PooledThread::start()), or deletes it.
HandOutExclusive ==
  \A c \in Clients : got[c] # None =>
    /\ got[c] \in threads
    /\ ~idle[got[c]]
    /\ pTarget[got[c]] = None
    /\ wpc[got[c]] = "waiting"
    /\ \A d \in Clients \ {c} : got[d] # got[c]

\* Every target whose start() had returned when joinAll() began has been run to
\* its end when joinAll() has been through the threads.
JoinAllWaits ==
  stage = "join" /\ todo = {} => \A r \in joinSet : st[r] = "done"

\* joinAll() and stopAll() return, although both hold the pool's mutex while they
\* wait; and every call of start() ends.
CallsReturn == \A c \in Clients : call[c] # "none" ~> call[c] = "none"

\* A target that start() accepted is run to its end; only stopAll() takes a
\* target away again: housekeeping, joinAll() and a pool that shrinks never do.
QueuedRuns ==
  \A r \in Targets : st[r] = "queued" ~> st[r] = "done" \/ (st[r] = "dropped" /\ stopped)

=============================================================================
