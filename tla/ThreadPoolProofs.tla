-------------------------- MODULE ThreadPoolProofs --------------------------
(***************************************************************************)
(* Proofs, for any number of clients, threads and targets, that a thread   *)
(* getThread() hands out belongs to one client, and that joinAll() waits   *)
(* for every target that had been accepted before it.                      *)
(***************************************************************************)
EXTENDS ThreadPool, TLAPS

-----------------------------------------------------------------------------
(* The inductive invariant. *)

\* The section under the pool's mutex belongs to a client whose call is in progress;
\* the threads it releases have left the pool.
Owned ==
  /\ stage = "free" <=> owner = None
  /\ owner # None => call[owner] # "none" /\ got[owner] = None
  /\ owner # None /\ call[owner] = "start" => want[owner] # None
  /\ stage = "pick" => call[owner] = "start"
  /\ stage \in {"joinWait", "releaseWait"} => at # None
  /\ stage \in {"release", "releaseWait"} => todo \cap threads = {}

\* A thread that is handed out waits for the one client that has it.
HandedOut ==
  \A c \in Clients : got[c] # None =>
    /\ call[c] = "start" /\ want[c] # None
    /\ got[c] \in threads
    /\ ~idle[got[c]] /\ ~targetReady[got[c]] /\ ~targetCompleted[got[c]]
    /\ pTarget[got[c]] = None
    /\ wpc[got[c]] = "waiting"
    /\ \A d \in Clients : got[d] = got[c] => d = c

\* A target that start() has not handed to a thread yet is one client's.
Wanted ==
  \A c \in Clients : want[c] # None =>
    /\ st[want[c]] = "submitted"
    /\ \A d \in Clients : want[d] = want[c] => d = c

\* An idle thread of the pool sleeps, and nothing will wake it.
Resting ==
  /\ \A w \in threads : idle[w] => pTarget[w] = None /\ wpc[w] = "waiting" /\ ~targetReady[w]
  /\ \A w \in threads : wpc[w] \in {"woken", "running"} => ~targetReady[w]

\* A target belongs to one thread, which has not signalled its completion.
Assigned ==
  \A w \in Workers : pTarget[w] # None =>
    /\ ~targetCompleted[w]
    /\ \/ wpc[w] \in {"waiting", "woken"} /\ st[pTarget[w]] = "queued"
       \/ wpc[w] = "running" /\ st[pTarget[w]] = "running" /\ running[w] = pTarget[w]
    /\ \A v \in Workers : pTarget[v] = pTarget[w] => v = w

\* A target is run by one thread.
RunByOne ==
  \A w \in Workers : wpc[w] = "running" =>
    /\ running[w] # None
    /\ st[running[w]] = "running"
    /\ \A v \in Workers : wpc[v] = "running" /\ running[v] = running[w] => v = w

\* A target that has been accepted is with a thread of the pool.
InPool ==
  ~stopped =>
    \A r \in Targets : st[r] \in {"queued", "running"} => \E w \in threads : pTarget[w] = r

\* The threads that joinAll() has still to join, or is waiting for.
ToJoin == IF stage = "joinWait" THEN todo \cup {at} ELSE todo

\* What joinAll() has to wait for is over, or is with a thread it will still wait for.
Joining ==
  stage \in {"join", "joinWait"} =>
    \A r \in joinSet : st[r] = "done" \/ \E w \in ToJoin : pTarget[w] = r

IInv ==
  /\ PoolTypeOK /\ Owned /\ HandedOut /\ Wanted /\ Resting /\ Assigned /\ RunByOne
  /\ InPool /\ Joining

\* What housekeep() does to the pool, whatever threads it decides to release: it lets
\* go idle threads only.
LEMMA HousekeepEffect ==
  ASSUME PoolTypeOK, housekeep
  PROVE  /\ stage' = "release" /\ age' = 0
         /\ todo' \subseteq Idle /\ threads' = threads \ todo'
         /\ todo' \subseteq Workers /\ threads' \subseteq Workers
  <1> DEFINE expiredThreads == {w \in Idle : expired[w]}
  <1>1. todo' \subseteq expiredThreads BY DEF housekeep
  <1>2. expiredThreads \subseteq Idle /\ Idle \subseteq Workers BY DEF Idle, PoolTypeOK
  <1> QED BY <1>1, <1>2 DEF housekeep, PoolTypeOK

LEMMA InitIInv == PoolInit => IInv
  <1> SUFFICES ASSUME PoolInit PROVE IInv
    OBVIOUS
  <1> USE ConstantsAssumption DEF PoolInit
  <1>1. PoolTypeOK
    <2>1. age \in 0..(AgeLimit - 1) /\ maxCapacity \in Int OBVIOUS
    <2>2. /\ idle \in [Workers -> BOOLEAN] /\ expired \in [Workers -> BOOLEAN]
          /\ targetReady \in [Workers -> BOOLEAN] /\ targetCompleted \in [Workers -> BOOLEAN]
          /\ stopped \in BOOLEAN
      OBVIOUS
    <2>3. wpc \in [Workers -> Places] BY DEF Places
    <2>4. call \in [Clients -> Calls] /\ st \in [Targets -> States] /\ stage \in Stages
      BY DEF Calls, States, Stages
    <2>5. threads \subseteq Workers OBVIOUS
    <2> QED BY <2>1, <2>2, <2>3, <2>4, <2>5 DEF PoolTypeOK
  <1>2. Owned BY DEF Owned
  <1>3. HandedOut BY DEF HandedOut
  <1>4. Wanted BY DEF Wanted
  <1>5. Resting BY DEF Resting
  <1>6. Assigned BY DEF Assigned
  <1>7. RunByOne BY DEF RunByOne
  <1>8. InPool BY DEF InPool
  <1>9. Joining BY DEF Joining
  <1> QED BY <1>1, <1>2, <1>3, <1>4, <1>5, <1>6, <1>7, <1>8, <1>9 DEF IInv

\* Every step keeps the types.
LEMMA TypeStep == PoolTypeOK /\ [PoolNext]_poolVars => PoolTypeOK'
  <1> SUFFICES ASSUME PoolTypeOK, [PoolNext]_poolVars PROVE PoolTypeOK'
    OBVIOUS
  <1> USE ConstantsAssumption DEF pool, section, client, worker, history
  <1>1. ASSUME NEW c \in Clients, Call(c) PROVE PoolTypeOK'
    <2>1. ASSUME NEW r \in Targets, start(c, r) PROVE PoolTypeOK'
      <3>1. age' \in 0..(AgeLimit - 1) /\ stage' \in Stages
            /\ threads' \subseteq Workers /\ todo' \subseteq Workers
        BY <2>1, HousekeepEffect DEF start, Stages, PoolTypeOK
      <3> QED BY <2>1, <3>1 DEF start, Lock, PoolTypeOK, Calls, States
    <2>2. CASE joinAll(c)
      BY <2>2 DEF joinAll, Lock, PoolTypeOK, Stages, Calls, States, Places, Idle
    <2>3. CASE collect(c)
      BY <2>3, HousekeepEffect DEF collect, Lock, PoolTypeOK, Stages, Calls, States, Places, Idle
    <2>4. ASSUME NEW n \in Deltas, addCapacity(c, n) PROVE PoolTypeOK'
      BY <2>4, HousekeepEffect
         DEF addCapacity, Lock, PoolTypeOK, Stages, Calls, States, Places, Idle
    <2>5. CASE stopAll(c)
      BY <2>5 DEF stopAll, Lock, PoolTypeOK, Stages, Calls, States, Places, Idle
    <2> QED BY <1>1, <2>1, <2>2, <2>3, <2>4, <2>5 DEF Call
  <1>2. ASSUME NEW c \in Clients, PooledThread_start(c) PROVE PoolTypeOK'
    BY <1>2 DEF PooledThread_start, PoolTypeOK, Stages, Calls, States, Places, Idle
  <1>3. CASE Section
    <2>1. ASSUME NEW w \in Workers, PickIdle(w) PROVE PoolTypeOK'
      BY <2>1 DEF PickIdle, activate, Unlock, PoolTypeOK, Stages, Calls, States, Places, Idle
    <2>2. ASSUME NEW w \in Workers, CreateThread(w) PROVE PoolTypeOK'
      BY <2>2 DEF CreateThread, activate, Unlock, PoolTypeOK, Stages, Calls, States, Places, Idle
    <2>3. ASSUME NEW w \in Workers, join(w) PROVE PoolTypeOK'
      BY <2>3 DEF join, PoolTypeOK, Stages, Calls, States, Places, Idle
    <2>4. ASSUME NEW w \in Workers, release(w) PROVE PoolTypeOK'
      BY <2>4 DEF release, PoolTypeOK, Stages, Calls, States, Places, Idle
    <2>5. CASE GetThreadThrows
      BY <2>5 DEF GetThreadThrows, Unlock, PoolTypeOK, Stages, Calls, States, Places, Idle
    <2>6. CASE JoinWait
      BY <2>6 DEF JoinWait, PoolTypeOK, Stages, Calls, States, Places, Idle
    <2>7. CASE JoinDone
      BY <2>7, HousekeepEffect DEF JoinDone, PoolTypeOK, Stages, Calls, States, Places, Idle
    <2>8. CASE ReleaseWait
      BY <2>8 DEF ReleaseWait, PoolTypeOK, Stages, Calls, States, Places, Idle
    <2>9. CASE ReleaseDone
      BY <2>9 DEF ReleaseDone, Unlock, PoolTypeOK, Stages, Calls, States, Places, Idle
    <2> QED
      BY <1>3, <2>1, <2>2, <2>3, <2>4, <2>5, <2>6, <2>7, <2>8, <2>9 DEF Section
  <1>4. ASSUME NEW w \in Workers, Run(w) \/ Expire(w) PROVE PoolTypeOK'
    <2>1. CASE Wake(w)
      BY <2>1 DEF Wake, PoolTypeOK, Stages, Calls, States, Places, Idle
    <2>2. CASE Look(w)
      BY <2>2 DEF Look, PoolTypeOK, Stages, Calls, States, Places, Idle
    <2>3. CASE Finish(w)
      BY <2>3 DEF Finish, PoolTypeOK, Stages, Calls, States, Places, Idle
    <2>4. CASE Expire(w)
      BY <2>4 DEF Expire, PoolTypeOK, Stages, Calls, States, Places, Idle
    <2> QED BY <1>4, <2>1, <2>2, <2>3, <2>4 DEF Run
  <1>5. CASE Terminated \/ UNCHANGED poolVars
    BY <1>5 DEF Terminated, poolVars, PoolTypeOK, Stages, Calls, States, Places, Idle
  <1> QED BY <1>1, <1>2, <1>3, <1>4, <1>5 DEF PoolNext

\* Every step keeps the section with its owner.
LEMMA OwnedStep == PoolTypeOK /\ Owned /\ HandedOut /\ [PoolNext]_poolVars => Owned'
  <1> SUFFICES ASSUME PoolTypeOK, Owned, HandedOut, [PoolNext]_poolVars PROVE Owned'
    OBVIOUS
  <1> USE ConstantsAssumption DEF pool, section, client, worker, history
  <1>1. ASSUME NEW c \in Clients, Call(c) PROVE Owned'
    <2>1. ASSUME NEW r \in Targets, start(c, r) PROVE Owned'
      BY <2>1, HousekeepEffect DEF start, Lock, Owned, PoolTypeOK, Idle, HandedOut
    <2>2. CASE joinAll(c)
      BY <2>2 DEF joinAll, Lock, Owned, PoolTypeOK, HandedOut
    <2>3. CASE collect(c)
      BY <2>3, HousekeepEffect DEF collect, Lock, Owned, PoolTypeOK, Idle, HandedOut
    <2>4. ASSUME NEW n \in Deltas, addCapacity(c, n) PROVE Owned'
      BY <2>4, HousekeepEffect DEF addCapacity, Lock, Owned, PoolTypeOK, Idle, HandedOut
    <2>5. CASE stopAll(c)
      BY <2>5 DEF stopAll, Lock, Owned, PoolTypeOK, HandedOut
    <2> QED BY <1>1, <2>1, <2>2, <2>3, <2>4, <2>5 DEF Call
  <1>2. ASSUME NEW c \in Clients, PooledThread_start(c) PROVE Owned'
    BY <1>2 DEF PooledThread_start, Owned, PoolTypeOK, HandedOut
  <1>3. CASE Section
    <2>1. ASSUME NEW w \in Workers, PickIdle(w) PROVE Owned'
      BY <2>1 DEF PickIdle, activate, Unlock, Owned, PoolTypeOK, HandedOut
    <2>2. ASSUME NEW w \in Workers, CreateThread(w) PROVE Owned'
      BY <2>2 DEF CreateThread, activate, Unlock, Owned, PoolTypeOK, HandedOut
    <2>3. ASSUME NEW w \in Workers, join(w) PROVE Owned'
      BY <2>3 DEF join, Owned, PoolTypeOK, HandedOut
    <2>4. ASSUME NEW w \in Workers, release(w) PROVE Owned'
      BY <2>4 DEF release, Owned, PoolTypeOK, HandedOut
    <2>5. CASE GetThreadThrows
      BY <2>5 DEF GetThreadThrows, Unlock, Owned, PoolTypeOK, HandedOut
    <2>6. CASE JoinWait
      BY <2>6 DEF JoinWait, Owned, PoolTypeOK, HandedOut
    <2>7. CASE JoinDone
      BY <2>7, HousekeepEffect DEF JoinDone, Owned, PoolTypeOK, Idle, HandedOut
    <2>8. CASE ReleaseWait
      BY <2>8 DEF ReleaseWait, Owned, PoolTypeOK, HandedOut
    <2>9. CASE ReleaseDone
      BY <2>9 DEF ReleaseDone, Unlock, Owned, PoolTypeOK, HandedOut
    <2> QED
      BY <1>3, <2>1, <2>2, <2>3, <2>4, <2>5, <2>6, <2>7, <2>8, <2>9 DEF Section
  <1>4. ASSUME NEW w \in Workers, Run(w) \/ Expire(w) PROVE Owned'
    <2>1. CASE Wake(w)
      BY <2>1 DEF Wake, Owned, PoolTypeOK, HandedOut
    <2>2. CASE Look(w)
      BY <2>2 DEF Look, Owned, PoolTypeOK, HandedOut
    <2>3. CASE Finish(w)
      BY <2>3 DEF Finish, Owned, PoolTypeOK, HandedOut
    <2>4. CASE Expire(w)
      BY <2>4 DEF Expire, Owned, PoolTypeOK, HandedOut
    <2> QED BY <1>4, <2>1, <2>2, <2>3, <2>4 DEF Run
  <1>5. CASE Terminated \/ UNCHANGED poolVars
    BY <1>5 DEF Terminated, poolVars, Owned, PoolTypeOK, HandedOut
  <1> QED BY <1>1, <1>2, <1>3, <1>4, <1>5 DEF PoolNext

\* Every step leaves a handed-out thread to its client.
LEMMA HandedOutStep ==
  PoolTypeOK /\ Owned /\ HandedOut /\ Resting /\ [PoolNext]_poolVars => HandedOut'
  <1> SUFFICES ASSUME PoolTypeOK, Owned, HandedOut, Resting, [PoolNext]_poolVars PROVE HandedOut'
    OBVIOUS
  <1> USE ConstantsAssumption DEF pool, section, client, worker, history
  <1>1. ASSUME NEW c \in Clients, Call(c) PROVE HandedOut'
    <2>1. ASSUME NEW r \in Targets, start(c, r) PROVE HandedOut'
      BY <2>1, HousekeepEffect DEF start, Lock, HandedOut, PoolTypeOK, Idle
    <2>2. CASE joinAll(c)
      BY <2>2 DEF joinAll, Lock, HandedOut, PoolTypeOK
    <2>3. CASE collect(c)
      BY <2>3, HousekeepEffect DEF collect, Lock, HandedOut, PoolTypeOK, Idle
    <2>4. ASSUME NEW n \in Deltas, addCapacity(c, n) PROVE HandedOut'
      BY <2>4, HousekeepEffect DEF addCapacity, Lock, HandedOut, PoolTypeOK, Idle
    <2>5. CASE stopAll(c)
      BY <2>5 DEF stopAll, Lock, HandedOut, PoolTypeOK
    <2> QED BY <1>1, <2>1, <2>2, <2>3, <2>4, <2>5 DEF Call
  <1>2. ASSUME NEW c \in Clients, PooledThread_start(c) PROVE HandedOut'
    BY <1>2 DEF PooledThread_start, HandedOut, PoolTypeOK
  <1>3. CASE Section
    <2>1. ASSUME NEW w \in Workers, PickIdle(w) PROVE HandedOut'
      BY <2>1 DEF PickIdle, activate, Unlock, Idle, HandedOut, PoolTypeOK, Owned, Resting
    <2>2. ASSUME NEW w \in Workers, CreateThread(w) PROVE HandedOut'
      BY <2>2 DEF CreateThread, activate, Unlock, HandedOut, PoolTypeOK, Owned
    <2>3. ASSUME NEW w \in Workers, join(w) PROVE HandedOut'
      BY <2>3 DEF join, HandedOut, PoolTypeOK
    <2>4. ASSUME NEW w \in Workers, release(w) PROVE HandedOut'
      BY <2>4 DEF release, HandedOut, PoolTypeOK, Owned
    <2>5. CASE GetThreadThrows
      BY <2>5 DEF GetThreadThrows, HandedOut, PoolTypeOK, Owned
    <2>6. CASE JoinWait
      BY <2>6 DEF JoinWait, HandedOut, PoolTypeOK
    <2>7. CASE JoinDone
      BY <2>7, HousekeepEffect DEF JoinDone, HandedOut, PoolTypeOK, Idle
    <2>8. CASE ReleaseWait
      BY <2>8 DEF ReleaseWait, HandedOut, PoolTypeOK
    <2>9. CASE ReleaseDone
      BY <2>9 DEF ReleaseDone, Unlock, HandedOut, PoolTypeOK, Owned
    <2> QED
      BY <1>3, <2>1, <2>2, <2>3, <2>4, <2>5, <2>6, <2>7, <2>8, <2>9 DEF Section
  <1>4. ASSUME NEW w \in Workers, Run(w) \/ Expire(w) PROVE HandedOut'
    <2>1. CASE Wake(w)
      BY <2>1 DEF Wake, HandedOut, PoolTypeOK
    <2>2. CASE Look(w)
      BY <2>2 DEF Look, HandedOut, PoolTypeOK
    <2>3. CASE Finish(w)
      BY <2>3 DEF Finish, HandedOut, PoolTypeOK
    <2>4. CASE Expire(w)
      BY <2>4 DEF Expire, HandedOut, PoolTypeOK
    <2> QED BY <1>4, <2>1, <2>2, <2>3, <2>4 DEF Run
  <1>5. CASE Terminated \/ UNCHANGED poolVars
    BY <1>5 DEF Terminated, poolVars, HandedOut, PoolTypeOK
  <1> QED BY <1>1, <1>2, <1>3, <1>4, <1>5 DEF PoolNext

\* Every step leaves a submitted target to its client.
LEMMA WantedStep ==
  PoolTypeOK /\ Owned /\ HandedOut /\ Wanted /\ Assigned /\ RunByOne /\ [PoolNext]_poolVars
    => Wanted'
  <1> SUFFICES ASSUME PoolTypeOK, Owned, HandedOut, Wanted, Assigned, RunByOne, [PoolNext]_poolVars
               PROVE  Wanted'
    OBVIOUS
  <1> USE ConstantsAssumption DEF pool, section, client, worker, history
  <1>1. ASSUME NEW c \in Clients, Call(c) PROVE Wanted'
    <2>1. ASSUME NEW r \in Targets, start(c, r) PROVE Wanted'
      BY <2>1 DEF start, Lock, Wanted, PoolTypeOK
    <2>2. CASE joinAll(c)
      BY <2>2 DEF joinAll, Lock, Wanted, PoolTypeOK
    <2>3. CASE collect(c)
      BY <2>3 DEF collect, Lock, Wanted, PoolTypeOK
    <2>4. ASSUME NEW n \in Deltas, addCapacity(c, n) PROVE Wanted'
      BY <2>4 DEF addCapacity, Lock, Wanted, PoolTypeOK
    <2>5. CASE stopAll(c)
      BY <2>5 DEF stopAll, Lock, Wanted, PoolTypeOK
    <2> QED BY <1>1, <2>1, <2>2, <2>3, <2>4, <2>5 DEF Call
  <1>2. ASSUME NEW c \in Clients, PooledThread_start(c) PROVE Wanted'
    BY <1>2 DEF PooledThread_start, Wanted, HandedOut, PoolTypeOK
  <1>3. CASE Section
    <2>1. ASSUME NEW w \in Workers, PickIdle(w) PROVE Wanted'
      BY <2>1 DEF PickIdle, activate, Unlock, Wanted, PoolTypeOK
    <2>2. ASSUME NEW w \in Workers, CreateThread(w) PROVE Wanted'
      BY <2>2 DEF CreateThread, activate, Unlock, Wanted, PoolTypeOK
    <2>3. ASSUME NEW w \in Workers, join(w) PROVE Wanted'
      BY <2>3 DEF join, Wanted, PoolTypeOK
    <2>4. ASSUME NEW w \in Workers, release(w) PROVE Wanted'
      BY <2>4 DEF release, Wanted, PoolTypeOK
    <2>5. CASE GetThreadThrows
      BY <2>5 DEF GetThreadThrows, Unlock, Wanted, Owned, PoolTypeOK
    <2>6. CASE JoinWait
      BY <2>6 DEF JoinWait, Wanted, PoolTypeOK
    <2>7. CASE JoinDone
      BY <2>7 DEF JoinDone, Wanted, PoolTypeOK
    <2>8. CASE ReleaseWait
      BY <2>8 DEF ReleaseWait, Wanted, PoolTypeOK
    <2>9. CASE ReleaseDone
      BY <2>9 DEF ReleaseDone, Unlock, Wanted, PoolTypeOK
    <2> QED
      BY <1>3, <2>1, <2>2, <2>3, <2>4, <2>5, <2>6, <2>7, <2>8, <2>9 DEF Section
  <1>4. ASSUME NEW w \in Workers, Run(w) \/ Expire(w) PROVE Wanted'
    <2>1. CASE Wake(w)
      BY <2>1 DEF Wake, Wanted, PoolTypeOK
    <2>2. CASE Look(w)
      BY <2>2 DEF Look, Wanted, Assigned, PoolTypeOK
    <2>3. CASE Finish(w)
      BY <2>3 DEF Finish, Wanted, RunByOne, PoolTypeOK
    <2>4. CASE Expire(w)
      BY <2>4 DEF Expire, Wanted, PoolTypeOK
    <2> QED BY <1>4, <2>1, <2>2, <2>3, <2>4 DEF Run
  <1>5. CASE Terminated \/ UNCHANGED poolVars
    BY <1>5 DEF Terminated, poolVars, Wanted, PoolTypeOK
  <1> QED BY <1>1, <1>2, <1>3, <1>4, <1>5 DEF PoolNext

\* Every step leaves idle threads asleep.
LEMMA RestingStep == PoolTypeOK /\ Owned /\ HandedOut /\ Resting /\ [PoolNext]_poolVars => Resting'
  <1> SUFFICES ASSUME PoolTypeOK, Owned, HandedOut, Resting, [PoolNext]_poolVars PROVE Resting'
    OBVIOUS
  <1> USE ConstantsAssumption DEF pool, section, client, worker, history
  <1>1. ASSUME NEW c \in Clients, Call(c) PROVE Resting'
    <2>1. ASSUME NEW r \in Targets, start(c, r) PROVE Resting'
      BY <2>1, HousekeepEffect DEF start, Lock, Resting, PoolTypeOK
    <2>2. CASE joinAll(c)
      BY <2>2 DEF joinAll, Lock, Resting, PoolTypeOK
    <2>3. CASE collect(c)
      BY <2>3, HousekeepEffect DEF collect, Lock, Resting, PoolTypeOK
    <2>4. ASSUME NEW n \in Deltas, addCapacity(c, n) PROVE Resting'
      BY <2>4, HousekeepEffect DEF addCapacity, Lock, Resting, PoolTypeOK
    <2>5. CASE stopAll(c)
      BY <2>5 DEF stopAll, Lock, Resting, PoolTypeOK
    <2> QED BY <1>1, <2>1, <2>2, <2>3, <2>4, <2>5 DEF Call
  <1>2. ASSUME NEW c \in Clients, PooledThread_start(c) PROVE Resting'
    BY <1>2 DEF PooledThread_start, Resting, HandedOut, PoolTypeOK
  <1>3. CASE Section
    <2>1. ASSUME NEW w \in Workers, PickIdle(w) PROVE Resting'
      BY <2>1 DEF PickIdle, activate, Unlock, Resting, PoolTypeOK
    <2>2. ASSUME NEW w \in Workers, CreateThread(w) PROVE Resting'
      BY <2>2 DEF CreateThread, activate, Unlock, Resting, PoolTypeOK
    <2>3. ASSUME NEW w \in Workers, join(w) PROVE Resting'
      BY <2>3 DEF join, Resting, PoolTypeOK
    <2>4. ASSUME NEW w \in Workers, release(w) PROVE Resting'
      BY <2>4 DEF release, Resting, PoolTypeOK, Owned
    <2>5. CASE GetThreadThrows
      BY <2>5 DEF GetThreadThrows, Unlock, Resting, PoolTypeOK
    <2>6. CASE JoinWait
      BY <2>6 DEF JoinWait, Resting, PoolTypeOK
    <2>7. CASE JoinDone
      BY <2>7, HousekeepEffect DEF JoinDone, Resting, PoolTypeOK
    <2>8. CASE ReleaseWait
      BY <2>8 DEF ReleaseWait, Resting, PoolTypeOK
    <2>9. CASE ReleaseDone
      BY <2>9 DEF ReleaseDone, Unlock, Resting, PoolTypeOK
    <2> QED
      BY <1>3, <2>1, <2>2, <2>3, <2>4, <2>5, <2>6, <2>7, <2>8, <2>9 DEF Section
  <1>4. ASSUME NEW w \in Workers, Run(w) \/ Expire(w) PROVE Resting'
    <2>1. CASE Wake(w)
      BY <2>1 DEF Wake, Resting, PoolTypeOK
    <2>2. CASE Look(w)
      BY <2>2 DEF Look, Resting, PoolTypeOK
    <2>3. CASE Finish(w)
      BY <2>3 DEF Finish, Resting, PoolTypeOK
    <2>4. CASE Expire(w)
      BY <2>4 DEF Expire, Resting, PoolTypeOK
    <2> QED BY <1>4, <2>1, <2>2, <2>3, <2>4 DEF Run
  <1>5. CASE Terminated \/ UNCHANGED poolVars
    BY <1>5 DEF Terminated, poolVars, Resting, PoolTypeOK
  <1> QED BY <1>1, <1>2, <1>3, <1>4, <1>5 DEF PoolNext

\* Every step leaves a target to its thread.
LEMMA AssignedStep ==
  PoolTypeOK /\ Owned /\ HandedOut /\ Wanted /\ Assigned /\ RunByOne /\ [PoolNext]_poolVars
    => Assigned'
  <1> SUFFICES ASSUME PoolTypeOK, Owned, HandedOut, Wanted, Assigned, RunByOne, [PoolNext]_poolVars
               PROVE  Assigned'
    OBVIOUS
  <1> USE ConstantsAssumption DEF pool, section, client, worker, history
  <1>1. ASSUME NEW c \in Clients, Call(c) PROVE Assigned'
    <2>1. ASSUME NEW r \in Targets, start(c, r) PROVE Assigned'
      BY <2>1 DEF start, Assigned, PoolTypeOK
    <2>2. CASE joinAll(c)
      BY <2>2 DEF joinAll, Lock, Assigned, PoolTypeOK
    <2>3. CASE collect(c)
      BY <2>3 DEF collect, Lock, Assigned, PoolTypeOK
    <2>4. ASSUME NEW n \in Deltas, addCapacity(c, n) PROVE Assigned'
      BY <2>4 DEF addCapacity, Lock, Assigned, PoolTypeOK
    <2>5. CASE stopAll(c)
      BY <2>5 DEF stopAll, Lock, Assigned, PoolTypeOK
    <2> QED BY <1>1, <2>1, <2>2, <2>3, <2>4, <2>5 DEF Call
  <1>2. ASSUME NEW c \in Clients, PooledThread_start(c) PROVE Assigned'
    BY <1>2 DEF PooledThread_start, Assigned, HandedOut, Wanted, PoolTypeOK
  <1>3. CASE Section
    <2>1. ASSUME NEW w \in Workers, PickIdle(w) PROVE Assigned'
      BY <2>1 DEF PickIdle, activate, Assigned, PoolTypeOK
    <2>2. ASSUME NEW w \in Workers, CreateThread(w) PROVE Assigned'
      BY <2>2 DEF CreateThread, activate, Unlock, Assigned, PoolTypeOK
    <2>3. ASSUME NEW w \in Workers, join(w) PROVE Assigned'
      BY <2>3 DEF join, Assigned, PoolTypeOK
    <2>4. ASSUME NEW w \in Workers, release(w) PROVE Assigned'
      BY <2>4 DEF release, Assigned, PoolTypeOK
    <2>5. CASE GetThreadThrows
      BY <2>5 DEF GetThreadThrows, Assigned, Wanted, Owned, PoolTypeOK
    <2>6. CASE JoinWait
      BY <2>6 DEF JoinWait, Assigned, PoolTypeOK
    <2>7. CASE JoinDone
      BY <2>7 DEF JoinDone, Assigned, PoolTypeOK
    <2>8. CASE ReleaseWait
      BY <2>8 DEF ReleaseWait, Assigned, PoolTypeOK
    <2>9. CASE ReleaseDone
      BY <2>9 DEF ReleaseDone, Unlock, Assigned, PoolTypeOK
    <2> QED
      BY <1>3, <2>1, <2>2, <2>3, <2>4, <2>5, <2>6, <2>7, <2>8, <2>9 DEF Section
  <1>4. ASSUME NEW w \in Workers, Run(w) \/ Expire(w) PROVE Assigned'
    <2>1. CASE Wake(w)
      BY <2>1 DEF Wake, Assigned, PoolTypeOK
    <2>2. CASE Look(w)
      BY <2>2 DEF Look, Assigned, PoolTypeOK
    <2>3. CASE Finish(w)
      BY <2>3 DEF Finish, Assigned, RunByOne, PoolTypeOK
    <2>4. CASE Expire(w)
      BY <2>4 DEF Expire, Assigned, PoolTypeOK
    <2> QED BY <1>4, <2>1, <2>2, <2>3, <2>4 DEF Run
  <1>5. CASE Terminated \/ UNCHANGED poolVars
    BY <1>5 DEF Terminated, poolVars, Assigned, PoolTypeOK
  <1> QED BY <1>1, <1>2, <1>3, <1>4, <1>5 DEF PoolNext

\* Every step leaves a target to the one thread that runs it.
LEMMA RunByOneStep ==
  PoolTypeOK /\ Owned /\ HandedOut /\ Wanted /\ Assigned /\ RunByOne /\ [PoolNext]_poolVars
    => RunByOne'
  <1> SUFFICES ASSUME PoolTypeOK, Owned, HandedOut, Wanted, Assigned, RunByOne, [PoolNext]_poolVars
               PROVE  RunByOne'
    OBVIOUS
  <1> USE ConstantsAssumption DEF pool, section, client, worker, history
  <1>1. ASSUME NEW c \in Clients, Call(c) PROVE RunByOne'
    <2>1. ASSUME NEW r \in Targets, start(c, r) PROVE RunByOne'
      BY <2>1 DEF start, Lock, RunByOne, PoolTypeOK
    <2>2. CASE joinAll(c)
      BY <2>2 DEF joinAll, Lock, RunByOne, PoolTypeOK
    <2>3. CASE collect(c)
      BY <2>3 DEF collect, Lock, RunByOne, PoolTypeOK
    <2>4. ASSUME NEW n \in Deltas, addCapacity(c, n) PROVE RunByOne'
      BY <2>4 DEF addCapacity, Lock, RunByOne, PoolTypeOK
    <2>5. CASE stopAll(c)
      BY <2>5 DEF stopAll, Lock, RunByOne, PoolTypeOK
    <2> QED BY <1>1, <2>1, <2>2, <2>3, <2>4, <2>5 DEF Call
  <1>2. ASSUME NEW c \in Clients, PooledThread_start(c) PROVE RunByOne'
    BY <1>2 DEF PooledThread_start, RunByOne, HandedOut, Wanted, PoolTypeOK
  <1>3. CASE Section
    <2>1. ASSUME NEW w \in Workers, PickIdle(w) PROVE RunByOne'
      BY <2>1 DEF PickIdle, activate, Unlock, RunByOne, PoolTypeOK
    <2>2. ASSUME NEW w \in Workers, CreateThread(w) PROVE RunByOne'
      BY <2>2 DEF CreateThread, activate, Unlock, RunByOne, PoolTypeOK
    <2>3. ASSUME NEW w \in Workers, join(w) PROVE RunByOne'
      BY <2>3 DEF join, RunByOne, PoolTypeOK
    <2>4. ASSUME NEW w \in Workers, release(w) PROVE RunByOne'
      BY <2>4 DEF release, RunByOne, PoolTypeOK
    <2>5. CASE GetThreadThrows
      BY <2>5 DEF GetThreadThrows, RunByOne, Wanted, Owned, PoolTypeOK
    <2>6. CASE JoinWait
      BY <2>6 DEF JoinWait, RunByOne, PoolTypeOK
    <2>7. CASE JoinDone
      BY <2>7 DEF JoinDone, RunByOne, PoolTypeOK
    <2>8. CASE ReleaseWait
      BY <2>8 DEF ReleaseWait, RunByOne, PoolTypeOK
    <2>9. CASE ReleaseDone
      BY <2>9 DEF ReleaseDone, Unlock, RunByOne, PoolTypeOK
    <2> QED
      BY <1>3, <2>1, <2>2, <2>3, <2>4, <2>5, <2>6, <2>7, <2>8, <2>9 DEF Section
  <1>4. ASSUME NEW w \in Workers, Run(w) \/ Expire(w) PROVE RunByOne'
    <2>1. CASE Wake(w)
      BY <2>1 DEF Wake, RunByOne, PoolTypeOK
    <2>2. CASE Look(w)
      BY <2>2 DEF Look, RunByOne, Assigned, PoolTypeOK
    <2>3. CASE Finish(w)
      BY <2>3 DEF Finish, RunByOne, PoolTypeOK
    <2>4. CASE Expire(w)
      BY <2>4 DEF Expire, RunByOne, PoolTypeOK
    <2> QED BY <1>4, <2>1, <2>2, <2>3, <2>4 DEF Run
  <1>5. CASE Terminated \/ UNCHANGED poolVars
    BY <1>5 DEF Terminated, poolVars, RunByOne, PoolTypeOK
  <1> QED BY <1>1, <1>2, <1>3, <1>4, <1>5 DEF PoolNext

\* Every step keeps accepted targets in the pool.
LEMMA InPoolStep ==
  PoolTypeOK /\ Owned /\ HandedOut /\ Resting /\ Assigned /\ RunByOne /\ InPool
    /\ [PoolNext]_poolVars
    => InPool'
  <1> SUFFICES ASSUME PoolTypeOK, Owned, HandedOut, Resting, Assigned, RunByOne, InPool,
                  [PoolNext]_poolVars
               PROVE  InPool'
    OBVIOUS
  <1> USE ConstantsAssumption DEF pool, section, client, worker, history
  <1>1. ASSUME NEW c \in Clients, Call(c) PROVE InPool'
    <2>1. ASSUME NEW r \in Targets, start(c, r) PROVE InPool'
      BY <2>1, HousekeepEffect DEF start, Lock, InPool, PoolTypeOK, Resting, Idle
    <2>2. CASE joinAll(c)
      BY <2>2 DEF joinAll, Lock, InPool, PoolTypeOK
    <2>3. CASE collect(c)
      BY <2>3, HousekeepEffect DEF collect, Lock, InPool, PoolTypeOK, Resting, Idle
    <2>4. ASSUME NEW n \in Deltas, addCapacity(c, n) PROVE InPool'
      BY <2>4, HousekeepEffect DEF addCapacity, Lock, InPool, PoolTypeOK, Resting, Idle
    <2>5. CASE stopAll(c)
      BY <2>5 DEF stopAll, Lock, InPool, PoolTypeOK
    <2> QED BY <1>1, <2>1, <2>2, <2>3, <2>4, <2>5 DEF Call
  <1>2. ASSUME NEW c \in Clients, PooledThread_start(c) PROVE InPool'
    BY <1>2 DEF PooledThread_start, InPool, HandedOut, PoolTypeOK
  <1>3. CASE Section
    <2>1. ASSUME NEW w \in Workers, PickIdle(w) PROVE InPool'
      BY <2>1 DEF PickIdle, activate, Unlock, InPool, PoolTypeOK
    <2>2. ASSUME NEW w \in Workers, CreateThread(w) PROVE InPool'
      BY <2>2 DEF CreateThread, InPool, Assigned, PoolTypeOK
    <2>3. ASSUME NEW w \in Workers, join(w) PROVE InPool'
      BY <2>3 DEF join, InPool, PoolTypeOK
    <2>4. ASSUME NEW w \in Workers, release(w) PROVE InPool'
      BY <2>4 DEF release, InPool, Owned, PoolTypeOK
    <2>5. CASE GetThreadThrows
      BY <2>5 DEF GetThreadThrows, Unlock, InPool, PoolTypeOK
    <2>6. CASE JoinWait
      BY <2>6 DEF JoinWait, InPool, PoolTypeOK
    <2>7. CASE JoinDone
      BY <2>7, HousekeepEffect DEF JoinDone, InPool, PoolTypeOK, Resting, Idle
    <2>8. CASE ReleaseWait
      BY <2>8 DEF ReleaseWait, InPool, PoolTypeOK
    <2>9. CASE ReleaseDone
      BY <2>9 DEF ReleaseDone, Unlock, InPool, PoolTypeOK
    <2> QED
      BY <1>3, <2>1, <2>2, <2>3, <2>4, <2>5, <2>6, <2>7, <2>8, <2>9 DEF Section
  <1>4. ASSUME NEW w \in Workers, Run(w) \/ Expire(w) PROVE InPool'
    <2>1. CASE Wake(w)
      BY <2>1 DEF Wake, InPool, PoolTypeOK
    <2>2. CASE Look(w)
      BY <2>2 DEF Look, InPool, Assigned, PoolTypeOK
    <2>3. CASE Finish(w)
      BY <2>3 DEF Finish, InPool, Assigned, RunByOne, PoolTypeOK
    <2>4. CASE Expire(w)
      BY <2>4 DEF Expire, InPool, PoolTypeOK
    <2> QED BY <1>4, <2>1, <2>2, <2>3, <2>4 DEF Run
  <1>5. CASE Terminated \/ UNCHANGED poolVars
    BY <1>5 DEF Terminated, poolVars, InPool, PoolTypeOK
  <1> QED BY <1>1, <1>2, <1>3, <1>4, <1>5 DEF PoolNext

\* Every step of joinAll() leaves what it has not waited for to be joined.
LEMMA JoiningStep ==
  PoolTypeOK /\ Owned /\ HandedOut /\ Wanted /\ Assigned /\ RunByOne /\ InPool /\ Joining
    /\ [PoolNext]_poolVars
    => Joining'
  <1> SUFFICES ASSUME PoolTypeOK, Owned, HandedOut, Wanted, Assigned, RunByOne, InPool, Joining,
                  [PoolNext]_poolVars
               PROVE  Joining'
    OBVIOUS
  <1> USE ConstantsAssumption DEF pool, section, client, worker, history
  <1>1. ASSUME NEW c \in Clients, Call(c) PROVE Joining'
    <2>1. ASSUME NEW r \in Targets, start(c, r) PROVE Joining'
      BY <2>1, HousekeepEffect DEF start, Lock, Joining, ToJoin, PoolTypeOK
    <2>2. CASE joinAll(c)
      BY <2>2 DEF joinAll, Lock, Joining, ToJoin, InPool, PoolTypeOK
    <2>3. CASE collect(c)
      BY <2>3, HousekeepEffect DEF collect, Lock, Joining, ToJoin, PoolTypeOK
    <2>4. ASSUME NEW n \in Deltas, addCapacity(c, n) PROVE Joining'
      BY <2>4, HousekeepEffect DEF addCapacity, Lock, Joining, ToJoin, PoolTypeOK
    <2>5. CASE stopAll(c)
      BY <2>5 DEF stopAll, Lock, Joining, ToJoin, PoolTypeOK
    <2> QED BY <1>1, <2>1, <2>2, <2>3, <2>4, <2>5 DEF Call
  <1>2. ASSUME NEW c \in Clients, PooledThread_start(c) PROVE Joining'
    BY <1>2 DEF PooledThread_start, Joining, ToJoin, HandedOut, Wanted, PoolTypeOK
  <1>3. CASE Section
    <2>1. ASSUME NEW w \in Workers, PickIdle(w) PROVE Joining'
      BY <2>1 DEF PickIdle, activate, Unlock, Joining, ToJoin, PoolTypeOK
    <2>2. ASSUME NEW w \in Workers, CreateThread(w) PROVE Joining'
      BY <2>2 DEF CreateThread, activate, Unlock, Joining, ToJoin, PoolTypeOK
    <2>3. ASSUME NEW w \in Workers, join(w) PROVE Joining'
      BY <2>3 DEF join, Joining, ToJoin, PoolTypeOK
    <2>4. ASSUME NEW w \in Workers, release(w) PROVE Joining'
      BY <2>4 DEF release, Joining, ToJoin, PoolTypeOK
    <2>5. CASE GetThreadThrows
      BY <2>5 DEF GetThreadThrows, Unlock, Joining, ToJoin, PoolTypeOK
    <2>6. CASE JoinWait
      BY <2>6 DEF JoinWait, Joining, ToJoin, Assigned, Owned, PoolTypeOK
    <2>7. CASE JoinDone
      BY <2>7, HousekeepEffect DEF JoinDone, Joining, ToJoin, PoolTypeOK
    <2>8. CASE ReleaseWait
      BY <2>8 DEF ReleaseWait, Joining, ToJoin, PoolTypeOK
    <2>9. CASE ReleaseDone
      BY <2>9 DEF ReleaseDone, Unlock, Joining, ToJoin, PoolTypeOK
    <2> QED
      BY <1>3, <2>1, <2>2, <2>3, <2>4, <2>5, <2>6, <2>7, <2>8, <2>9 DEF Section
  <1>4. ASSUME NEW w \in Workers, Run(w) \/ Expire(w) PROVE Joining'
    <2>1. CASE Wake(w)
      BY <2>1 DEF Wake, Joining, ToJoin, PoolTypeOK
    <2>2. CASE Look(w)
      BY <2>2 DEF Look, Joining, ToJoin, Assigned, PoolTypeOK
    <2>3. CASE Finish(w)
      BY <2>3 DEF Finish, Joining, ToJoin, Assigned, RunByOne, PoolTypeOK
    <2>4. CASE Expire(w)
      BY <2>4 DEF Expire, Joining, ToJoin, PoolTypeOK
    <2> QED BY <1>4, <2>1, <2>2, <2>3, <2>4 DEF Run
  <1>5. CASE Terminated \/ UNCHANGED poolVars
    BY <1>5 DEF Terminated, poolVars, Joining, ToJoin, PoolTypeOK
  <1> QED BY <1>1, <1>2, <1>3, <1>4, <1>5 DEF PoolNext

LEMMA IInvStep == IInv /\ [PoolNext]_poolVars => IInv'
  BY TypeStep, OwnedStep, HandedOutStep, WantedStep, RestingStep, AssignedStep, RunByOneStep,
     InPoolStep, JoiningStep
     DEF IInv

LEMMA IInvAlways == PoolSpec => []IInv
  BY InitIInv, IInvStep, PTL DEF PoolSpec

-----------------------------------------------------------------------------
(* The results. *)

\* Every variable of the pool and its threads keeps its type.
THEOREM TypeCorrect == PoolSpec => []PoolTypeOK
  <1>1. IInv => PoolTypeOK BY DEF IInv
  <1> QED BY <1>1, IInvAlways, PTL

\* A thread that getThread() has handed out belongs to its client alone until that
\* client has given it a target, although the pool's mutex is released in between.
THEOREM HandOutIsExclusive == PoolSpec => []HandOutExclusive
  <1>1. IInv => HandOutExclusive BY DEF IInv, HandedOut, HandOutExclusive
  <1> QED BY <1>1, IInvAlways, PTL

\* When joinAll() has been through the threads, every target accepted before it has
\* been run to its end.
THEOREM JoinAllHasWaited == PoolSpec => []JoinAllWaits
  <1>1. IInv => JoinAllWaits BY DEF IInv, Joining, ToJoin, JoinAllWaits
  <1> QED BY <1>1, IInvAlways, PTL

\* As long as the pool has not been stopped, a target that start() accepted and that is
\* not over is with a thread of the pool: housekeeping never releases such a thread.
THEOREM AcceptedStayInPool == PoolSpec => []InPool
  <1>1. IInv => InPool BY DEF IInv
  <1> QED BY <1>1, IInvAlways, PTL

=============================================================================
