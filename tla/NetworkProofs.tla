---------------------------- MODULE NetworkProofs ----------------------------
(***************************************************************************)
(* Proofs about the two components that use the network.                   *)
(*                                                                         *)
(* TCPServer, for any number of threads, connections and limits: the       *)
(* dispatcher's reference count and its count of threads are right, and    *)
(* no queued connection is left without a thread.                          *)
(*                                                                         *)
(* ReplicaSetConnection, for any number of servers and clients and any     *)
(* seeds: what the client knows of the replica set hangs together,         *)
(* whatever answers arrive in whatever order, and the calls keep to their  *)
(* limits.                                                                 *)
(***************************************************************************)
EXTENDS TCPServer, ReplicaSetConnection, FiniteSetTheorems, TLAPS

-----------------------------------------------------------------------------
(* TCPServer: counting the threads that are at certain places of run(). *)

At(f, P) == {w \in Workers : f[w] \in P}

\* The threads of any places can be counted.
LEMMA AtFinite ==
  ASSUME NEW f, NEW P
  PROVE  IsFiniteSet(At(f, P)) /\ Cardinality(At(f, P)) \in Nat
  <1>1. At(f, P) \subseteq Workers BY DEF At
  <1>2. IsFiniteSet(At(f, P)) BY <1>1, ConstantsAssumption, FS_Subset
  <1> QED BY <1>2, FS_CardinalityType

\* A thread that is there makes the count positive.
LEMMA AtPositive ==
  ASSUME NEW f, NEW P, NEW w \in Workers, f[w] \in P
  PROVE  Cardinality(At(f, P)) > 0
  <1>1. w \in At(f, P) BY DEF At
  <1>2. IsFiniteSet(At(f, P)) /\ Cardinality(At(f, P)) \in Nat BY AtFinite
  <1>3. Cardinality(At(f, P)) # 0 BY <1>1, <1>2, FS_EmptySet
  <1> QED BY <1>2, <1>3

\* Only thread w has moved between f and g.
OnlyMoved(f, g, w) == \A v \in Workers : v # w => g[v] = f[v]

\* A thread that moves inside or outside the places is counted as before.
LEMMA CountSame ==
  ASSUME NEW f, NEW g, NEW P, NEW w \in Workers, OnlyMoved(f, g, w),
         f[w] \in P <=> g[w] \in P
  PROVE  At(g, P) = At(f, P)
  BY DEF At, OnlyMoved

\* One that comes in is counted in.
LEMMA CountIn ==
  ASSUME NEW f, NEW g, NEW P, NEW w \in Workers, OnlyMoved(f, g, w),
         f[w] \notin P, g[w] \in P
  PROVE  Cardinality(At(g, P)) = Cardinality(At(f, P)) + 1
  <1>1. IsFiniteSet(At(f, P)) BY AtFinite
  <1>2. At(g, P) = At(f, P) \cup {w} BY DEF At, OnlyMoved
  <1>3. w \notin At(f, P) BY DEF At
  <1> QED BY <1>1, <1>2, <1>3, FS_AddElement

\* One that goes out is counted out.
LEMMA CountOut ==
  ASSUME NEW f, NEW g, NEW P, NEW w \in Workers, OnlyMoved(f, g, w),
         f[w] \in P, g[w] \notin P
  PROVE  Cardinality(At(g, P)) = Cardinality(At(f, P)) - 1
  <1>1. IsFiniteSet(At(f, P)) BY AtFinite
  <1>2. At(g, P) = At(f, P) \ {w} BY DEF At, OnlyMoved
  <1>3. w \in At(f, P) BY DEF At
  <1> QED BY <1>1, <1>2, <1>3, FS_RemoveElement

-----------------------------------------------------------------------------
(* The inductive invariant of TCPServer. *)

InRun == {"top", "wait", "got", "begin", "serve", "check", "leave"}
Places == InRun \cup {"pool"}

\* A thread in run() that has not decided to leave.
Attending == InRun \ {"leave"}

\* The three counts are what they say.
Counts ==
  /\ rc = Cardinality(At(pc, InRun)) + (IF spc = "destroyed" THEN 0 ELSE 1)
  /\ currentThreads = Cardinality(At(pc, Attending))
  /\ currentConnections = Cardinality(At(pc, {"serve"}))

\* Connections are where the code dereferences them, and only a thread that waits can
\* have been given one.
Holding ==
  /\ apc \in {"accepted", "put", "start"} => socket \in Connections
  /\ \A w \in Workers : pc[w] \in {"begin", "serve"} => pNf[w] \in Connections
  /\ \A w \in waiting : pc[w] = "wait"
  /\ \A w \in Workers : given[w] # None => pc[w] = "wait" /\ w \notin waiting

\* Who holds the mutex; the dispatcher is stopped after the acceptor has ended.
Locking ==
  /\ apc \in {"put", "start"} => mutex = "accept"
  /\ spc = "notify" => mutex = "stop"
  /\ spc \in {"stop", "notify", "release", "destroyed"} => apc = "ended"
  /\ stopped <=> spc \in {"notify", "release", "destroyed"}

\* After stop() the queue holds no connection.
Dropped == stopped => \A i \in 1..Len(pending) : pending[i] \notin Connections

IInv == TypeOK /\ Counts /\ Holding /\ Locking /\ Dropped /\ NotStranded

LEMMA InitIInv == Init => IInv
  <1> SUFFICES ASSUME Init PROVE IInv
    OBVIOUS
  <1> USE ConstantsAssumption
  <1>1. pending = <<>> /\ given = [c \in Workers |-> None] BY DEF Init, Q!Init
  <1>2. At(pc, InRun) = {} /\ At(pc, Attending) = {} /\ At(pc, {"serve"}) = {}
    BY DEF Init, At, InRun, Attending
  <1>3. Counts
    <2>1. Cardinality({}) = 0 BY FS_EmptySet
    <2> QED BY <1>2, <2>1 DEF Init, Counts
  <1>4. TypeOK
    <2>1. pending \in Seq(Connections \cup Stops) BY <1>1
    <2>2. stopped \in BOOLEAN /\ serverStopped \in BOOLEAN /\ startFailed \in BOOLEAN
      BY DEF Init
    <2>3. rc \in Nat /\ currentThreads \in 0..MaxThreads /\ currentConnections \in Nat
          /\ others \in 0..MaxOthers
      BY DEF Init
    <2>4. /\ given \in [Workers -> Connections \cup Stops \cup {None}]
          /\ pNf \in [Workers -> Connections \cup Stops \cup {None}]
          /\ pc \in [Workers -> {"pool", "top", "wait", "got", "begin", "serve", "check",
                                 "leave"}]
          /\ state \in [Connections -> {"new", "accepted", "serving", "served", "refused",
                                        "dropped"}]
      BY <1>1 DEF Init
    <2> QED BY <2>1, <2>2, <2>3, <2>4 DEF Init, TypeOK
  <1>5. Holding BY <1>1 DEF Init, Holding
  <1>6. Locking BY DEF Init, Locking
  <1>7. Dropped BY <1>1 DEF Init, Dropped
  <1>8. NotStranded BY <1>1 DEF NotStranded
  <1> QED BY <1>3, <1>4, <1>5, <1>6, <1>7, <1>8 DEF IInv

\* Every move of a thread is one.
LEMMA MoveIsOnly ==
  ASSUME TypeOK, NEW w \in Workers, NEW to, pc' = [pc EXCEPT ![w] = to]
  PROVE  OnlyMoved(pc, pc', w) /\ pc'[w] = to
  BY DEF TypeOK, OnlyMoved

\* Every step keeps the counts right: a thread is counted in by enqueue() and out by
\* itself, in two steps that the other threads can come between.
LEMMA CountStep == TypeOK /\ Counts /\ [Next]_vars => Counts'
  <1> SUFFICES ASSUME TypeOK, Counts, [Next]_vars PROVE Counts'
    OBVIOUS
  <1>0. ASSUME UNCHANGED <<rc, currentThreads, currentConnections, pc>>,
               spc' = "destroyed" <=> spc = "destroyed"
        PROVE  Counts'
    BY <1>0 DEF Counts
  <1>1. ASSUME NEW k \in Connections, Accept(k) PROVE Counts'
    BY <1>1, <1>0 DEF Accept, dispatcher
  <1>2. CASE Acceptor
    <2>1. CASE AcceptorEnds \/ EnqueueLock \/ EnqueuePut
      BY <2>1, <1>0 DEF AcceptorEnds, EnqueueLock, EnqueuePut, dispatcher
    <2>2. CASE EnqueueNoStart \/ EnqueueStartFails
      BY <2>2, <1>0 DEF EnqueueNoStart, EnqueueStartFails, EnqueueDone
    <2>3. CASE EnqueueStart
      <3>1. PICK w \in Workers \ Running : pc' = [pc EXCEPT ![w] = "top"]
        BY <2>3 DEF EnqueueStart
      <3>2. pc[w] = "pool" BY <3>1 DEF Running
      <3>3. OnlyMoved(pc, pc', w) /\ pc'[w] = "top" BY <3>1, MoveIsOnly
      <3>4. /\ pc[w] \notin InRun /\ pc'[w] \in InRun
            /\ pc[w] \notin Attending /\ pc'[w] \in Attending
            /\ pc[w] \notin {"serve"} /\ pc'[w] \notin {"serve"}
        BY <3>2, <3>3 DEF InRun, Attending
      <3>5. Cardinality(At(pc', InRun)) = Cardinality(At(pc, InRun)) + 1
        BY <3>3, <3>4, CountIn
      <3>6. Cardinality(At(pc', Attending)) = Cardinality(At(pc, Attending)) + 1
        BY <3>3, <3>4, CountIn
      <3>7. At(pc', {"serve"}) = At(pc, {"serve"}) BY <3>3, <3>4, CountSame
      <3>8. Cardinality(At(pc, InRun)) \in Nat BY AtFinite
      <3> QED BY <2>3, <3>5, <3>6, <3>7, <3>8 DEF EnqueueStart, EnqueueDone, Counts
    <2> QED BY <1>2, <2>1, <2>2, <2>3 DEF Acceptor
  <1>3. ASSUME NEW w \in Workers, Worker(w) \/ IdleTimeout(w) PROVE Counts'
    <2>1. ASSUME NEW to \in Attending, pc' = [pc EXCEPT ![w] = to],
                 pc[w] \in Attending, pc[w] # "serve", to # "serve",
                 UNCHANGED <<rc, currentThreads, currentConnections, spc>>
          PROVE  Counts'
      <3>1. OnlyMoved(pc, pc', w) /\ pc'[w] = to BY <2>1, MoveIsOnly
      <3>2. pc[w] \in InRun /\ pc'[w] \in InRun BY <2>1, <3>1 DEF Attending
      <3>3. At(pc', InRun) = At(pc, InRun) BY <3>1, <3>2, CountSame
      <3>4. At(pc', Attending) = At(pc, Attending) BY <2>1, <3>1, CountSame
      <3>5. At(pc', {"serve"}) = At(pc, {"serve"}) BY <2>1, <3>1, CountSame
      <3> QED BY <2>1, <3>3, <3>4, <3>5 DEF Counts
    <2> USE DEF InRun, Attending
    <2>2. CASE TakePending(w) \/ Wait(w) \/ Receive(w) \/ IdleTimeout(w)
      BY <2>2, <2>1
         DEF TakePending, Wait, Receive, IdleTimeout, Move, dispatcher, server
    <2>3. CASE CreateConnection(w)
      BY <2>3, <2>1 DEF CreateConnection, dispatcher, server
    <2>8. CASE CheckLeave(w) /\ ~MayLeave
      BY <2>8, <2>1 DEF CheckLeave, server
    <2> HIDE DEF InRun, Attending
    <2>4. CASE beginConnection(w)
      <3>1. pc[w] = "begin" /\ OnlyMoved(pc, pc', w) /\ pc'[w] = "serve"
        BY <2>4, MoveIsOnly DEF beginConnection, Move
      <3>2. /\ pc[w] \in InRun /\ pc'[w] \in InRun
            /\ pc[w] \in Attending /\ pc'[w] \in Attending
        BY <3>1 DEF InRun, Attending
      <3>3. At(pc', InRun) = At(pc, InRun) BY <3>1, <3>2, CountSame
      <3>4. At(pc', Attending) = At(pc, Attending) BY <3>1, <3>2, CountSame
      <3>5. Cardinality(At(pc', {"serve"})) = Cardinality(At(pc, {"serve"})) + 1
        BY <3>1, CountIn
      <3> QED BY <2>4, <3>3, <3>4, <3>5 DEF beginConnection, server, Counts
    <2>5. CASE endConnection(w)
      <3>1. pc[w] = "serve" /\ OnlyMoved(pc, pc', w) /\ pc'[w] = "check"
        BY <2>5, MoveIsOnly DEF endConnection, Move
      <3>2. /\ pc[w] \in InRun /\ pc'[w] \in InRun
            /\ pc[w] \in Attending /\ pc'[w] \in Attending
        BY <3>1 DEF InRun, Attending
      <3>3. At(pc', InRun) = At(pc, InRun) BY <3>1, <3>2, CountSame
      <3>4. At(pc', Attending) = At(pc, Attending) BY <3>1, <3>2, CountSame
      <3>5. Cardinality(At(pc', {"serve"})) = Cardinality(At(pc, {"serve"})) - 1
        BY <3>1, CountOut
      <3> QED BY <2>5, <3>3, <3>4, <3>5 DEF endConnection, server, Counts
    <2>6. CASE CheckLeave(w)
      <3>1. CASE MayLeave
        <4>1. pc[w] = "check" /\ OnlyMoved(pc, pc', w) /\ pc'[w] = "leave"
          BY <2>6, <3>1, MoveIsOnly DEF CheckLeave
        <4>2. /\ pc[w] \in InRun /\ pc'[w] \in InRun
              /\ pc[w] \in Attending /\ pc'[w] \notin Attending
          BY <4>1 DEF InRun, Attending
        <4>3. At(pc', InRun) = At(pc, InRun) BY <4>1, <4>2, CountSame
        <4>4. Cardinality(At(pc', Attending)) = Cardinality(At(pc, Attending)) - 1
          BY <4>1, <4>2, CountOut
        <4>5. At(pc', {"serve"}) = At(pc, {"serve"}) BY <4>1, CountSame
        <4> QED BY <2>6, <3>1, <4>3, <4>4, <4>5 DEF CheckLeave, server, Counts
      <3>2. CASE ~MayLeave
        BY <2>6, <3>2, <2>8
      <3> QED BY <3>1, <3>2
    <2>7. CASE Leave(w)
      <3>1. pc[w] = "leave" /\ OnlyMoved(pc, pc', w) /\ pc'[w] = "pool"
        BY <2>7, MoveIsOnly DEF Leave, Move
      <3>2. /\ pc[w] \in InRun /\ pc'[w] \notin InRun
            /\ pc[w] \notin Attending /\ pc'[w] \notin Attending
        BY <3>1 DEF InRun, Attending
      <3>3. Cardinality(At(pc', InRun)) = Cardinality(At(pc, InRun)) - 1
        BY <3>1, <3>2, CountOut
      <3>4. At(pc', Attending) = At(pc, Attending) BY <3>1, <3>2, CountSame
      <3>5. At(pc', {"serve"}) = At(pc, {"serve"}) BY <3>1, CountSame
      <3>6. Cardinality(At(pc, InRun)) \in Nat BY AtFinite
      <3> QED BY <2>7, <3>3, <3>4, <3>5, <3>6 DEF Leave, server, Counts
    <2> QED BY <1>3, <2>2, <2>3, <2>4, <2>5, <2>6, <2>7 DEF Worker
  <1>4. CASE stop BY <1>4, <1>0 DEF stop, dispatcher
  <1>5. CASE Stopping
    <2>1. CASE JoinAcceptor \/ StopReturns
      BY <2>1, <1>0 DEF JoinAcceptor, StopReturns, dispatcher
    <2>2. CASE StopDispatcher BY <2>2, <1>0 DEF StopDispatcher
    <2>3. ASSUME NEW n \in Stops, StopNotify(n) PROVE Counts'
      BY <2>3, <1>0 DEF StopNotify, dispatcher
    <2>4. CASE release
      <3>1. Cardinality(At(pc, InRun)) \in Nat BY AtFinite
      <3> QED BY <2>4, <3>1 DEF release, Counts
    <2> QED BY <1>5, <2>1, <2>2, <2>3, <2>4 DEF Stopping
  <1>6. CASE OthersTake \/ OthersReturn
    BY <1>6, <1>0 DEF OthersTake, OthersReturn, dispatcher, server
  <1>7. CASE UNCHANGED vars BY <1>7, <1>0 DEF vars, dispatcher, server
  <1> QED BY <1>1, <1>2, <1>3, <1>4, <1>5, <1>6, <1>7 DEF Next

\* What a notification does to the queue.
LEMMA EnqueueEffect ==
  ASSUME TypeOK, NEW n \in Connections \cup Stops, enqueueNotification(n)
  PROVE  /\ pending' \in Seq(Connections \cup Stops)
         /\ given' \in [Workers -> Connections \cup Stops \cup {None}]
         /\ waiting' \subseteq waiting
         /\ \A w \in Workers :
              given'[w] # given[w] => w \in waiting /\ w \notin waiting'
         /\ pending' = pending \/ pending' = Append(pending, n)
  <1>1. CASE waiting = {} /\ Q!Put(n) /\ UNCHANGED waiting
    <2>1. pending' = Append(pending, n) /\ given' = given BY <1>1 DEF Q!Put
    <2>2. Append(pending, n) \in Seq(Connections \cup Stops) BY DEF TypeOK
    <2> QED BY <1>1, <2>1, <2>2 DEF TypeOK
  <1>2. ASSUME NEW w \in waiting, Q!Give(w, n), waiting' = waiting \ {w}
        PROVE  /\ pending' = pending
               /\ given' \in [Workers -> Connections \cup Stops \cup {None}]
               /\ waiting' \subseteq waiting
               /\ \A v \in Workers :
                    given'[v] # given[v] => v \in waiting /\ v \notin waiting'
    BY <1>2 DEF Q!Give, TypeOK
  <1>3. pending \in Seq(Connections \cup Stops) BY DEF TypeOK
  <1> QED BY <1>1, <1>2, <1>3 DEF enqueueNotification

\* The counts have their types, and the limit on threads holds after any step that
\* leaves a thread more only below it.
LEMMA CountTypes ==
  ASSUME TypeOK, Counts', currentThreads' <= currentThreads \/ currentThreads < MaxThreads,
         currentThreads' <= currentThreads + 1
  PROVE  rc' \in Nat /\ currentThreads' \in 0..MaxThreads /\ currentConnections' \in Nat
  <1>1. /\ Cardinality(At(pc', InRun)) \in Nat
        /\ Cardinality(At(pc', Attending)) \in Nat
        /\ Cardinality(At(pc', {"serve"})) \in Nat
    BY AtFinite
  <1> QED BY <1>1, ConstantsAssumption DEF TypeOK, Counts

\* Every step keeps the types.
LEMMA TypeStep == TypeOK /\ Counts /\ Holding /\ [Next]_vars => TypeOK'
  <1> SUFFICES ASSUME TypeOK, Counts, Holding, [Next]_vars PROVE TypeOK'
    OBVIOUS
  <1>0. Counts' BY CountStep
  <1>q. ASSUME UNCHANGED queue PROVE UNCHANGED <<pending, given, waiting>> BY <1>q DEF queue
  <1>1. ASSUME NEW k \in Connections, Accept(k) PROVE TypeOK'
    BY <1>1, <1>q DEF Accept, dispatcher, TypeOK
  <1>2. CASE Acceptor
    <2>1. CASE AcceptorEnds
      BY <2>1, <1>q DEF AcceptorEnds, dispatcher, TypeOK
    <2>2. CASE EnqueueLock
      BY <2>2, <1>q DEF EnqueueLock, TypeOK, Holding
    <2>3. CASE EnqueuePut
      <3>1. socket \in Connections \cup Stops BY <2>3 DEF EnqueuePut, Holding
      <3>2. /\ pending' \in Seq(Connections \cup Stops)
            /\ given' \in [Workers -> Connections \cup Stops \cup {None}]
            /\ waiting' \subseteq waiting
        BY <2>3, <3>1, EnqueueEffect DEF EnqueuePut
      <3> QED BY <2>3, <3>2 DEF EnqueuePut, dispatcher, TypeOK
    <2>4. CASE EnqueueNoStart
      BY <2>4, <1>q DEF EnqueueNoStart, EnqueueDone, TypeOK
    <2>5. CASE EnqueueStart
      <3>1. rc' \in Nat /\ currentThreads' \in 0..MaxThreads
        BY <2>5, <1>0, CountTypes DEF EnqueueStart, NeedsThread, TypeOK
      <3>2. pc' \in [Workers -> {"pool", "top", "wait", "got", "begin", "serve", "check",
                                 "leave"}]
        BY <2>5 DEF EnqueueStart, TypeOK
      <3> QED BY <2>5, <1>q, <3>1, <3>2 DEF EnqueueStart, EnqueueDone, TypeOK
    <2>6. CASE EnqueueStartFails
      <3>1. startFailed' \in BOOLEAN BY <2>6 DEF EnqueueStartFails
      <3> QED BY <2>6, <1>q, <3>1 DEF EnqueueStartFails, EnqueueDone, TypeOK
    <2> QED BY <1>2, <2>1, <2>2, <2>3, <2>4, <2>5, <2>6 DEF Acceptor
  <1>3. ASSUME NEW w \in Workers, Worker(w) \/ IdleTimeout(w) PROVE TypeOK'
    <2>1. CASE TakePending(w)
      BY <2>1 DEF TakePending, Q!Take, Move, dispatcher, server, TypeOK
    <2>2. CASE Wait(w) \/ IdleTimeout(w)
      BY <2>2 DEF Wait, IdleTimeout, Move, dispatcher, server, TypeOK
    <2>3. CASE Receive(w)
      BY <2>3 DEF Receive, Q!Receive, Move, dispatcher, server, TypeOK
    <2>4. CASE CreateConnection(w)
      BY <2>4, <1>q DEF CreateConnection, dispatcher, server, TypeOK
    <2>5. CASE beginConnection(w)
      <3>1. currentConnections' \in Nat BY <2>5 DEF beginConnection, TypeOK
      <3> QED BY <2>5, <3>1, <1>q DEF beginConnection, Move, server, TypeOK
    <2>6. CASE endConnection(w)
      <3>1. currentConnections' \in Nat
        BY <2>6, <1>0, CountTypes DEF endConnection, TypeOK
      <3> QED BY <2>6, <3>1, <1>q DEF endConnection, Move, server, TypeOK
    <2>7. CASE CheckLeave(w)
      <3>1. currentThreads' \in 0..MaxThreads
        BY <2>7, <1>0, CountTypes DEF CheckLeave, TypeOK
      <3> QED BY <2>7, <3>1, <1>q DEF CheckLeave, server, TypeOK
    <2>8. CASE Leave(w)
      <3>1. rc' \in Nat BY <2>8, <1>0, CountTypes DEF Leave, TypeOK
      <3> QED BY <2>8, <3>1, <1>q DEF Leave, Move, server, TypeOK
    <2> QED BY <1>3, <2>1, <2>2, <2>3, <2>4, <2>5, <2>6, <2>7, <2>8 DEF Worker
  <1>4. CASE stop
    <2>1. serverStopped' \in BOOLEAN BY <1>4 DEF stop
    <2> QED BY <1>4, <2>1, <1>q DEF stop, dispatcher, TypeOK
  <1>5. CASE Stopping
    <2>1. CASE JoinAcceptor BY <2>1, <1>q DEF JoinAcceptor, dispatcher, TypeOK
    <2>2. CASE StopDispatcher
      <3>1. stopped' \in BOOLEAN BY <2>2 DEF StopDispatcher
      <3>2. pending' \in Seq(Connections \cup Stops) /\ given' = given
        BY <2>2 DEF StopDispatcher, Q!DiscardAll
      <3>3. state' \in [Connections -> {"new", "accepted", "serving", "served", "refused",
                                        "dropped"}]
        BY <2>2 DEF StopDispatcher, TypeOK
      <3>4. stopsLeft' \subseteq Stops BY <2>2 DEF StopDispatcher
      <3> QED BY <2>2, <3>1, <3>2, <3>3, <3>4 DEF StopDispatcher, TypeOK
    <2>3. ASSUME NEW n \in Stops, StopNotify(n) PROVE TypeOK'
      <3>1. /\ pending' \in Seq(Connections \cup Stops)
            /\ given' \in [Workers -> Connections \cup Stops \cup {None}]
            /\ waiting' \subseteq waiting
        BY <2>3, EnqueueEffect DEF StopNotify
      <3> QED BY <2>3, <3>1 DEF StopNotify, dispatcher, TypeOK
    <2>4. CASE StopReturns BY <2>4, <1>q DEF StopReturns, TypeOK
    <2>5. CASE release
      <3>1. rc' \in Nat BY <2>5, <1>0, CountTypes DEF release, TypeOK
      <3> QED BY <2>5, <3>1, <1>q DEF release, TypeOK
    <2> QED BY <1>5, <2>1, <2>2, <2>3, <2>4, <2>5 DEF Stopping
  <1>6. CASE OthersTake \/ OthersReturn
    <2>1. others' \in 0..MaxOthers
      BY <1>6, ConstantsAssumption DEF OthersTake, OthersReturn, TypeOK
    <2> QED BY <1>6, <2>1, <1>q DEF OthersTake, OthersReturn, dispatcher, server, TypeOK
  <1>7. CASE UNCHANGED vars BY <1>7, <1>q DEF vars, dispatcher, server, TypeOK
  <1> QED BY <1>1, <1>2, <1>3, <1>4, <1>5, <1>6, <1>7 DEF Next

\* Every step keeps connections where they are used.
LEMMA HoldStep == TypeOK /\ Holding /\ [Next]_vars => Holding'
  <1> SUFFICES ASSUME TypeOK, Holding, [Next]_vars PROVE Holding'
    OBVIOUS
  <1>1. ASSUME NEW k \in Connections, Accept(k) PROVE Holding'
    BY <1>1 DEF Accept, queue, Holding
  <1>2. CASE Acceptor
    <2>1. CASE AcceptorEnds \/ EnqueueLock
      BY <2>1 DEF AcceptorEnds, EnqueueLock, queue, Holding
    <2>2. CASE EnqueuePut
      <3>1. socket \in Connections \cup Stops BY <2>2 DEF EnqueuePut, Holding
      <3>2. /\ waiting' \subseteq waiting
            /\ \A w \in Workers :
                 given'[w] # given[w] => w \in waiting /\ w \notin waiting'
        BY <2>2, <3>1, EnqueueEffect DEF EnqueuePut
      <3> QED BY <2>2, <3>2 DEF EnqueuePut, Holding
    <2>3. CASE EnqueueNoStart \/ EnqueueStartFails
      BY <2>3 DEF EnqueueNoStart, EnqueueStartFails, EnqueueDone, queue, Holding
    <2>4. CASE EnqueueStart
      <3>1. PICK w \in Workers \ Running : pc' = [pc EXCEPT ![w] = "top"]
        BY <2>4 DEF EnqueueStart
      <3>2. pc[w] = "pool" BY <3>1 DEF Running
      <3> QED BY <2>4, <3>1, <3>2 DEF EnqueueStart, EnqueueDone, queue, Holding, TypeOK
    <2> QED BY <1>2, <2>1, <2>2, <2>3, <2>4 DEF Acceptor
  <1>3. ASSUME NEW w \in Workers, Worker(w) \/ IdleTimeout(w) PROVE Holding'
    <2>1. CASE TakePending(w) BY <2>1 DEF TakePending, Q!Take, Move, server, Holding, TypeOK
    <2>2. CASE Wait(w) BY <2>2 DEF Wait, Move, server, Holding, TypeOK
    <2>3. CASE Receive(w)
      BY <2>3 DEF Receive, Q!Receive, Move, server, Holding, TypeOK
    <2>4. CASE IdleTimeout(w) BY <2>4 DEF IdleTimeout, Move, server, Holding, TypeOK
    <2>5. CASE CreateConnection(w)
      BY <2>5 DEF CreateConnection, queue, server, Holding, TypeOK
    <2>6. CASE beginConnection(w) \/ Leave(w)
      BY <2>6 DEF beginConnection, Leave, Move, queue, server, Holding, TypeOK
    <2>7. CASE endConnection(w)
      BY <2>7 DEF endConnection, Move, queue, server, Holding, TypeOK
    <2>8. CASE CheckLeave(w) BY <2>8 DEF CheckLeave, queue, server, Holding, TypeOK
    <2> QED BY <1>3, <2>1, <2>2, <2>3, <2>4, <2>5, <2>6, <2>7, <2>8 DEF Worker
  <1>4. CASE stop BY <1>4 DEF stop, queue, Holding
  <1>5. CASE Stopping
    <2>1. CASE JoinAcceptor \/ StopReturns \/ release
      BY <2>1 DEF JoinAcceptor, StopReturns, release, queue, Holding
    <2>2. CASE StopDispatcher BY <2>2 DEF StopDispatcher, Q!DiscardAll, Holding
    <2>3. ASSUME NEW n \in Stops, StopNotify(n) PROVE Holding'
      <3>1. /\ waiting' \subseteq waiting
            /\ \A w \in Workers :
                 given'[w] # given[w] => w \in waiting /\ w \notin waiting'
        BY <2>3, EnqueueEffect DEF StopNotify
      <3> QED BY <2>3, <3>1 DEF StopNotify, Holding
    <2> QED BY <1>5, <2>1, <2>2, <2>3 DEF Stopping
  <1>6. CASE OthersTake \/ OthersReturn
    BY <1>6 DEF OthersTake, OthersReturn, queue, server, Holding
  <1>7. CASE UNCHANGED vars BY <1>7 DEF vars, queue, server, Holding
  <1> QED BY <1>1, <1>2, <1>3, <1>4, <1>5, <1>6, <1>7 DEF Next

\* Every step respects the mutex and the order in which the server is stopped.
LEMMA LockStep == TypeOK /\ Locking /\ [Next]_vars => Locking'
  <1> SUFFICES ASSUME TypeOK, Locking, [Next]_vars PROVE Locking'
    OBVIOUS
  <1> USE ConstantsAssumption
  <1>1. ASSUME NEW k \in Connections, Accept(k) PROVE Locking'
    BY <1>1 DEF Accept, dispatcher, Locking
  <1>2. CASE Acceptor
    <2>1. CASE AcceptorEnds BY <2>1 DEF AcceptorEnds, dispatcher, Locking
    <2>2. CASE EnqueueLock BY <2>2 DEF EnqueueLock, Locking
    <2>3. CASE EnqueuePut BY <2>3 DEF EnqueuePut, dispatcher, Locking
    <2>4. CASE EnqueueNoStart \/ EnqueueStart \/ EnqueueStartFails
      BY <2>4 DEF EnqueueNoStart, EnqueueStart, EnqueueStartFails, EnqueueDone, Locking
    <2> QED BY <1>2, <2>1, <2>2, <2>3, <2>4 DEF Acceptor
  <1>3. ASSUME NEW w \in Workers, Worker(w) \/ IdleTimeout(w) PROVE Locking'
    BY <1>3 DEF Worker, TakePending, Wait, Receive, IdleTimeout, CreateConnection,
                beginConnection, endConnection, CheckLeave, Leave, dispatcher, server, Locking
  <1>4. CASE stop BY <1>4 DEF stop, dispatcher, Locking
  <1>5. CASE Stopping
    <2>1. CASE JoinAcceptor BY <2>1 DEF JoinAcceptor, dispatcher, Locking
    <2>2. CASE StopDispatcher BY <2>2 DEF StopDispatcher, Locking
    <2>3. ASSUME NEW n \in Stops, StopNotify(n) PROVE Locking'
      BY <2>3 DEF StopNotify, dispatcher, Locking
    <2>4. CASE StopReturns BY <2>4 DEF StopReturns, Locking
    <2>5. CASE release BY <2>5 DEF release, Locking
    <2> QED BY <1>5, <2>1, <2>2, <2>3, <2>4, <2>5 DEF Stopping
  <1>6. CASE OthersTake \/ OthersReturn
    BY <1>6 DEF OthersTake, OthersReturn, dispatcher, server, Locking
  <1>7. CASE UNCHANGED vars BY <1>7 DEF vars, dispatcher, server, Locking
  <1> QED BY <1>1, <1>2, <1>3, <1>4, <1>5, <1>6, <1>7 DEF Next

\* A connection that is pending after one of these steps was pending before.
LEMMA PendingStep ==
  ASSUME TypeOK, [Next]_vars, ~EnqueuePut,
         NEW i \in 1..Len(pending'), pending'[i] \in Connections
  PROVE  \E j \in 1..Len(pending) : pending[j] \in Connections
  <1> DEFINE P == \E j \in 1..Len(pending) : pending[j] \in Connections
  <1>1. ASSUME pending' = pending PROVE P BY <1>1
  <1>2. ASSUME NEW w \in Workers, TakePending(w) PROVE P
    <2>1. pending # <<>> /\ pending' = Tail(pending) BY <1>2 DEF TakePending, Q!Take
    <2>2. Len(pending') = Len(pending) - 1 /\ Len(pending) \in Nat BY <2>1 DEF TypeOK
    <2>3. i + 1 \in 1..Len(pending) /\ pending'[i] = pending[i + 1] BY <2>1, <2>2 DEF TypeOK
    <2> QED BY <2>3
  <1>3. ASSUME NEW n \in Stops, StopNotify(n) PROVE P
    <2>1. pending' = pending \/ pending' = Append(pending, n)
      BY <1>3, EnqueueEffect DEF StopNotify
    <2>2. ASSUME pending' = Append(pending, n) PROVE P
      <3>1. Len(pending') = Len(pending) + 1 /\ Len(pending) \in Nat BY <2>2 DEF TypeOK
      <3>2. i # Len(pending) + 1
        <4>1. ASSUME i = Len(pending) + 1 PROVE FALSE
          <5>1. pending'[i] = n BY <4>1, <2>2 DEF TypeOK
          <5> QED BY <5>1, ConstantsAssumption
        <4> QED BY <4>1
      <3>3. i \in 1..Len(pending) /\ pending'[i] = pending[i] BY <2>2, <3>1, <3>2 DEF TypeOK
      <3> QED BY <3>3
    <2> QED BY <2>1, <2>2, <1>1
  <1>4. ASSUME StopDispatcher PROVE P
    <2>1. Len(pending') = 0 BY <1>4 DEF StopDispatcher, Q!DiscardAll
    <2> QED BY <2>1
  <1> QED
    BY <1>1, <1>2, <1>3, <1>4
       DEF Next, Acceptor, Worker, Stopping, vars, queue, Accept, AcceptorEnds, EnqueueLock,
           EnqueueNoStart, EnqueueStart, EnqueueStartFails, EnqueueDone, Wait, Receive,
           Q!Receive, IdleTimeout, CreateConnection, beginConnection, endConnection,
           CheckLeave, Leave, stop, JoinAcceptor, StopReturns, release, OthersTake,
           OthersReturn

\* After stop() nobody queues a connection any more.
LEMMA DropStep == TypeOK /\ Locking /\ Dropped /\ [Next]_vars => Dropped'
  <1> SUFFICES ASSUME TypeOK, Locking, Dropped, [Next]_vars, stopped',
                      NEW i \in 1..Len(pending'), pending'[i] \in Connections
               PROVE  FALSE
    BY DEF Dropped
  <1>1. CASE StopDispatcher
    <2>1. Len(pending') = 0 BY <1>1 DEF StopDispatcher, Q!DiscardAll
    <2> QED BY <2>1
  <1>2. CASE ~StopDispatcher
    <2>1. stopped
      BY <1>2
         DEF Next, Acceptor, Worker, Stopping, vars, dispatcher, Accept, AcceptorEnds,
             EnqueueLock, EnqueuePut, EnqueueNoStart, EnqueueStart, EnqueueStartFails,
             EnqueueDone, TakePending, Wait, Receive, IdleTimeout, CreateConnection,
             beginConnection, endConnection, CheckLeave, Leave, stop, JoinAcceptor,
             StopNotify, StopReturns, release, OthersTake, OthersReturn
    <2>2. ~EnqueuePut BY <2>1 DEF Locking, EnqueuePut
    <2>3. \E j \in 1..Len(pending) : pending[j] \in Connections BY <2>2, PendingStep
    <2> QED BY <2>1, <2>3 DEF Dropped
  <1> QED BY <1>1, <1>2

\* The core of the argument: a step that ends with the mutex free, a connection
\* pending and no thread refused leaves a thread that attends to the queue.
LEMMA StrandStep == IInv /\ [Next]_vars => NotStranded'
  <1> SUFFICES ASSUME IInv, [Next]_vars, mutex' = None, ~startFailed',
                      NEW i \in 1..Len(pending'), pending'[i] \in Connections
               PROVE  currentThreads' > 0
    BY DEF NotStranded
  <1> USE ConstantsAssumption DEF IInv
  <1>0. currentThreads' \in Nat /\ currentThreads \in Nat BY TypeStep DEF TypeOK
  <1>1. CASE EnqueuePut
    BY <1>1 DEF EnqueuePut, dispatcher, Locking
  <1>2. CASE EnqueueStart
    BY <1>2, <1>0 DEF EnqueueStart
  <1>3. CASE EnqueueStartFails
    BY <1>3 DEF EnqueueStartFails
  <1>4. CASE EnqueueNoStart
    <2>1. CASE waiting # {}
      <3>1. PICK w \in Workers : w \in waiting BY <2>1 DEF TypeOK
      <3>2. pc[w] \in Attending BY <3>1 DEF Holding, Attending, InRun
      <3>3. currentThreads > 0 BY <3>2, AtPositive DEF Counts
      <3> QED BY <1>4, <3>3 DEF EnqueueNoStart
    <2>2. CASE ~(currentThreads < MaxThreads)
      BY <1>4, <2>2, <1>0 DEF EnqueueNoStart
    <2> QED BY <1>4, <2>1, <2>2 DEF EnqueueNoStart, NeedsThread
  <1>5. ASSUME NEW w \in Workers, CheckLeave(w) PROVE currentThreads' > 0
    <2>1. ~EnqueuePut BY <1>5 DEF CheckLeave, EnqueuePut, Locking
    <2>2. \E j \in 1..Len(pending) : pending[j] \in Connections BY <2>1, PendingStep
    <2>3. ~stopped BY <2>2 DEF Dropped
    <2>4. currentThreads > 0
      BY <1>5, <2>2 DEF CheckLeave, server, NotStranded
    <2> QED BY <1>5, <1>0, <2>3, <2>4 DEF CheckLeave, MayLeave
  <1>6. CASE StopReturns
    <2>1. stopped' = stopped /\ pending' = pending BY <1>6 DEF StopReturns, queue
    <2>2. ~stopped BY <2>1 DEF Dropped
    <2> QED BY <1>6, <2>2 DEF StopReturns, Locking
  <1>7. ASSUME UNCHANGED <<mutex, currentThreads, startFailed>>, ~EnqueuePut
        PROVE  currentThreads' > 0
    <2>1. \E j \in 1..Len(pending) : pending[j] \in Connections BY <1>7, PendingStep
    <2> QED BY <1>7, <2>1 DEF NotStranded
  <1>8. CASE StopDispatcher BY <1>8 DEF StopDispatcher
  <1>9. CASE EnqueueLock /\ ~EnqueuePut
    <2>1. mutex' = mutex BY <1>9 DEF EnqueueLock
    <2> QED BY <1>9, <2>1, <1>7 DEF EnqueueLock
  <1>10. ~EnqueuePut => UNCHANGED <<mutex, currentThreads, startFailed>> \/ EnqueueStart
           \/ EnqueueStartFails \/ EnqueueNoStart \/ (\E w \in Workers : CheckLeave(w))
           \/ StopReturns \/ StopDispatcher \/ EnqueueLock
    BY DEF Next, Acceptor, Worker, Stopping, vars, dispatcher, Accept, AcceptorEnds,
           TakePending, Wait, Receive, IdleTimeout, CreateConnection,
           beginConnection, endConnection, Leave, stop, JoinAcceptor,
           StopNotify, release, OthersTake, OthersReturn
  <1> QED BY <1>1, <1>2, <1>3, <1>4, <1>5, <1>6, <1>7, <1>8, <1>9, <1>10

LEMMA IInvStep == IInv /\ [Next]_vars => IInv'
  BY TypeStep, CountStep, HoldStep, LockStep, DropStep, StrandStep DEF IInv

LEMMA IInvAlways == Spec => []IInv
  BY InitIInv, IInvStep, PTL DEF Spec

-----------------------------------------------------------------------------
(* The results about TCPServer. *)

\* Every variable of TCPServer keeps its type; with it, no more threads than allowed are
\* started and no count of threads, connections or references falls below zero.
THEOREM TCPTypeCorrect == Spec => []TypeOK
  <1>1. IInv => TypeOK BY DEF IInv
  <1> QED BY <1>1, IInvAlways, PTL

\* The dispatcher's reference count is the number of threads in run(), and one for
\* the server until it has released it: the dispatcher is deleted exactly then.
THEOREM ReferencesCount == Spec => []RcCounts
  <1>1. IInv => RcCounts
    <2> SUFFICES ASSUME IInv PROVE RcCounts
      OBVIOUS
    <2>1. Running = At(pc, InRun) BY DEF IInv, TypeOK, Running, At, InRun
    <2> QED BY <2>1 DEF IInv, Counts, RcCounts
  <1> QED BY <1>1, IInvAlways, PTL

\* Whenever the mutex is free, a queued connection has a thread that attends to the
\* queue, unless the pool has refused one.
THEOREM ConnectionsNotStranded == Spec => []NotStranded
  <1>1. IInv => NotStranded BY DEF IInv
  <1> QED BY <1>1, IInvAlways, PTL


-----------------------------------------------------------------------------
(* ReplicaSetConnection: the inductive invariant. *)

\* The servers a thread has still to ask, and the one whose answer it carries, are
\* known; and the answer is one that a server gives.
RefreshesKnown ==
  \A t \in Threads :
    /\ todo[t] \subseteq known
    /\ at[t] = "apply" => asked[t] \in known /\ reply[t] \in Roles \cup {"down"}

\* Servers other than the seeds come from a member of a set, whose name is known then.
NamedWhenGrown == known \subseteq config.seeds \/ setName # NoName

\* The topology hangs together: TopologyConsistent without the threads, and what makes
\* it inductive.
TopologySound ==
  /\ known \subseteq Servers
  /\ desc \in [Servers -> Desc]
  /\ setName \in Names /\ configName = setName
  /\ topoType = Classify(known, desc, setName)
  /\ \A s \in known : desc[s].type \in RsTypes => desc[s].setName = setName /\ setName # NoName
  /\ \A s \in Servers \ known : desc[s] = NewDesc
  /\ \A s \in known \ config.seeds : (s \in config.foreign) = (setName = OtherName)
  /\ NamedWhenGrown

\* The servers and the threads.
ThreadsSound ==
  /\ role \in [Servers -> Roles \cup {"down"}]
  /\ changes \in 0..MaxChanges
  /\ at \in [Threads -> {"ask", "apply", "done"}]
  /\ todo \in [Threads -> SUBSET Servers]
  /\ asked \in [Threads -> Servers \cup {NoServer}]
  /\ reply \in [Threads -> Roles \cup {"down", NoServer}]
  /\ stopMonitoring \in BOOLEAN /\ monitoringActive \in BOOLEAN
  /\ mon \in {"none", "top", "refresh", "goes to sleep", "asleep", "woken", "ended"}
  /\ ctl \in {"new", "discovery", "up", "notify", "join", "stopped"}
  /\ RefreshesKnown

\* The inductive invariant of ReplicaSetConnection.
TopologyInv == config \in Configs /\ TopologySound /\ ThreadsSound

\* updateTopologyType() sets one of the five types of a topology.
LEMMA ClassifyType ==
  ASSUME NEW K, NEW d, NEW name
  PROVE  Classify(K, d, name) \in {"Unknown", "Sharded", "Single", "ReplicaSetWithPrimary",
                                   "ReplicaSetNoPrimary"}
  BY DEF Classify

\* The invariant implies what the run checks.
LEMMA TopologyInvSuffices == TopologyInv => TopologyConsistent
  <1> SUFFICES ASSUME TopologyInv PROVE TopologyConsistent
    OBVIOUS
  <1>1. topoType \in {"Unknown", "Sharded", "Single", "ReplicaSetWithPrimary",
                      "ReplicaSetNoPrimary"}
    BY ClassifyType DEF TopologyInv, TopologySound
  <1>2. RsTypeOK BY Zenon, <1>1 DEF RsTypeOK, TopologyInv, TopologySound, ThreadsSound
  <1> QED BY Zenon, <1>2 DEF TopologyConsistent, TopologyInv, TopologySound

LEMMA TopologyInit == ConnInit => TopologyInv
  <1> SUFFICES ASSUME ConnInit PROVE TopologyInv
    OBVIOUS
  <1> USE DEF ConnInit, RsInit
  <1>1. config \in [seeds : SUBSET Servers \ {{}}, foreign : SUBSET Servers,
                    setName : {Name, NoName}]
    BY ReplicaSetAssumption
  <1>2. NewDesc \in Desc BY DEF NewDesc, Desc, ServerTypes, Names
  <1>3. NewDesc.type \notin RsTypes BY DEF NewDesc, RsTypes
  <1>4. TopologySound BY <1>1, <1>2, <1>3 DEF TopologySound, Names, NamedWhenGrown
  <1>5. RefreshesKnown BY DEF RefreshesKnown
  <1>6. changes \in 0..MaxChanges BY ReplicaSetAssumption
  <1>7. ThreadsSound BY <1>5, <1>6 DEF ThreadsSound
  <1> QED BY <1>4, <1>7 DEF TopologyInv

-----------------------------------------------------------------------------

\* markServerUnknown() takes a server's role away and nothing else.
LEMMA MarkKeeps ==
  ASSUME TopologySound, UNCHANGED config, NEW s, NEW e,
         e \in {"hello failed", "connection failed"}, markServerUnknown(s, e)
  PROVE  TopologySound' /\ known' = known
  <1>1. CASE s \notin known
    <2>1. UNCHANGED topology BY <1>1 DEF markServerUnknown
    <2> QED BY <2>1 DEF topology, TopologySound, NamedWhenGrown
  <1>2. CASE s \in known
    <2>1. /\ desc' = [desc EXCEPT ![s] = MarkError(desc[s], e)]
          /\ topoType' = Classify(known, desc', setName)
          /\ UNCHANGED <<known, setName, configName>>
      BY <1>2 DEF markServerUnknown
    <2>2. s \in Servers /\ desc[s] \in Desc BY <1>2 DEF TopologySound
    <2>3. MarkError(desc[s], e) \in Desc /\ MarkError(desc[s], e).type = "Unknown"
      BY <2>2 DEF MarkError, Desc, ServerTypes
    <2>4. desc' \in [Servers -> Desc] BY <2>1, <2>2, <2>3 DEF TopologySound
    <2>5. \A z \in Servers : z # s => desc'[z] = desc[z] BY <2>1 DEF TopologySound
    <2>6. desc'[s].type \notin RsTypes BY <2>1, <2>2, <2>3 DEF RsTypes, TopologySound
    <2>7. NamedWhenGrown' BY <2>1 DEF NamedWhenGrown, TopologySound
    <2> QED BY <1>2, <2>1, <2>4, <2>5, <2>6, <2>7 DEF TopologySound
  <1> QED BY <1>1, <1>2

\* updateServer() keeps the topology sound whatever a known server answers: the first name
\* heard stays, only a server that has it is followed to its hosts, and these belong to the
\* same set.
LEMMA UpdateKeeps ==
  ASSUME TopologySound, config \in Configs, UNCHANGED config, NEW s \in known,
         NEW r \in Roles, updateServer(s, r)
  PROVE  TopologySound' /\ known \subseteq known'
  <1> DEFINE d == FromHello(desc[s], s, r)
             mismatch == NoName \notin {d.setName, setName} /\ d.setName # setName
             hosts == IF mismatch THEN {} ELSE HostsOf(s, r)
             e == IF mismatch THEN MarkError(d, "name mismatch") ELSE d
  <1>1. /\ known' = known \cup {s} \cup hosts
        /\ desc' = [desc EXCEPT ![s] = e]
        /\ configName' = IF configName = NoName THEN d.setName ELSE configName
        /\ setName' = IF NoName \in {setName, configName} /\ d.setName # NoName
                      THEN d.setName ELSE setName
        /\ topoType' = Classify(known', desc', setName')
    BY DEF updateServer
  <1>2. s \in Servers /\ desc[s] \in Desc /\ desc \in [Servers -> Desc] BY DEF TopologySound
  <1>3. r \in ServerTypes BY ReplicaSetAssumption
  <1>4. /\ d.type = r /\ d.error = "none"
        /\ d.setName = IF NameOf(s, r) = NoName THEN desc[s].setName ELSE NameOf(s, r)
    BY DEF FromHello
  <1>5. NameOf(s, r) \in Names BY DEF NameOf, Names
  <1>6. d \in Desc BY <1>2, <1>3, <1>5 DEF FromHello, Desc
  <1>7. e \in Desc BY <1>6 DEF MarkError, Desc, ServerTypes
  <1>8. r \in RsTypes => NameOf(s, r) # NoName /\ ((s \in config.foreign) <=> (NameOf(s,
  r) = OtherName))
    BY ReplicaSetAssumption DEF NameOf
  <1>9. r \notin RsTypes => hosts = {} BY DEF HostsOf
  <1>10. hosts \subseteq Servers BY DEF HostsOf
  <1>11. \A h \in hosts : (h \in config.foreign) <=> (s \in config.foreign) BY DEF HostsOf
  <1>12. mismatch => e.type = "Unknown" BY <1>4, <1>6 DEF MarkError, Desc
  <1>13. configName = setName /\ setName \in Names BY DEF TopologySound
  <1>14. d.setName \in Names BY <1>6 DEF Desc
  <1>15. setName' = (IF setName = NoName THEN d.setName ELSE setName) /\ configName' = setName'
    BY <1>1, <1>13
  <1>16. setName' \in Names BY <1>13, <1>14, <1>15
  <1>17. desc' \in [Servers -> Desc] BY <1>1, <1>2, <1>7
  <1>18. desc'[s] = e /\ \A z \in Servers : z # s => desc'[z] = desc[z] BY <1>1, <1>2
  <1>19. ~mismatch /\ r \in RsTypes => setName' = d.setName /\ d.setName = NameOf(s,
  r) /\ setName' # NoName
    BY <1>4, <1>8, <1>15
  <1>20. hosts # {} => ~mismatch /\ r \in RsTypes BY <1>9
  <1>21. "Unknown" \notin RsTypes /\ NewDesc.type = "Unknown" BY DEF RsTypes, NewDesc
  <1>22. known \subseteq config.seeds \/ setName # NoName BY DEF TopologySound, NamedWhenGrown
  <1>23. known' = known \cup hosts /\ known' \subseteq Servers BY <1>1, <1>10 DEF TopologySound
  <1> HIDE DEF d, mismatch, hosts, e
  <1>24. \A z \in known' :
           desc'[z].type \in RsTypes => desc'[z].setName = setName' /\ setName' # NoName
    <2> SUFFICES ASSUME NEW z \in known', desc'[z].type \in RsTypes
                 PROVE  desc'[z].setName = setName' /\ setName' # NoName
      OBVIOUS
    <2>1. CASE z = s
      <3>1. ~mismatch BY <2>1, <1>18, <1>12, <1>21
      <3>2. e = d BY <3>1 DEF e
      <3> QED BY <2>1, <3>1, <3>2, <1>18, <1>4, <1>19
    <2>2. CASE z # s
      <3>1. desc'[z] = desc[z] BY <2>2, <1>18, <1>23
      <3>2. z \in known
        <4>1. z \notin known => desc[z] = NewDesc BY <1>23 DEF TopologySound
        <4> QED BY <3>1, <4>1, <1>21
      <3>3. desc[z].setName = setName /\ setName # NoName BY <3>1, <3>2 DEF TopologySound
      <3> QED BY <3>1, <3>3, <1>15
    <2> QED BY <2>1, <2>2
  <1>25. \A z \in Servers \ known' : desc'[z] = NewDesc
    BY <1>18, <1>23 DEF TopologySound
  <1>26. known' \subseteq config.seeds \/ setName' # NoName
    BY <1>15, <1>19, <1>20, <1>22, <1>23
  <1>27. \A z \in known' \ config.seeds : (z \in config.foreign) <=> (setName' = OtherName)
    <2> SUFFICES ASSUME NEW z \in known' \ config.seeds
                 PROVE  (z \in config.foreign) <=> (setName' = OtherName)
      OBVIOUS
    <2>1. CASE z \in hosts BY <2>1, <1>8, <1>11, <1>19, <1>20
    <2>2. CASE z \in known
      <3>1. (z \in config.foreign) <=> (setName = OtherName) BY <2>2 DEF TopologySound
      <3>2. setName' = setName BY <2>2, <1>15, <1>22
      <3> QED BY <3>1, <3>2
    <2> QED BY <1>23, <2>1, <2>2
  <1>28. TopologySound'
    <2>1. \A z \in known' \ config'.seeds : (z \in config'.foreign) = (setName' = OtherName)
      BY <1>27
    <2> QED BY <1>1, <1>15, <1>16, <1>17, <1>23, <1>24, <1>25, <1>26, <2>1
            DEF TopologySound, NamedWhenGrown
  <1> QED BY <1>23, <1>28

-----------------------------------------------------------------------------
(* The threads. *)

LEMMA SameTopology ==
  ASSUME TopologySound, UNCHANGED <<config, topology>>
  PROVE  TopologySound'
  BY DEF topology, TopologySound, NamedWhenGrown

\* Every refresh is about servers that are known, and servers are never forgotten.
LEMMA RefreshesStayKnown ==
  ASSUME ThreadsSound, UNCHANGED refresh, known \subseteq known'
  PROVE  RefreshesKnown'
  BY DEF ThreadsSound, RefreshesKnown, refresh

\* A step that leaves the threads' state alone.
LEMMA SameThreads ==
  ASSUME ThreadsSound, UNCHANGED <<role, changes, refresh, monitoring>>,
         known \subseteq known'
  PROVE  ThreadsSound'
  <1>1. RefreshesKnown' BY RefreshesStayKnown
  <1> QED BY <1>1 DEF ThreadsSound, refresh, monitoring

\* A step that begins a refresh.
LEMMA BeginKeeps ==
  ASSUME TopologySound, ThreadsSound, NEW t \in Threads, RefreshBegin(t),
         UNCHANGED <<role, changes, known>>,
         stopMonitoring' \in BOOLEAN, monitoringActive' \in BOOLEAN,
         mon' \in {"none", "top", "refresh", "goes to sleep", "asleep", "woken", "ended"},
         ctl' \in {"new", "discovery", "up", "notify", "join", "stopped"}
  PROVE  ThreadsSound'
  <1>1. /\ todo' = [todo EXCEPT ![t] = known]
        /\ at' = [at EXCEPT ![t] = "ask"]
        /\ UNCHANGED <<asked, reply>>
    BY DEF RefreshBegin
  <1>2. known \subseteq Servers BY DEF TopologySound
  <1>3. todo' \in [Threads -> SUBSET Servers] /\ at' \in [Threads -> {"ask", "apply", "done"}]
    BY <1>1, <1>2 DEF ThreadsSound
  <1>4. RefreshesKnown' BY <1>1, <1>3 DEF ThreadsSound, RefreshesKnown
  <1> QED BY <1>1, <1>3, <1>4 DEF ThreadsSound

LEMMA RefreshKeeps ==
  ASSUME TopologyInv, NEW t \in Threads, Refreshing(t)
  PROVE  TopologyInv'
  <1> USE DEF TopologyInv
  <1>1. CASE Ask(t)
    <2>1. PICK s \in todo[t] :
            /\ todo' = [todo EXCEPT ![t] = @ \ {s}]
            /\ asked' = [asked EXCEPT ![t] = s]
            /\ reply' = [reply EXCEPT ![t] = role[s]]
      BY <1>1 DEF Ask
    <2>2. at' = [at EXCEPT ![t] = "apply"] /\ UNCHANGED <<env, topology, monitoring>>
      BY <1>1 DEF Ask
    <2>3. s \in known /\ s \in Servers BY DEF TopologySound, ThreadsSound, RefreshesKnown
    <2>4. role[s] \in Roles \cup {"down"} BY <2>3 DEF ThreadsSound
    <2>5. /\ todo' \in [Threads -> SUBSET Servers]
          /\ asked' \in [Threads -> Servers \cup {NoServer}]
          /\ reply' \in [Threads -> Roles \cup {"down", NoServer}]
          /\ at' \in [Threads -> {"ask", "apply", "done"}]
      BY <2>1, <2>2, <2>3, <2>4 DEF ThreadsSound
    <2>6. known' = known BY <2>2 DEF topology
    <2>7. RefreshesKnown'
      BY <2>1, <2>2, <2>3, <2>4, <2>5, <2>6 DEF ThreadsSound, RefreshesKnown
    <2>8. ThreadsSound' BY <2>2, <2>5, <2>7 DEF ThreadsSound, env, monitoring
    <2> QED BY <2>2, <2>8, SameTopology DEF env
  <1>2. CASE Apply(t)
    <2>1. /\ at[t] = "apply"
          /\ IF reply[t] = "down"
             THEN markServerUnknown(asked[t], "hello failed")
             ELSE updateServer(asked[t], reply[t])
          /\ asked' = [asked EXCEPT ![t] = NoServer]
          /\ reply' = [reply EXCEPT ![t] = NoServer]
          /\ at' = [at EXCEPT ![t] = "ask"]
          /\ UNCHANGED <<env, todo, monitoring>>
      BY <1>2 DEF Apply
    <2>2. asked[t] \in known /\ reply[t] \in Roles \cup {"down"}
      BY <2>1 DEF ThreadsSound, RefreshesKnown
    <2>3. UNCHANGED config BY <2>1 DEF env
    <2>4. TopologySound' /\ known \subseteq known'
      <3>1. CASE reply[t] = "down" BY <3>1, <2>1, <2>3, MarkKeeps
      <3>2. CASE reply[t] # "down"
        <4>1. reply[t] \in Roles BY <3>2, <2>2
        <4>2. updateServer(asked[t], reply[t]) BY <3>2, <2>1
        <4> QED BY <4>1, <4>2, <2>2, <2>3, UpdateKeeps
      <3> QED BY <3>1, <3>2
    <2>5. /\ asked' \in [Threads -> Servers \cup {NoServer}]
          /\ reply' \in [Threads -> Roles \cup {"down", NoServer}]
          /\ at' \in [Threads -> {"ask", "apply", "done"}]
      BY <2>1 DEF ThreadsSound
    <2>6. RefreshesKnown' BY <2>1, <2>4, <2>5 DEF ThreadsSound, RefreshesKnown
    <2>7. ThreadsSound' BY <2>1, <2>5, <2>6 DEF ThreadsSound, env, monitoring
    <2> QED BY <2>3, <2>4, <2>7
  <1>3. CASE RefreshEnd(t)
    <2>1. /\ at' = [at EXCEPT ![t] = "done"]
          /\ todo' = [todo EXCEPT ![t] = {}]
          /\ UNCHANGED <<env, topology, asked, reply, monitoring>>
      BY <1>3 DEF RefreshEnd
    <2>2. /\ todo' \in [Threads -> SUBSET Servers]
          /\ at' \in [Threads -> {"ask", "apply", "done"}]
      BY <2>1 DEF ThreadsSound
    <2>3. known' = known BY <2>1 DEF topology
    <2>4. RefreshesKnown' BY <2>1, <2>2, <2>3 DEF ThreadsSound, RefreshesKnown
    <2>5. ThreadsSound' BY <2>1, <2>2, <2>4 DEF ThreadsSound, env, monitoring
    <2> QED BY <2>1, <2>5, SameTopology DEF env
  <1> QED BY <1>1, <1>2, <1>3 DEF Refreshing

\* The monitor, the thread that controls it and the servers.
LEMMA MonitoringKeeps ==
  ASSUME TopologyInv, ReplicaSetStep
  PROVE  TopologyInv'
  <1> USE DEF TopologyInv
  <1>1. UNCHANGED <<config, topology>>
    BY DEF ReplicaSetStep, MonitorStep, MainStep, MonitorTop, MonitorLooks, MonitorSleeps,
           MonitorWakes, InitialDiscovery, startMonitoring, StopRequest, StopWakesMonitor,
           StopJoin, Changing, env
  <1>2. TopologySound' /\ config' \in Configs BY <1>1, SameTopology
  <1>3. known' = known BY <1>1 DEF topology
  <1>4. Monitor \in Threads /\ Main \in Threads BY DEF Threads
  <1>5. CASE UNCHANGED <<role, changes, refresh>>
    <2>1. stopMonitoring' \in BOOLEAN /\ monitoringActive' \in BOOLEAN
      BY <1>5 DEF ReplicaSetStep, MonitorStep, MainStep, MonitorTop, MonitorLooks, MonitorSleeps,
           MonitorWakes, InitialDiscovery, startMonitoring, StopRequest, StopWakesMonitor,
           StopJoin, Changing, env, monitoring, ThreadsSound
    <2>2. mon' \in {"none", "top", "refresh", "goes to sleep", "asleep", "woken", "ended"}
      BY <1>5 DEF ReplicaSetStep, MonitorStep, MainStep, MonitorTop, MonitorLooks, MonitorSleeps,
           MonitorWakes, InitialDiscovery, startMonitoring, StopRequest, StopWakesMonitor,
           StopJoin, Changing, env, monitoring, ThreadsSound
    <2>3. ctl' \in {"new", "discovery", "up", "notify", "join", "stopped"}
      BY <1>5 DEF ReplicaSetStep, MonitorStep, MainStep, MonitorTop, MonitorLooks, MonitorSleeps,
           MonitorWakes, InitialDiscovery, startMonitoring, StopRequest, StopWakesMonitor,
           StopJoin, Changing, env, monitoring, ThreadsSound
    <2>4. RefreshesKnown' BY <1>3, <1>5, RefreshesStayKnown
    <2> QED BY <1>2, <1>5, <2>1, <2>2, <2>3, <2>4 DEF ThreadsSound, refresh
  <1>6. CASE InitialDiscovery
    <2>1. ThreadsSound'
      BY <1>3, <1>4, <1>6, BeginKeeps DEF InitialDiscovery, env, ThreadsSound
    <2> QED BY <1>2, <2>1
  <1>7. CASE MonitorTop
    <2>1. CASE stopMonitoring BY <1>5, <1>7, <2>1 DEF MonitorTop, env
    <2>2. CASE ~stopMonitoring
      <3>1. ThreadsSound'
        BY <1>3, <1>4, <1>7, <2>2, BeginKeeps DEF MonitorTop, env, ThreadsSound
      <3> QED BY <1>2, <3>1
    <2> QED BY <2>1, <2>2
  <1>8. ASSUME NEW s \in Servers, Changing(s) PROVE TopologyInv'
    <2>1. PICK r \in (Roles \cup {"down"}) \ {role[s]} : role' = [role EXCEPT ![s] = r]
      BY <1>8 DEF Changing
    <2>2. changes < MaxChanges /\ changes' = changes + 1 /\ UNCHANGED <<refresh, monitoring>>
      BY <1>8 DEF Changing
    <2>3. MaxChanges \in Nat /\ changes \in 0..MaxChanges
      <3>1. MaxChanges \in Nat BY ReplicaSetAssumption
      <3> QED BY <3>1 DEF ThreadsSound
    <2>4. changes' \in 0..MaxChanges BY <2>2, <2>3
    <2>5. role' \in [Servers -> Roles \cup {"down"}] BY <2>1 DEF ThreadsSound
    <2>6. RefreshesKnown' BY <1>3, <2>2, RefreshesStayKnown
    <2> QED BY <1>2, <2>2, <2>4, <2>5, <2>6 DEF ThreadsSound, refresh, monitoring
  <1>9. MonitorLooks \/ MonitorSleeps \/ MonitorWakes \/ startMonitoring \/ StopRequest
        \/ StopWakesMonitor \/ StopJoin => UNCHANGED <<role, changes, refresh>>
    BY DEF MonitorLooks, MonitorSleeps, MonitorWakes, startMonitoring, StopRequest,
           StopWakesMonitor, StopJoin, env
  <1> QED BY <1>5, <1>6, <1>7, <1>8, <1>9 DEF ReplicaSetStep, MonitorStep, MainStep

\* The clients: what they do to the topology is to mark servers, and they refresh.
LEMMA ClientKeeps ==
  ASSUME TopologyInv, NEW c \in Clients, sendRequest(c) \/ ClientStep(c)
  PROVE  TopologyInv'
  <1> USE DEF TopologyInv
  <1>1. UNCHANGED <<env, monitoring>>
    BY DEF sendRequest, ClientStep, Try, Connect, Send, OperationThrows, MarkServerFailed,
           DropConnection, Reselect, Reconnect, WaitLock, WaitCompare, WaitSleep,
           WaitRefreshed, WaitLook, WaitConnect, rsvars
  <1>2. config' = config /\ role' = role /\ changes' = changes BY <1>1 DEF env
  <1>3. \/ UNCHANGED topology
        \/ UNCHANGED refresh /\ markServerUnknown(target[c], "connection failed")
    BY DEF sendRequest, ClientStep, Try, Connect, Send, OperationThrows, MarkServerFailed,
           DropConnection, Reselect, Reconnect, WaitLock, WaitCompare, WaitSleep,
           WaitRefreshed, WaitLook, WaitConnect, rsvars
  <1>4. TopologySound' /\ known' = known
    <2>1. CASE UNCHANGED topology BY <2>1, <1>2, SameTopology DEF topology
    <2>2. CASE markServerUnknown(target[c], "connection failed") BY <2>2, <1>2, MarkKeeps
    <2> QED BY <1>3, <2>1, <2>2
  <1>5. UNCHANGED refresh \/ RefreshBegin(c)
    BY DEF sendRequest, ClientStep, Try, Connect, Send, OperationThrows, MarkServerFailed,
           DropConnection, Reselect, Reconnect, WaitLock, WaitCompare, WaitSleep,
           WaitRefreshed, WaitLook, WaitConnect, rsvars
  <1>6. CASE UNCHANGED refresh BY <1>1, <1>2, <1>4, <1>6, SameThreads
  <1>7. CASE RefreshBegin(c)
    <2>1. c \in Threads BY DEF Threads
    <2> QED BY <1>1, <1>2, <1>4, <1>7, <2>1, BeginKeeps DEF monitoring, ThreadsSound
  <1> QED BY <1>5, <1>6, <1>7

-----------------------------------------------------------------------------
(* The result about ReplicaSetConnection. *)

LEMMA TopologyStep == TopologyInv /\ [ConnNext]_connVars => TopologyInv'
  <1> SUFFICES ASSUME TopologyInv, [ConnNext]_connVars PROVE TopologyInv'
    OBVIOUS
  <1>1. CASE \E c \in Clients : sendRequest(c) \/ ClientStep(c) BY <1>1, ClientKeeps
  <1>2. CASE \E t \in Threads : RefreshStep(t) BY <1>2, RefreshKeeps DEF RefreshStep
  <1>3. CASE ReplicaSetStep BY <1>3, MonitoringKeeps
  <1>4. CASE UNCHANGED connVars
    BY <1>4, SameTopology, SameThreads
       DEF TopologyInv, connVars, rsvars, env, topology
  <1> QED BY <1>1, <1>2, <1>3, <1>4 DEF ConnNext

\* Whatever answers arrive in whatever order, from any number of threads that refresh the
\* topology at once: every description with a role in a replica set carries the name of
\* this set, no server of another set is followed to its hosts, and the topology's type is
\* that of its servers (updateServer(), markServerUnknown(), updateTopologyType()).
THEOREM TopologyHangsTogether == ConnSpec => []TopologyConsistent
  <1>1. ConnSpec => []TopologyInv BY TopologyInit, TopologyStep, PTL DEF ConnSpec
  <1> QED BY <1>1, TopologyInvSuffices, PTL

-----------------------------------------------------------------------------
(* ReplicaSetConnection: the calls. *)

\* Where a client is in waitForServerAvailability().
InWait == {"compare", "sleep", "refresh in wait", "look", "connect in wait"}

\* Where a client is in executeWithRetry().
InCall == {"try", "connect", "send", "refresh in operation", "failed", "refresh", "reselect",
           "reconnect", "lock"} \cup InWait

\* The clients' variables have their types.
CallTypes ==
  /\ place \in [Clients -> InCall \cup {"idle"}]
  /\ mode \in [Clients -> Modes]
  /\ connection \in [Clients -> Servers \cup {NoServer}]
  /\ target \in [Clients -> Servers \cup {NoServer}]
  /\ tried \in [Clients -> SUBSET Servers]
  /\ attempt \in [Clients -> Nat] /\ maxAttempts \in [Clients -> Nat]
  /\ round \in [Clients -> Nat]

\* What the call of client c keeps to: the loop's limit and that of the rounds of a wait,
\* servers of the topology only, and a wait only for the holder of the mutex.
CallSound(c) ==
  /\ attempt[c] <= maxAttempts[c]
  /\ place[c] = "idle" => attempt[c] = 0
  /\ place[c] \notin {"idle", "try"} => attempt[c] < maxAttempts[c]
  /\ connection[c] \in known \cup {NoServer}
  /\ tried[c] \subseteq known
  /\ place[c] \in {"send", "refresh in operation"} => connection[c] # NoServer
  /\ place[c] \in {"connect", "reconnect", "connect in wait"} => target[c] \in known
  /\ place[c] \in InWait <=> retryMutex = c
  /\ round[c] <= serverReconnectRetries
  /\ place[c] = "refresh in wait" => round[c] < serverReconnectRetries

\* The inductive invariant of the calls.
CallInv == TopologyInv /\ CallTypes /\ \A c \in Clients : CallSound(c)

\* A step that does not concern the call of client c.
SameCall(c) ==
  /\ place'[c] = place[c] /\ connection'[c] = connection[c] /\ target'[c] = target[c]
  /\ tried'[c] = tried[c] /\ round'[c] = round[c]
  /\ attempt'[c] = attempt[c] /\ maxAttempts'[c] = maxAttempts[c]
  /\ retryMutex' = c <=> retryMutex = c

LEMMA OtherCallsKeep ==
  ASSUME NEW c, CallSound(c), SameCall(c), known \subseteq known'
  PROVE  CallSound(c)'
  BY DEF CallSound, SameCall

\* Servers are selected from the topology.
LEMMA SelectsKnown ==
  ASSUME NEW m \in Modes
  PROVE  selectServers(m) \subseteq known
  BY RetryAssumption DEF selectServers

\* The constants of the retries.
LEMMA RetryTypes ==
  /\ lowExecuteRetryThreshold \in Nat /\ serverReconnectRetries \in Nat
  /\ NoServer \notin Servers /\ NoServer \notin Clients /\ IsFiniteSet(Servers)
  BY RetryAssumption, ReplicaSetAssumption

LEMMA CallInit == ConnInit => CallInv
  <1> SUFFICES ASSUME ConnInit PROVE CallInv
    OBVIOUS
  <1>1. CallTypes BY DEF ConnInit, CallTypes, InCall
  <1>2. ASSUME NEW c \in Clients PROVE CallSound(c)
    <2>1. c # NoServer BY RetryTypes
    <2> QED BY <2>1, RetryTypes DEF ConnInit, CallSound, InWait
  <1> QED BY <1>1, <1>2, TopologyInit DEF CallInv

\* What a client's step does to the topology.
LEMMA KnownStays ==
  ASSUME TopologyInv, NEW c \in Clients, sendRequest(c) \/ ClientStep(c)
  PROVE  known' = known
  <1>1. UNCHANGED topology \/ markServerUnknown(target[c], "connection failed")
    BY DEF sendRequest, ClientStep, Try, Connect, Send, OperationThrows, MarkServerFailed,
           DropConnection, Reselect, Reconnect, WaitLock, WaitCompare, WaitSleep,
           WaitRefreshed, WaitLook, WaitConnect, rsvars
  <1> QED BY <1>1 DEF topology, markServerUnknown

\* The clients' own steps.
LEMMA OwnCallKeeps ==
  ASSUME CallInv, NEW c \in Clients, sendRequest(c) \/ ClientStep(c)
  PROVE  /\ CallTypes' /\ CallSound(c)'
         /\ \A d \in Clients \ {c} : SameCall(d)
  <1> DEFINE Kept == /\ CallTypes' /\ CallSound(c)'
                     /\ \A d \in Clients \ {c} : SameCall(d)
  <1>a. CallTypes /\ CallSound(c) BY DEF CallInv
  <1>b. known' = known /\ known \subseteq Servers /\ NoServer \notin known
    <2>1. known' = known /\ known \subseteq Servers
      BY KnownStays DEF CallInv, TopologyInv, TopologySound
    <2> QED BY <2>1, RetryTypes
  <1>c. /\ c # NoServer /\ \A d \in Clients : d # NoServer
        /\ serverReconnectRetries \in Nat /\ 0 <= serverReconnectRetries
    BY RetryTypes
  <1>d. mode[c] \in Modes /\ selectServers(mode[c]) \subseteq known
    <2>1. mode[c] \in Modes BY <1>a DEF CallTypes
    <2> QED BY <2>1, SelectsKnown
  <1>e. /\ attempt[c] \in Nat /\ maxAttempts[c] \in Nat /\ round[c] \in Nat
        /\ tried[c] \subseteq Servers
    BY <1>a DEF CallTypes
  <1>f. /\ attempt[c] + 1 \in Nat /\ round[c] + 1 \in Nat
        /\ attempt[c] < maxAttempts[c] => attempt[c] + 1 <= maxAttempts[c]
        /\ round[c] < serverReconnectRetries => round[c] + 1 <= serverReconnectRetries
        /\ ~(round[c] >= serverReconnectRetries) => round[c] < serverReconnectRetries
    BY <1>c, <1>e
  <1>1. CASE sendRequest(c)
    <2>0. Max2(Cardinality(known), lowExecuteRetryThreshold) \in Nat
      <3>1. IsFiniteSet(known) BY <1>b, RetryTypes, FS_Subset
      <3>2. Cardinality(known) \in Nat BY <3>1, FS_CardinalityType
      <3> QED BY <3>2, RetryTypes DEF Max2
    <2>1. CallTypes'
      BY <1>a, <1>b, <1>c, <1>d, <1>e, <2>0, <1>1 DEF sendRequest, Go, call, conns, waits,
         CallTypes, InCall, InWait
    <2>2. CallSound(c)'
      BY <1>a, <1>b, <1>c, <1>d, <1>e, <2>0, <1>1, <2>1
         DEF sendRequest, Go, call, conns, waits, CallTypes, CallSound, InWait
    <2>3. ASSUME NEW d \in Clients \ {c} PROVE SameCall(d)
      BY <1>a, <1>c, <2>0, <1>1
         DEF sendRequest, Go, call, conns, waits, CallTypes, CallSound, InWait, SameCall
    <2> QED BY <2>1, <2>2, <2>3
  <1>2. CASE Try(c)
    <2>0. place[c] = "try" BY <1>2 DEF Try
    <2>1. CASE attempt[c] >= maxAttempts[c]
      <3>1. /\ CallEnds(c)
            /\ UNCHANGED <<conns, waits>>
        BY <1>2, <2>1 DEF Try, call, conns, waits
      <3>2. /\ place'[c] = "idle" /\ attempt'[c] = 0 /\ maxAttempts'[c] = 0
            /\ connection'[c] = connection[c] /\ tried'[c] = {} /\ target'[c] = target[c]
            /\ round'[c] = round[c] /\ retryMutex' = retryMutex
        BY <1>a, <1>b, <3>1 DEF Go, CallTypes, CallEnds, call, conns, waits
      <3>3. CallTypes'
        BY <1>a, <1>b, <1>c, <1>e, <1>f, <2>0, <3>1 DEF Go, CallEnds, call, conns, waits,
           CallTypes, CallSound, InCall, InWait
      <3>4. CallSound(c)'
        BY <1>a, <1>b, <1>c, <1>e, <1>f, <2>1, <2>0, <3>2 DEF CallSound, InWait
      <3>5. ASSUME NEW d \in Clients \ {c} PROVE SameCall(d)
        BY <1>a, <1>c, <2>0, <3>1 DEF Go, CallEnds, call, conns, waits, CallTypes, CallSound,
           InWait, SameCall
      <3> QED BY <3>3, <3>4, <3>5
    <2>2. CASE ~(attempt[c] >= maxAttempts[c]) /\ connection[c] # NoServer
      <3>1. /\ Go(c, "send")
            /\ UNCHANGED <<call, conns, waits>>
        BY <1>2, <2>2 DEF Try, call, conns, waits
      <3>2. /\ place'[c] = "send" /\ attempt'[c] = attempt[c]
            /\ maxAttempts'[c] = maxAttempts[c] /\ connection'[c] = connection[c]
            /\ tried'[c] = tried[c] /\ target'[c] = target[c] /\ round'[c] = round[c]
            /\ retryMutex' = retryMutex
        BY <1>a, <1>b, <3>1 DEF Go, CallTypes, call, conns, waits
      <3>3. CallTypes'
        BY <1>a, <1>b, <1>c, <1>e, <1>f, <2>0, <3>1 DEF Go, call, conns, waits, CallTypes,
           CallSound, InCall, InWait
      <3>4. CallSound(c)'
        BY <1>a, <1>b, <1>c, <1>e, <1>f, <2>2, <2>0, <3>2 DEF CallSound, InWait
      <3>5. ASSUME NEW d \in Clients \ {c} PROVE SameCall(d)
        BY <1>a, <1>c, <2>0, <3>1 DEF Go, call, conns, waits, CallTypes, CallSound, InWait,
           SameCall
      <3> QED BY <3>3, <3>4, <3>5
    <2>3. CASE ~(attempt[c] >= maxAttempts[c]) /\ connection[c] = NoServer /\ place'[c] = "failed"
      <3>1. /\ Go(c, "failed")
            /\ UNCHANGED <<call, conns, waits>>
        BY <1>2, <2>3, <1>a, <2>0 DEF Try, Go, CallTypes, call, conns, waits
      <3>2. /\ place'[c] = "failed" /\ attempt'[c] = attempt[c]
            /\ maxAttempts'[c] = maxAttempts[c] /\ connection'[c] = connection[c]
            /\ tried'[c] = tried[c] /\ target'[c] = target[c] /\ round'[c] = round[c]
            /\ retryMutex' = retryMutex
        BY <1>a, <1>b, <3>1 DEF Go, CallTypes, call, conns, waits
      <3>3. CallTypes'
        BY <1>a, <1>b, <1>c, <1>e, <1>f, <2>0, <3>1 DEF Go, call, conns, waits, CallTypes,
           CallSound, InCall, InWait
      <3>4. CallSound(c)'
        BY <1>a, <1>b, <1>c, <1>e, <1>f, <2>3, <2>0, <3>2 DEF CallSound, InWait
      <3>5. ASSUME NEW d \in Clients \ {c} PROVE SameCall(d)
        BY <1>a, <1>c, <2>0, <3>1 DEF Go, call, conns, waits, CallTypes, CallSound, InWait,
           SameCall
      <3> QED BY <3>3, <3>4, <3>5
    <2>4. CASE ~(attempt[c] >= maxAttempts[c]) /\ connection[c] = NoServer /\ place'[c] # "failed"
      <3>1. /\ Go(c, "connect")
            /\ \E s \in known : target' = [target EXCEPT ![c] = s]
            /\ UNCHANGED <<call, connection, waits>>
        BY <1>2, <2>4, <1>d, <1>a, <2>0 DEF Try, Go, CallTypes, call, conns, waits
      <3>2. /\ place'[c] = "connect" /\ attempt'[c] = attempt[c]
            /\ maxAttempts'[c] = maxAttempts[c] /\ connection'[c] = connection[c]
            /\ tried'[c] = tried[c] /\ round'[c] = round[c] /\ target'[c] \in known
            /\ retryMutex' = retryMutex
        BY <1>a, <1>b, <3>1 DEF Go, CallTypes, call, conns, waits
      <3>3. CallTypes'
        BY <1>a, <1>b, <1>c, <1>e, <1>f, <2>0, <3>1 DEF Go, call, conns, waits, CallTypes,
           CallSound, InCall, InWait
      <3>4. CallSound(c)'
        BY <1>a, <1>b, <1>c, <1>e, <1>f, <2>4, <2>0, <3>2 DEF CallSound, InWait
      <3>5. ASSUME NEW d \in Clients \ {c} PROVE SameCall(d)
        BY <1>a, <1>c, <2>0, <3>1 DEF Go, call, conns, waits, CallTypes, CallSound, InWait,
           SameCall
      <3> QED BY <3>3, <3>4, <3>5
    <2> QED BY <1>2, <2>1, <2>2, <2>3, <2>4
  <1>3. CASE Connect(c)
    <2>0. place[c] = "connect" BY <1>3 DEF Connect
    <2>1. CASE role[target[c]] = "down"
      <3>1. /\ Go(c, "failed")
            /\ target' = [target EXCEPT ![c] = NoServer]
            /\ UNCHANGED <<connection, call, waits>>
        BY <1>3, <2>1 DEF Connect, call, conns, waits
      <3>2. /\ place'[c] = "failed" /\ attempt'[c] = attempt[c]
            /\ maxAttempts'[c] = maxAttempts[c] /\ connection'[c] = connection[c]
            /\ tried'[c] = tried[c] /\ target'[c] = NoServer /\ round'[c] = round[c]
            /\ retryMutex' = retryMutex
        BY <1>a, <1>b, <3>1 DEF Go, CallTypes, call, conns, waits
      <3>3. CallTypes'
        BY <1>a, <1>b, <1>c, <1>e, <1>f, <2>0, <3>1 DEF Go, call, conns, waits, CallTypes,
           CallSound, InCall, InWait
      <3>4. CallSound(c)'
        BY <1>a, <1>b, <1>c, <1>e, <1>f, <2>0, <3>2 DEF CallSound, InWait
      <3>5. ASSUME NEW d \in Clients \ {c} PROVE SameCall(d)
        BY <1>a, <1>c, <2>0, <3>1 DEF Go, call, conns, waits, CallTypes, CallSound, InWait,
           SameCall
      <3> QED BY <3>3, <3>4, <3>5
    <2>2. CASE role[target[c]] # "down"
      <3>1. /\ Go(c, "send")
            /\ target' = [target EXCEPT ![c] = NoServer]
            /\ connection' = [connection EXCEPT ![c] = target[c]]
            /\ UNCHANGED <<call, waits>>
        BY <1>3, <2>2 DEF Connect, call, conns, waits
      <3>2. /\ place'[c] = "send" /\ attempt'[c] = attempt[c]
            /\ maxAttempts'[c] = maxAttempts[c] /\ connection'[c] = target[c]
            /\ tried'[c] = tried[c] /\ target'[c] = NoServer /\ round'[c] = round[c]
            /\ retryMutex' = retryMutex
        BY <1>a, <1>b, <3>1 DEF Go, CallTypes, call, conns, waits
      <3>3. CallTypes'
        BY <1>a, <1>b, <1>c, <1>e, <1>f, <2>0, <3>1 DEF Go, call, conns, waits, CallTypes,
           CallSound, InCall, InWait
      <3>4. CallSound(c)'
        BY <1>a, <1>b, <1>c, <1>e, <1>f, <2>0, <3>2 DEF CallSound, InWait
      <3>5. ASSUME NEW d \in Clients \ {c} PROVE SameCall(d)
        BY <1>a, <1>c, <2>0, <3>1 DEF Go, call, conns, waits, CallTypes, CallSound, InWait,
           SameCall
      <3> QED BY <3>3, <3>4, <3>5
    <2> QED BY <1>3, <2>1, <2>2
  <1>4. CASE Send(c)
    <2>0. place[c] = "send" BY <1>4 DEF Send
    <2>1. CASE Answer(connection[c], mode[c]) = "ok"
      <3>1. /\ CallEnds(c)
            /\ UNCHANGED <<conns, waits>>
        BY <1>4, <2>1 DEF Send, call, conns, waits
      <3>2. /\ place'[c] = "idle" /\ attempt'[c] = 0 /\ maxAttempts'[c] = 0
            /\ connection'[c] = connection[c] /\ tried'[c] = {} /\ target'[c] = target[c]
            /\ round'[c] = round[c] /\ retryMutex' = retryMutex
        BY <1>a, <1>b, <3>1 DEF Go, CallTypes, CallEnds, call, conns, waits
      <3>3. CallTypes'
        BY <1>a, <1>b, <1>c, <1>e, <1>f, <2>0, <3>1 DEF Go, CallEnds, call, conns, waits,
           CallTypes, CallSound, InCall, InWait
      <3>4. CallSound(c)'
        BY <1>a, <1>b, <1>c, <1>e, <1>f, <2>1, <2>0, <3>2 DEF CallSound, InWait
      <3>5. ASSUME NEW d \in Clients \ {c} PROVE SameCall(d)
        BY <1>a, <1>c, <2>0, <3>1 DEF Go, CallEnds, call, conns, waits, CallTypes, CallSound,
           InWait, SameCall
      <3> QED BY <3>3, <3>4, <3>5
    <2>2. CASE Answer(connection[c], mode[c]) = "network error"
      <3>1. /\ Go(c, "failed")
            /\ tried' = [tried EXCEPT ![c] = @ \cup {connection[c]}]
            /\ UNCHANGED <<mode, attempt, maxAttempts, conns, waits>>
        BY <1>4, <2>2 DEF Send, call, conns, waits
      <3>2. /\ place'[c] = "failed" /\ attempt'[c] = attempt[c]
            /\ maxAttempts'[c] = maxAttempts[c] /\ connection'[c] = connection[c]
            /\ tried'[c] = tried[c] \cup {connection[c]} /\ target'[c] = target[c]
            /\ round'[c] = round[c] /\ retryMutex' = retryMutex
        BY <1>a, <1>b, <3>1 DEF Go, CallTypes, call, conns, waits
      <3>3. CallTypes'
        BY <1>a, <1>b, <1>c, <1>e, <1>f, <2>0, <3>1 DEF Go, call, conns, waits, CallTypes,
           CallSound, InCall, InWait
      <3>4. CallSound(c)'
        BY <1>a, <1>b, <1>c, <1>e, <1>f, <2>2, <2>0, <3>2 DEF CallSound, InWait
      <3>5. ASSUME NEW d \in Clients \ {c} PROVE SameCall(d)
        BY <1>a, <1>c, <2>0, <3>1 DEF Go, call, conns, waits, CallTypes, CallSound, InWait,
           SameCall
      <3> QED BY <3>3, <3>4, <3>5
    <2>3. CASE Answer(connection[c], mode[c]) = "retriable"
      <3>1. /\ Go(c, "refresh in operation")
            /\ tried' = [tried EXCEPT ![c] = @ \cup {connection[c]}]
            /\ UNCHANGED <<mode, attempt, maxAttempts, conns, waits>>
        BY <1>4, <2>3 DEF Send, call, conns, waits
      <3>2. /\ place'[c] = "refresh in operation" /\ attempt'[c] = attempt[c]
            /\ maxAttempts'[c] = maxAttempts[c] /\ connection'[c] = connection[c]
            /\ tried'[c] = tried[c] \cup {connection[c]} /\ target'[c] = target[c]
            /\ round'[c] = round[c] /\ retryMutex' = retryMutex
        BY <1>a, <1>b, <3>1 DEF Go, CallTypes, call, conns, waits
      <3>3. CallTypes'
        BY <1>a, <1>b, <1>c, <1>e, <1>f, <2>0, <3>1 DEF Go, call, conns, waits, CallTypes,
           CallSound, InCall, InWait
      <3>4. CallSound(c)'
        BY <1>a, <1>b, <1>c, <1>e, <1>f, <2>3, <2>0, <3>2 DEF CallSound, InWait
      <3>5. ASSUME NEW d \in Clients \ {c} PROVE SameCall(d)
        BY <1>a, <1>c, <2>0, <3>1 DEF Go, call, conns, waits, CallTypes, CallSound, InWait,
           SameCall
      <3> QED BY <3>3, <3>4, <3>5
    <2> QED BY <1>4, <2>1, <2>2, <2>3 DEF Answer
  <1>5. CASE OperationThrows(c)
    <2>1. CallTypes'
      BY <1>a, <1>b, <1>c, <1>d, <1>e, <1>5 DEF OperationThrows, Go, call, conns, waits,
         CallTypes, InCall, InWait
    <2>2. CallSound(c)'
      BY <1>a, <1>b, <1>c, <1>d, <1>e, <1>5, <2>1
         DEF OperationThrows, Go, call, conns, waits, CallTypes, CallSound, InWait
    <2>3. ASSUME NEW d \in Clients \ {c} PROVE SameCall(d)
      BY <1>a, <1>c, <1>5
         DEF OperationThrows, Go, call, conns, waits, CallTypes, CallSound, InWait, SameCall
    <2> QED BY <2>1, <2>2, <2>3
  <1>6. CASE MarkServerFailed(c)
    <2>0. place[c] = "failed" BY <1>6 DEF MarkServerFailed
    <2>1. CASE connection[c] = NoServer
      <3>1. /\ Go(c, "reselect")
            /\ UNCHANGED <<call, conns, waits>>
        BY <1>6, <2>1 DEF MarkServerFailed, call, conns, waits
      <3>2. /\ place'[c] = "reselect" /\ attempt'[c] = attempt[c]
            /\ maxAttempts'[c] = maxAttempts[c] /\ connection'[c] = connection[c]
            /\ tried'[c] = tried[c] /\ target'[c] = target[c] /\ round'[c] = round[c]
            /\ retryMutex' = retryMutex
        BY <1>a, <1>b, <3>1 DEF Go, CallTypes, call, conns, waits
      <3>3. CallTypes'
        BY <1>a, <1>b, <1>c, <1>e, <1>f, <2>0, <3>1 DEF Go, call, conns, waits, CallTypes,
           CallSound, InCall, InWait
      <3>4. CallSound(c)'
        BY <1>a, <1>b, <1>c, <1>e, <1>f, <2>1, <2>0, <3>2 DEF CallSound, InWait
      <3>5. ASSUME NEW d \in Clients \ {c} PROVE SameCall(d)
        BY <1>a, <1>c, <2>0, <3>1 DEF Go, call, conns, waits, CallTypes, CallSound, InWait,
           SameCall
      <3> QED BY <3>3, <3>4, <3>5
    <2>2. CASE connection[c] # NoServer
      <3>1. /\ Go(c, "refresh")
            /\ UNCHANGED <<call, conns, waits>>
        BY <1>6, <2>2 DEF MarkServerFailed, call, conns, waits
      <3>2. /\ place'[c] = "refresh" /\ attempt'[c] = attempt[c]
            /\ maxAttempts'[c] = maxAttempts[c] /\ connection'[c] = connection[c]
            /\ tried'[c] = tried[c] /\ target'[c] = target[c] /\ round'[c] = round[c]
            /\ retryMutex' = retryMutex
        BY <1>a, <1>b, <3>1 DEF Go, CallTypes, call, conns, waits
      <3>3. CallTypes'
        BY <1>a, <1>b, <1>c, <1>e, <1>f, <2>0, <3>1 DEF Go, call, conns, waits, CallTypes,
           CallSound, InCall, InWait
      <3>4. CallSound(c)'
        BY <1>a, <1>b, <1>c, <1>e, <1>f, <2>2, <2>0, <3>2 DEF CallSound, InWait
      <3>5. ASSUME NEW d \in Clients \ {c} PROVE SameCall(d)
        BY <1>a, <1>c, <2>0, <3>1 DEF Go, call, conns, waits, CallTypes, CallSound, InWait,
           SameCall
      <3> QED BY <3>3, <3>4, <3>5
    <2> QED BY <1>6, <2>1, <2>2
  <1>7. CASE DropConnection(c)
    <2>1. CallTypes'
      BY <1>a, <1>b, <1>c, <1>d, <1>e, <1>7 DEF DropConnection, Go, call, conns, waits,
         CallTypes, InCall, InWait
    <2>2. CallSound(c)'
      BY <1>a, <1>b, <1>c, <1>d, <1>e, <1>7, <2>1
         DEF DropConnection, Go, call, conns, waits, CallTypes, CallSound, InWait
    <2>3. ASSUME NEW d \in Clients \ {c} PROVE SameCall(d)
      BY <1>a, <1>c, <1>7
         DEF DropConnection, Go, call, conns, waits, CallTypes, CallSound, InWait, SameCall
    <2> QED BY <2>1, <2>2, <2>3
  <1>8. CASE Reselect(c)
    <2>0. place[c] = "reselect" BY <1>8 DEF Reselect
    <2>1. CASE place'[c] = "lock"
      <3>1. /\ Go(c, "lock")
            /\ UNCHANGED <<call, conns, waits>>
        BY <1>8, <2>1, <1>a, <2>0 DEF Reselect, Go, CallTypes, call, conns, waits
      <3>2. /\ place'[c] = "lock" /\ attempt'[c] = attempt[c]
            /\ maxAttempts'[c] = maxAttempts[c] /\ connection'[c] = connection[c]
            /\ tried'[c] = tried[c] /\ target'[c] = target[c] /\ round'[c] = round[c]
            /\ retryMutex' = retryMutex
        BY <1>a, <1>b, <3>1 DEF Go, CallTypes, call, conns, waits
      <3>3. CallTypes'
        BY <1>a, <1>b, <1>c, <1>e, <1>f, <2>0, <3>1 DEF Go, call, conns, waits, CallTypes,
           CallSound, InCall, InWait
      <3>4. CallSound(c)'
        BY <1>a, <1>b, <1>c, <1>e, <1>f, <2>1, <2>0, <3>2 DEF CallSound, InWait
      <3>5. ASSUME NEW d \in Clients \ {c} PROVE SameCall(d)
        BY <1>a, <1>c, <2>0, <3>1 DEF Go, call, conns, waits, CallTypes, CallSound, InWait,
           SameCall
      <3> QED BY <3>3, <3>4, <3>5
    <2>2. CASE place'[c] # "lock"
      <3>1. /\ Go(c, "reconnect")
            /\ \E s \in known : target' = [target EXCEPT ![c] = s]
            /\ UNCHANGED <<call, connection, waits>>
        BY <1>8, <2>2, <1>d, <1>a, <2>0 DEF Reselect, Go, CallTypes, call, conns, waits
      <3>2. /\ place'[c] = "reconnect" /\ attempt'[c] = attempt[c]
            /\ maxAttempts'[c] = maxAttempts[c] /\ connection'[c] = connection[c]
            /\ tried'[c] = tried[c] /\ round'[c] = round[c] /\ target'[c] \in known
            /\ retryMutex' = retryMutex
        BY <1>a, <1>b, <3>1 DEF Go, CallTypes, call, conns, waits
      <3>3. CallTypes'
        BY <1>a, <1>b, <1>c, <1>e, <1>f, <2>0, <3>1 DEF Go, call, conns, waits, CallTypes,
           CallSound, InCall, InWait
      <3>4. CallSound(c)'
        BY <1>a, <1>b, <1>c, <1>e, <1>f, <2>2, <2>0, <3>2 DEF CallSound, InWait
      <3>5. ASSUME NEW d \in Clients \ {c} PROVE SameCall(d)
        BY <1>a, <1>c, <2>0, <3>1 DEF Go, call, conns, waits, CallTypes, CallSound, InWait,
           SameCall
      <3> QED BY <3>3, <3>4, <3>5
    <2> QED BY <1>8, <2>1, <2>2
  <1>9. CASE Reconnect(c)
    <2>0. place[c] = "reconnect" BY <1>9 DEF Reconnect
    <2>1. CASE role[target[c]] = "down"
      <3>1. /\ CallEnds(c)
            /\ target' = [target EXCEPT ![c] = NoServer]
            /\ UNCHANGED <<connection, waits>>
        BY <1>9, <2>1 DEF Reconnect, call, conns, waits
      <3>2. /\ place'[c] = "idle" /\ attempt'[c] = 0 /\ maxAttempts'[c] = 0
            /\ connection'[c] = connection[c] /\ tried'[c] = {} /\ target'[c] = NoServer
            /\ round'[c] = round[c] /\ retryMutex' = retryMutex
        BY <1>a, <1>b, <3>1 DEF Go, CallTypes, CallEnds, call, conns, waits
      <3>3. CallTypes'
        BY <1>a, <1>b, <1>c, <1>e, <1>f, <2>0, <3>1 DEF Go, CallEnds, call, conns, waits,
           CallTypes, CallSound, InCall, InWait
      <3>4. CallSound(c)'
        BY <1>a, <1>b, <1>c, <1>e, <1>f, <2>0, <3>2 DEF CallSound, InWait
      <3>5. ASSUME NEW d \in Clients \ {c} PROVE SameCall(d)
        BY <1>a, <1>c, <2>0, <3>1 DEF Go, CallEnds, call, conns, waits, CallTypes, CallSound,
           InWait, SameCall
      <3> QED BY <3>3, <3>4, <3>5
    <2>2. CASE role[target[c]] # "down" /\ target[c] \in tried[c]
      <3>1. /\ Go(c, "try")
            /\ target' = [target EXCEPT ![c] = NoServer]
            /\ UNCHANGED <<connection, call, waits>>
        BY <1>9, <2>2 DEF Reconnect, call, conns, waits
      <3>2. /\ place'[c] = "try" /\ attempt'[c] = attempt[c]
            /\ maxAttempts'[c] = maxAttempts[c] /\ connection'[c] = connection[c]
            /\ tried'[c] = tried[c] /\ target'[c] = NoServer /\ round'[c] = round[c]
            /\ retryMutex' = retryMutex
        BY <1>a, <1>b, <3>1 DEF Go, CallTypes, call, conns, waits
      <3>3. CallTypes'
        BY <1>a, <1>b, <1>c, <1>e, <1>f, <2>0, <3>1 DEF Go, call, conns, waits, CallTypes,
           CallSound, InCall, InWait
      <3>4. CallSound(c)'
        BY <1>a, <1>b, <1>c, <1>e, <1>f, <2>0, <3>2 DEF CallSound, InWait
      <3>5. ASSUME NEW d \in Clients \ {c} PROVE SameCall(d)
        BY <1>a, <1>c, <2>0, <3>1 DEF Go, call, conns, waits, CallTypes, CallSound, InWait,
           SameCall
      <3> QED BY <3>3, <3>4, <3>5
    <2>3. CASE role[target[c]] # "down" /\ target[c] \notin tried[c]
      <3>1. /\ Go(c, "try")
            /\ target' = [target EXCEPT ![c] = NoServer]
            /\ connection' = [connection EXCEPT ![c] = target[c]]
            /\ attempt' = [attempt EXCEPT ![c] = attempt[c] + 1]
            /\ UNCHANGED <<mode, tried, maxAttempts, waits>>
        BY <1>9, <2>3 DEF Reconnect, call, conns, waits
      <3>2. /\ place'[c] = "try" /\ attempt'[c] = attempt[c] + 1
            /\ maxAttempts'[c] = maxAttempts[c] /\ connection'[c] = target[c]
            /\ tried'[c] = tried[c] /\ target'[c] = NoServer /\ round'[c] = round[c]
            /\ retryMutex' = retryMutex
        BY <1>a, <1>b, <3>1 DEF Go, CallTypes, call, conns, waits
      <3>3. CallTypes'
        BY <1>a, <1>b, <1>c, <1>e, <1>f, <2>0, <3>1 DEF Go, call, conns, waits, CallTypes,
           CallSound, InCall, InWait
      <3>4. CallSound(c)'
        BY <1>a, <1>b, <1>c, <1>e, <1>f, <2>0, <3>2 DEF CallSound, InWait
      <3>5. ASSUME NEW d \in Clients \ {c} PROVE SameCall(d)
        BY <1>a, <1>c, <2>0, <3>1 DEF Go, call, conns, waits, CallTypes, CallSound, InWait,
           SameCall
      <3> QED BY <3>3, <3>4, <3>5
    <2> QED BY <1>9, <2>1, <2>2, <2>3
  <1>10. CASE WaitLock(c)
    <2>1. CallTypes'
      BY <1>a, <1>b, <1>c, <1>d, <1>e, <1>10 DEF WaitLock, Go, call, conns, waits, CallTypes,
         InCall, InWait
    <2>2. CallSound(c)'
      BY <1>a, <1>b, <1>c, <1>d, <1>e, <1>10, <2>1
         DEF WaitLock, Go, call, conns, waits, CallTypes, CallSound, InWait
    <2>3. ASSUME NEW d \in Clients \ {c} PROVE SameCall(d)
      BY <1>a, <1>c, <1>10
         DEF WaitLock, Go, call, conns, waits, CallTypes, CallSound, InWait, SameCall
    <2> QED BY <2>1, <2>2, <2>3
  <1>11. CASE WaitCompare(c)
    <2>0. place[c] = "compare" BY <1>11 DEF WaitCompare
    <2>1. CASE refreshed[c]
      <3>1. /\ Go(c, "look")
            /\ round' = [round EXCEPT ![c] = serverReconnectRetries]
            /\ UNCHANGED <<call, conns, retryMutex>>
        BY <1>11, <2>1 DEF WaitCompare, call, conns, waits
      <3>2. /\ place'[c] = "look" /\ attempt'[c] = attempt[c]
            /\ maxAttempts'[c] = maxAttempts[c] /\ connection'[c] = connection[c]
            /\ tried'[c] = tried[c] /\ target'[c] = target[c]
            /\ round'[c] = serverReconnectRetries /\ retryMutex' = retryMutex
        BY <1>a, <1>b, <3>1 DEF Go, CallTypes, call, conns, waits
      <3>3. CallTypes'
        BY <1>a, <1>b, <1>c, <1>e, <1>f, <2>0, <3>1 DEF Go, call, conns, waits, CallTypes,
           CallSound, InCall, InWait
      <3>4. CallSound(c)'
        BY <1>a, <1>b, <1>c, <1>e, <1>f, <2>1, <2>0, <3>2 DEF CallSound, InWait
      <3>5. ASSUME NEW d \in Clients \ {c} PROVE SameCall(d)
        BY <1>a, <1>c, <2>0, <3>1 DEF Go, call, conns, waits, CallTypes, CallSound, InWait,
           SameCall
      <3> QED BY <3>3, <3>4, <3>5
    <2>2. CASE ~refreshed[c]
      <3>1. /\ Go(c, "sleep")
            /\ round' = [round EXCEPT ![c] = 0]
            /\ UNCHANGED <<call, conns, retryMutex>>
        BY <1>11, <2>2 DEF WaitCompare, call, conns, waits
      <3>2. /\ place'[c] = "sleep" /\ attempt'[c] = attempt[c]
            /\ maxAttempts'[c] = maxAttempts[c] /\ connection'[c] = connection[c]
            /\ tried'[c] = tried[c] /\ target'[c] = target[c] /\ round'[c] = 0
            /\ retryMutex' = retryMutex
        BY <1>a, <1>b, <3>1 DEF Go, CallTypes, call, conns, waits
      <3>3. CallTypes'
        BY <1>a, <1>b, <1>c, <1>e, <1>f, <2>0, <3>1 DEF Go, call, conns, waits, CallTypes,
           CallSound, InCall, InWait
      <3>4. CallSound(c)'
        BY <1>a, <1>b, <1>c, <1>e, <1>f, <2>2, <2>0, <3>2 DEF CallSound, InWait
      <3>5. ASSUME NEW d \in Clients \ {c} PROVE SameCall(d)
        BY <1>a, <1>c, <2>0, <3>1 DEF Go, call, conns, waits, CallTypes, CallSound, InWait,
           SameCall
      <3> QED BY <3>3, <3>4, <3>5
    <2> QED BY <1>11, <2>1, <2>2
  <1>12. CASE WaitSleep(c)
    <2>0. place[c] = "sleep" BY <1>12 DEF WaitSleep
    <2>1. CASE round[c] >= serverReconnectRetries
      <3>1. /\ CallEnds(c)
            /\ round' = [round EXCEPT ![c] = 0]
            /\ retryMutex' = NoServer
            /\ UNCHANGED conns
        BY <1>12, <2>1 DEF WaitSleep, GiveUp, call, conns, waits
      <3>2. /\ place'[c] = "idle" /\ attempt'[c] = 0 /\ maxAttempts'[c] = 0
            /\ connection'[c] = connection[c] /\ tried'[c] = {} /\ target'[c] = target[c]
            /\ round'[c] = 0 /\ retryMutex' = NoServer
        BY <1>a, <1>b, <3>1 DEF Go, CallTypes, CallEnds, call, conns, waits
      <3>3. CallTypes'
        BY <1>a, <1>b, <1>c, <1>e, <1>f, <2>0, <3>1 DEF Go, CallEnds, call, conns, waits,
           CallTypes, CallSound, InCall, InWait
      <3>4. CallSound(c)'
        BY <1>a, <1>b, <1>c, <1>e, <1>f, <2>1, <2>0, <3>2 DEF CallSound, InWait
      <3>5. ASSUME NEW d \in Clients \ {c} PROVE SameCall(d)
        BY <1>a, <1>c, <2>0, <3>1 DEF Go, CallEnds, call, conns, waits, CallTypes, CallSound,
           InWait, SameCall
      <3> QED BY <3>3, <3>4, <3>5
    <2>2. CASE ~(round[c] >= serverReconnectRetries)
      <3>1. /\ Go(c, "refresh in wait")
            /\ UNCHANGED <<call, conns, waits>>
        BY <1>12, <2>2 DEF WaitSleep, GiveUp, call, conns, waits
      <3>2. /\ place'[c] = "refresh in wait" /\ attempt'[c] = attempt[c]
            /\ maxAttempts'[c] = maxAttempts[c] /\ connection'[c] = connection[c]
            /\ tried'[c] = tried[c] /\ target'[c] = target[c] /\ round'[c] = round[c]
            /\ retryMutex' = retryMutex
        BY <1>a, <1>b, <3>1 DEF Go, CallTypes, call, conns, waits
      <3>3. CallTypes'
        BY <1>a, <1>b, <1>c, <1>e, <1>f, <2>0, <3>1 DEF Go, call, conns, waits, CallTypes,
           CallSound, InCall, InWait
      <3>4. CallSound(c)'
        BY <1>a, <1>b, <1>c, <1>e, <1>f, <2>2, <2>0, <3>2 DEF CallSound, InWait
      <3>5. ASSUME NEW d \in Clients \ {c} PROVE SameCall(d)
        BY <1>a, <1>c, <2>0, <3>1 DEF Go, call, conns, waits, CallTypes, CallSound, InWait,
           SameCall
      <3> QED BY <3>3, <3>4, <3>5
    <2> QED BY <1>12, <2>1, <2>2
  <1>13. CASE WaitRefreshed(c)
    <2>0. place[c] = "refresh in wait" BY <1>13 DEF WaitRefreshed
    <2>1. /\ Go(c, "look")
          /\ round' = [round EXCEPT ![c] = round[c] + 1]
          /\ UNCHANGED <<call, conns, retryMutex>>
      BY <1>13 DEF WaitRefreshed, call, conns, waits
    <2>2. /\ place'[c] = "look" /\ attempt'[c] = attempt[c]
          /\ maxAttempts'[c] = maxAttempts[c] /\ connection'[c] = connection[c]
          /\ tried'[c] = tried[c] /\ target'[c] = target[c] /\ round'[c] = round[c] + 1
          /\ retryMutex' = retryMutex
      BY <1>a, <1>b, <2>1 DEF Go, CallTypes, call, conns, waits
    <2>3. CallTypes'
      BY <1>a, <1>b, <1>c, <1>e, <1>f, <2>0, <2>1 DEF Go, call, conns, waits, CallTypes,
         CallSound, InCall, InWait
    <2>4. CallSound(c)'
      BY <1>a, <1>b, <1>c, <1>e, <1>f, <2>0, <2>2 DEF CallSound, InWait
    <2>5. ASSUME NEW d \in Clients \ {c} PROVE SameCall(d)
      BY <1>a, <1>c, <2>0, <2>1 DEF Go, call, conns, waits, CallTypes, CallSound, InWait, SameCall
    <2> QED BY <2>3, <2>4, <2>5
  <1>14. CASE WaitLook(c)
    <2>0. place[c] = "look" BY <1>14 DEF WaitLook
    <2>1. CASE place'[c] = "sleep"
      <3>1. /\ Go(c, "sleep")
            /\ UNCHANGED <<call, conns, waits>>
        BY <1>14, <2>1, <1>a, <2>0 DEF WaitLook, Go, CallTypes, call, conns, waits
      <3>2. /\ place'[c] = "sleep" /\ attempt'[c] = attempt[c]
            /\ maxAttempts'[c] = maxAttempts[c] /\ connection'[c] = connection[c]
            /\ tried'[c] = tried[c] /\ target'[c] = target[c] /\ round'[c] = round[c]
            /\ retryMutex' = retryMutex
        BY <1>a, <1>b, <3>1 DEF Go, CallTypes, call, conns, waits
      <3>3. CallTypes'
        BY <1>a, <1>b, <1>c, <1>e, <1>f, <2>0, <3>1 DEF Go, call, conns, waits, CallTypes,
           CallSound, InCall, InWait
      <3>4. CallSound(c)'
        BY <1>a, <1>b, <1>c, <1>e, <1>f, <2>1, <2>0, <3>2 DEF CallSound, InWait
      <3>5. ASSUME NEW d \in Clients \ {c} PROVE SameCall(d)
        BY <1>a, <1>c, <2>0, <3>1 DEF Go, call, conns, waits, CallTypes, CallSound, InWait,
           SameCall
      <3> QED BY <3>3, <3>4, <3>5
    <2>2. CASE place'[c] # "sleep"
      <3>1. /\ Go(c, "connect in wait")
            /\ \E s \in known : target' = [target EXCEPT ![c] = s]
            /\ UNCHANGED <<call, connection, waits>>
        BY <1>14, <2>2, <1>d, <1>a, <2>0 DEF WaitLook, Go, CallTypes, call, conns, waits
      <3>2. /\ place'[c] = "connect in wait" /\ attempt'[c] = attempt[c]
            /\ maxAttempts'[c] = maxAttempts[c] /\ connection'[c] = connection[c]
            /\ tried'[c] = tried[c] /\ round'[c] = round[c] /\ target'[c] \in known
            /\ retryMutex' = retryMutex
        BY <1>a, <1>b, <3>1 DEF Go, CallTypes, call, conns, waits
      <3>3. CallTypes'
        BY <1>a, <1>b, <1>c, <1>e, <1>f, <2>0, <3>1 DEF Go, call, conns, waits, CallTypes,
           CallSound, InCall, InWait
      <3>4. CallSound(c)'
        BY <1>a, <1>b, <1>c, <1>e, <1>f, <2>2, <2>0, <3>2 DEF CallSound, InWait
      <3>5. ASSUME NEW d \in Clients \ {c} PROVE SameCall(d)
        BY <1>a, <1>c, <2>0, <3>1 DEF Go, call, conns, waits, CallTypes, CallSound, InWait,
           SameCall
      <3> QED BY <3>3, <3>4, <3>5
    <2> QED BY <1>14, <2>1, <2>2
  <1>15. CASE WaitConnect(c)
    <2>0. place[c] = "connect in wait" BY <1>15 DEF WaitConnect
    <2>1. CASE role[target[c]] = "down"
      <3>1. /\ CallEnds(c)
            /\ target' = [target EXCEPT ![c] = NoServer]
            /\ round' = [round EXCEPT ![c] = 0]
            /\ retryMutex' = NoServer
            /\ UNCHANGED connection
        BY <1>15, <2>1 DEF WaitConnect, GiveUp, call, conns, waits
      <3>2. /\ place'[c] = "idle" /\ attempt'[c] = 0 /\ maxAttempts'[c] = 0
            /\ connection'[c] = connection[c] /\ tried'[c] = {} /\ target'[c] = NoServer
            /\ round'[c] = 0 /\ retryMutex' = NoServer
        BY <1>a, <1>b, <3>1 DEF Go, CallTypes, CallEnds, call, conns, waits
      <3>3. CallTypes'
        BY <1>a, <1>b, <1>c, <1>e, <1>f, <2>0, <3>1 DEF Go, CallEnds, call, conns, waits,
           CallTypes, CallSound, InCall, InWait
      <3>4. CallSound(c)'
        <4>1. connection'[c] \in known' \cup {NoServer} BY <1>a, <1>b, <3>2 DEF CallSound
        <4>2. place'[c] \notin InWait /\ retryMutex' # c BY <1>c, <3>2 DEF InWait
        <4>3. attempt'[c] <= maxAttempts'[c] /\ round'[c] <= serverReconnectRetries BY <1>c, <3>2
        <4> QED BY <3>2, <4>1, <4>2, <4>3 DEF CallSound
      <3>5. ASSUME NEW d \in Clients \ {c} PROVE SameCall(d)
        BY <1>a, <1>c, <2>0, <3>1 DEF Go, CallEnds, call, conns, waits, CallTypes, CallSound,
           InWait, SameCall
      <3> QED BY <3>3, <3>4, <3>5
    <2>2. CASE role[target[c]] # "down"
      <3>1. /\ Go(c, "try")
            /\ target' = [target EXCEPT ![c] = NoServer]
            /\ connection' = [connection EXCEPT ![c] = target[c]]
            /\ tried' = [tried EXCEPT ![c] = {}]
            /\ attempt' = [attempt EXCEPT ![c] = attempt[c] + 1]
            /\ round' = [round EXCEPT ![c] = 0]
            /\ retryMutex' = NoServer
            /\ UNCHANGED <<mode, maxAttempts>>
        BY <1>15, <2>2 DEF WaitConnect, GiveUp, call, conns, waits
      <3>2. /\ place'[c] = "try" /\ attempt'[c] = attempt[c] + 1
            /\ maxAttempts'[c] = maxAttempts[c] /\ connection'[c] = target[c]
            /\ tried'[c] = {} /\ target'[c] = NoServer /\ round'[c] = 0
            /\ retryMutex' = NoServer
        BY <1>a, <1>b, <3>1 DEF Go, CallTypes, call, conns, waits
      <3>3. CallTypes'
        BY <1>a, <1>b, <1>c, <1>e, <1>f, <2>0, <3>1 DEF Go, call, conns, waits, CallTypes,
           CallSound, InCall, InWait
      <3>4. CallSound(c)'
        BY <1>a, <1>b, <1>c, <1>e, <1>f, <2>0, <3>2 DEF CallSound, InWait
      <3>5. ASSUME NEW d \in Clients \ {c} PROVE SameCall(d)
        BY <1>a, <1>c, <2>0, <3>1 DEF Go, call, conns, waits, CallTypes, CallSound, InWait,
           SameCall
      <3> QED BY <3>3, <3>4, <3>5
    <2> QED BY <1>15, <2>1, <2>2
  <1> QED
    BY <1>1, <1>2, <1>3, <1>4, <1>5, <1>6, <1>7, <1>8, <1>9, <1>10, <1>11, <1>12, <1>13,
       <1>14, <1>15 DEF ClientStep

\* Every other step leaves the calls alone, but for what they know of refreshes.
LEMMA CallStep == CallInv /\ [ConnNext]_connVars => CallInv'
  <1> SUFFICES ASSUME CallInv, [ConnNext]_connVars PROVE CallInv'
    OBVIOUS
  <1>1. TopologyInv' BY TopologyStep DEF CallInv
  <1>2. ASSUME NEW c \in Clients, sendRequest(c) \/ ClientStep(c)
        PROVE  CallTypes' /\ \A d \in Clients : CallSound(d)'
    <2>1. /\ CallTypes' /\ CallSound(c)'
          /\ \A d \in Clients \ {c} : SameCall(d)
      BY <1>2, OwnCallKeeps
    <2>2. known \subseteq known' BY <1>2, KnownStays DEF CallInv
    <2>3. ASSUME NEW d \in Clients \ {c} PROVE CallSound(d)'
      BY <2>1, <2>2, OtherCallsKeep DEF CallInv
    <2> QED BY <2>1, <2>3
  <1>3. ASSUME known \subseteq known', UNCHANGED <<place, call, conns, round, retryMutex>>
        PROVE  CallTypes' /\ \A d \in Clients : CallSound(d)'
    <2>1. CallTypes' BY <1>3 DEF CallInv, CallTypes, call, conns
    <2>2. ASSUME NEW d \in Clients PROVE CallSound(d)'
      <3>1. SameCall(d) BY <1>3 DEF SameCall, call, conns
      <3> QED BY <1>3, <3>1, OtherCallsKeep DEF CallInv
    <2> QED BY <2>1, <2>2
  <1>4. ASSUME NEW t \in Threads, RefreshStep(t)
        PROVE  CallTypes' /\ \A d \in Clients : CallSound(d)'
    <2>1. known \subseteq known'
      <3>1. Ask(t) \/ RefreshEnd(t) => known' = known BY DEF Ask, RefreshEnd, topology
      <3>2. Apply(t) => known \subseteq known'
        BY DEF Apply, markServerUnknown, updateServer, topology
      <3> QED BY <1>4, <3>1, <3>2 DEF RefreshStep, Refreshing
    <2> QED BY <1>3, <1>4, <2>1 DEF RefreshStep
  <1>5. CASE ReplicaSetStep /\ UNCHANGED <<place, call, conns, waits>>
    <2>1. known' = known
      BY <1>5 DEF ReplicaSetStep, MonitorStep, MainStep, MonitorTop, MonitorLooks, MonitorSleeps,
           MonitorWakes, InitialDiscovery, startMonitoring, StopRequest, StopWakesMonitor,
           StopJoin, Changing, topology
    <2> QED BY <1>1, <1>3, <1>5, <2>1 DEF CallInv, waits
  <1>6. CASE UNCHANGED connVars
    BY <1>1, <1>3, <1>6 DEF CallInv, connVars, rsvars, topology, waits
  <1> QED BY <1>1, <1>2, <1>4, <1>5, <1>6 DEF ConnNext, CallInv

\* What a caller of sendRequest() relies on.
CallsLimited ==
  /\ \A c \in Clients :
       /\ place[c] \notin {"idle", "try"} => attempt[c] < maxAttempts[c]
       /\ place[c] \in {"connect", "reconnect", "connect in wait"} => target[c] \in known
       /\ place[c] = "refresh in wait" => round[c] < serverReconnectRetries
  /\ \A c, d \in Clients : place[c] \in InWait /\ place[d] \in InWait => c = d

\* However many clients fail over at once: no attempt is begun past the limit fixed when
\* the call began, clients connect only to servers of the topology, also to one selected
\* before others changed it, and one at a time refreshes in waitForServerAvailability(),
\* serverReconnectRetries times at most.
THEOREM CallsKeepToTheirLimits == ConnSpec => []CallsLimited
  <1>1. CallInv => CallsLimited BY DEF CallInv, CallSound, CallsLimited
  <1> QED BY <1>1, CallInit, CallStep, PTL DEF ConnSpec

=============================================================================
