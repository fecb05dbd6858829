------------------------------- MODULE Parts --------------------------------
(***************************************************************************)
(* Five small components side by side: a behaviour is one of whichever     *)
(* component "part" names; the others stay in their initial state.         *)
(***************************************************************************)
EXTENDS Naturals, Sequences, FiniteSets

CONSTANTS
  None,
  Chosen,                                            \* the components to look at
  Objects, Borrowers, capacity, peakCapacity,        \* ObjectPool
  Sessions, Users, minSessions, maxSessions,         \* SessionPool
  Loggers, PerLogger, queueSize, CanThrow,           \* AsyncChannel
  Controllers, MaxStarts,                            \* Activity
  KindOf, Clients, Uses, Removers, Notifiers, CtlFails, MaxAdds  \* SocketReactor

VARIABLES
  part,
  pool, size, lent, bpc, waitQueue, signalled, lost, spent,
  hasDefault, idleSessions, activeSessions, nSessions, shutDown, isOpen, isGood, own, upc, using,
  janitor, spc, late, bugchecks,
  closed, queue, wokeUp, dropCount, worker, inHand, lpc, count, cpc, written, owed, threw,
  restarted,
  stopped, running, done, run, starts, wpc, startOverlapped,
  handler, list, events, adds, disabled, epoll, socketMap, kpc, arg, mine, mode, dead, rpc, event,
  target, batch, calling, gone

ASSUME ConstantsAssumption ==
  /\ capacity \in Nat /\ peakCapacity \in Nat
  /\ minSessions \in Nat /\ maxSessions \in Nat
  /\ MaxStarts \in Nat
  /\ None \notin Objects \cup Sessions \cup Loggers \cup Notifiers

Pool == INSTANCE ObjectPool

SPool == INSTANCE SessionPool

Async == INSTANCE AsyncChannel WITH NoMessage <- None

Act == INSTANCE Activity WITH overlapped <- startOverlapped

Reactor == INSTANCE SocketReactor

ofPool == <<pool, size, lent, bpc, waitQueue, signalled, lost, spent>>
ofSPool == <<hasDefault, idleSessions, activeSessions, nSessions, shutDown, isOpen, isGood, own,
             upc, using, janitor, spc, late, bugchecks>>
ofAsync == <<closed, queue, wokeUp, dropCount, worker, inHand, lpc, count, cpc, written, owed,
             threw, restarted>>
ofAct == <<stopped, running, done, run, starts, wpc, startOverlapped>>
ofReactor == <<handler, list, events, adds, disabled, epoll, socketMap, kpc, arg, mine, mode,
               dead, rpc, event, target, batch, calling, gone>>
vars == <<part, ofPool, ofSPool, ofAsync, ofAct, ofReactor>>

Init ==
  /\ part \in Chosen
  /\ Pool!Init /\ SPool!Init /\ Async!Init /\ Act!Init /\ Reactor!Init
  /\ part # "SessionPool" => hasDefault

PoolNext ==
  part = "ObjectPool" /\ Pool!Next /\ UNCHANGED <<part, ofSPool, ofAsync, ofAct, ofReactor>>
SPoolNext ==
  part = "SessionPool" /\ SPool!Next /\ UNCHANGED <<part, ofPool, ofAsync, ofAct, ofReactor>>
Aside == UNCHANGED <<part, ofPool, ofSPool, ofAct, ofReactor>>
AsyncNext == part = "AsyncChannel" /\ Async!Next /\ Aside
ActNext ==
  part = "Activity" /\ Act!Next /\ UNCHANGED <<part, ofPool, ofSPool, ofAsync, ofReactor>>
ReactorNext ==
  part = "SocketReactor" /\ Reactor!Next /\ UNCHANGED <<part, ofPool, ofSPool, ofAsync, ofAct>>

Next == PoolNext \/ SPoolNext \/ AsyncNext \/ ActNext \/ ReactorNext

\* A thread inside log() or close(), and the background thread, go on.
Fairness ==
  /\ \A l \in Loggers : WF_vars(part = "AsyncChannel" /\ Async!LogStep(l) /\ Aside)
  /\ WF_vars(part = "AsyncChannel" /\ Async!WorkerStep /\ Aside)
  /\ WF_vars(part = "AsyncChannel" /\ Async!CloseStep /\ Aside)

Spec == Init /\ [][Next]_vars

FairSpec == Spec /\ Fairness

\* ObjectPool: who has which object, and what _size counts.
PoolAccounts == part = "ObjectPool" => Pool!PoolAccounts

\* ObjectPool: nobody sleeps next to an object, unless a signal was spent.
SignalsReach == part = "ObjectPool" => Pool!SignalsReach

\* SessionPool: _nSessions, exclusive use, settings, what is open after shutdown().
SessionsAccounted == part = "SessionPool" => SPool!SessionsAccounted

\* AsyncChannel: close() returns after what was logged before it is written, unless
\* the attached channel has thrown.
CloseFlushes == part = "AsyncChannel" => Async!CloseFlushes

\* AsyncChannel: close() returns, unless the attached channel has thrown or the thread
\* was started between close()'s look at it and its join.
CloseReturns ==
  (part = "AsyncChannel" /\ cpc # "open") ~> (cpc = "closed" \/ threw \/ restarted)

\* Activity: _running is true unless a start() overlapped an end.
RunningIsTrue == part = "Activity" => Act!RunningIsTrue

\* SocketReactor: a removed observer is not called.
NoLateCall == Reactor!NoLateCall

\* SocketReactor: what is registered is polled for.  The code does not keep it.
RegisteredIsPolled == Reactor!RegisteredIsPolled

=============================================================================
