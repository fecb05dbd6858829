------------------------------ MODULE TCPServer ------------------------------
(***************************************************************************)
(* Poco::Net::TCPServer and TCPServerDispatcher: an acceptor thread puts   *)
(* connections into a NotificationQueue; threads of a ThreadPool that is   *)
(* shared with others serve them, wait for more, and leave when there is   *)
(* nothing to do and they are not the last one.                            *)
(*                                                                         *)
(* The queue is used through its contract, DeliveryContract: what a put    *)
(* does to waiting threads is the queue's business.  The pool is reduced   *)
(* to its capacity; other users take and return threads at any time.       *)
(*                                                                         *)
(* The dispatcher's mutex is a variable: the acceptor and stop() hold it   *)
(* over several steps, while threads use the queue without it.             *)
(***************************************************************************)
EXTENDS Integers, Sequences, FiniteSets

CONSTANTS
  Workers,      \* the threads of the pool
  Connections,
  Stops,        \* StopNotifications
  MaxThreads, MaxQueued,
  MaxOthers,    \* how many threads other users of the pool hold at most
  None

ASSUME ConstantsAssumption ==
  /\ MaxThreads \in Nat \ {0}
  /\ MaxQueued \in Nat \ {0}
  /\ MaxOthers \in Nat
  /\ IsFiniteSet(Workers)
  /\ Connections \cap Stops = {}
  /\ None \notin Connections \cup Stops
  /\ None \notin {"accept", "stop"}

VARIABLES
  pending, given, delivered, \* the NotificationQueue
  waiting,        \* threads in its waitDequeueNotification(), not given anything
  mutex,          \* who holds the dispatcher's mutex: None, "accept" or "stop"
  rc,             \* reference count
  currentThreads, currentConnections,
  stopped,        \* the dispatcher's _stopped
  pc,             \* pc[w]: where a thread of the pool is in run()
  pNf,            \* pNf[w]: the notification it got
  others,         \* threads held by other users of the pool
  apc,            \* where the acceptor is
  socket,         \* the connection it has accepted
  serverStopped,  \* the server's _stopped
  spc,            \* where the thread that stops and destroys the server is
  stopsLeft,      \* stop notifications still to be enqueued
  state,          \* state[k], history: what became of connection k
  startFailed     \* history: the pool has refused to start a thread

Q == INSTANCE DeliveryContract WITH Consumers <- Workers, Items <- Connections \cup Stops

queue == <<pending, given, delivered, waiting>>
dispatcher == <<mutex, rc, currentThreads, currentConnections, stopped>>
server == <<apc, socket, serverStopped, spc, stopsLeft>>
vars == <<queue, dispatcher, pc, pNf, others, server, state, startFailed>>

Running == {w \in Workers : pc[w] # "pool"}

TypeOK ==
  /\ pending \in Seq(Connections \cup Stops)
  /\ given \in [Workers -> Connections \cup Stops \cup {None}]
  /\ waiting \subseteq Workers
  /\ mutex \in {None, "accept", "stop"}
  /\ rc \in Nat
  /\ currentThreads \in 0..MaxThreads
  /\ currentConnections \in Nat
  /\ stopped \in BOOLEAN /\ serverStopped \in BOOLEAN
  /\ pc \in [Workers -> {"pool", "top", "wait", "got", "begin", "serve", "check", "leave"}]
  /\ pNf \in [Workers -> Connections \cup Stops \cup {None}]
  /\ others \in 0..MaxOthers
  /\ apc \in {"poll", "accepted", "put", "start", "ended"}
  /\ socket \in Connections \cup {None}
  /\ spc \in {"up", "join", "stop", "notify", "release", "destroyed"}
  /\ stopsLeft \subseteq Stops
  /\ state \in [Connections -> {"new", "accepted", "serving", "served", "refused", "dropped"}]
  /\ startFailed \in BOOLEAN

Init ==
  /\ Q!Init /\ waiting = {}
  /\ mutex = None /\ rc = 1
  /\ currentThreads = 0 /\ currentConnections = 0 /\ stopped = FALSE
  /\ pc = [w \in Workers |-> "pool"]
  /\ pNf = [w \in Workers |-> None]
  /\ others = 0
  /\ apc = "poll" /\ socket = None
  /\ serverStopped = FALSE /\ spc = "up" /\ stopsLeft = {}
  /\ state = [k \in Connections |-> "new"]
  /\ startFailed = FALSE

-----------------------------------------------------------------------------
(* The acceptor: TCPServer::run() and TCPServerDispatcher::enqueue(). *)

\* The queue hands a notification to a waiting thread, if there is one.
enqueueNotification(n) ==
  \/ /\ waiting = {}
     /\ Q!Put(n)
     /\ UNCHANGED waiting
  \/ \E w \in waiting :
        /\ Q!Give(w, n)
        /\ waiting' = waiting \ {w}

Accept(k) ==
  /\ apc = "poll"
  /\ ~serverStopped
  /\ state[k] = "new"
  /\ state' = [state EXCEPT ![k] = "accepted"]
  /\ socket' = k
  /\ apc' = "accepted"
  /\ UNCHANGED <<queue, dispatcher, pc, pNf, others, serverStopped, spc, stopsLeft, startFailed>>

AcceptorEnds ==
  /\ apc = "poll"
  /\ serverStopped
  /\ apc' = "ended"
  /\ UNCHANGED <<queue, dispatcher, pc, pNf, others, socket, serverStopped, spc, stopsLeft,
                 state, startFailed>>

\* enqueue() takes the mutex; a connection is refused if the queue is full.
EnqueueLock ==
  /\ apc = "accepted"
  /\ mutex = None
  /\ IF Len(pending) < MaxQueued
     THEN /\ mutex' = "accept"
          /\ apc' = "put"
          /\ UNCHANGED <<state, socket>>
     ELSE /\ state' = [state EXCEPT ![socket] = "refused"]
          /\ socket' = None
          /\ apc' = "poll"
          /\ UNCHANGED mutex
  /\ UNCHANGED <<queue, rc, currentThreads, currentConnections, stopped, pc, pNf, others,
                 serverStopped, spc, stopsLeft, startFailed>>

EnqueuePut ==
  /\ apc = "put"
  /\ enqueueNotification(socket)
  /\ apc' = "start"
  /\ UNCHANGED <<dispatcher, pc, pNf, others, socket, serverStopped, spc, stopsLeft, state,
                 startFailed>>

EnqueueDone ==
  /\ mutex' = None
  /\ apc' = "poll" /\ socket' = None
  /\ UNCHANGED <<queue, currentConnections, stopped, pNf, others, serverStopped, spc,
                 stopsLeft, state>>

\* Nobody waits for the next connection, and there may be another thread.
NeedsThread == waiting = {} /\ currentThreads < MaxThreads

PoolHasThread == Cardinality(Running) + others < Cardinality(Workers)

EnqueueNoStart ==
  /\ apc = "start"
  /\ ~NeedsThread
  /\ UNCHANGED <<rc, currentThreads, pc, startFailed>>
  /\ EnqueueDone

\* Bug: the new thread does not hold a reference to the dispatcher.
StartWithoutReference ==
  /\ apc = "start"
  /\ NeedsThread
  /\ PoolHasThread
  /\ \E w \in Workers \ Running : pc' = [pc EXCEPT ![w] = "top"]
  /\ currentThreads' = currentThreads + 1
  /\ UNCHANGED <<rc, startFailed>>
  /\ EnqueueDone

\* The thread may run at once, but needs the mutex before it can look at the counts.
EnqueueStart ==
  /\ apc = "start"
  /\ NeedsThread
  /\ PoolHasThread
  /\ \E w \in Workers \ Running : pc' = [pc EXCEPT ![w] = "top"]
  /\ currentThreads' = currentThreads + 1
  /\ rc' = rc + 1
  /\ UNCHANGED startFailed
  /\ EnqueueDone

\* "no problem here, connection is already queued"
EnqueueStartFails ==
  /\ apc = "start"
  /\ NeedsThread
  /\ ~PoolHasThread
  /\ startFailed' = TRUE
  /\ UNCHANGED <<rc, currentThreads, pc>>
  /\ EnqueueDone

-----------------------------------------------------------------------------
(* Connection threads: TCPServerDispatcher::run(). *)

Move(w, from, to) == pc[w] = from /\ pc' = [pc EXCEPT ![w] = to]

\* waitDequeueNotification(idleTime): something is pending ...
TakePending(w) ==
  /\ Move(w, "top", "got")
  /\ Q!Take
  /\ pNf' = [pNf EXCEPT ![w] = Head(pending)]
  /\ UNCHANGED <<waiting, dispatcher, others, server, state, startFailed>>

\* ... or nothing is ...
Wait(w) ==
  /\ Move(w, "top", "wait")
  /\ pending = <<>>
  /\ waiting' = waiting \cup {w}
  /\ UNCHANGED <<pending, given, delivered, dispatcher, pNf, others, server, state, startFailed>>

\* ... until the thread is given something ...
Receive(w) ==
  /\ Move(w, "wait", "got")
  /\ Q!Receive(w)
  /\ pNf' = [pNf EXCEPT ![w] = given[w]]
  /\ UNCHANGED <<waiting, dispatcher, others, server, state, startFailed>>

\* ... or has waited for idleTime.
IdleTimeout(w) ==
  /\ w \in waiting
  /\ Move(w, "wait", "check")
  /\ waiting' = waiting \ {w}
  /\ UNCHANGED <<pending, given, delivered, dispatcher, pNf, others, server, state, startFailed>>

\* The factory makes a connection object, or throws or returns null: the
\* connection is closed then.  A stop notification is only a reason to wake up.
CreateConnection(w) ==
  /\ pc[w] = "got"
  /\ \/ /\ pNf[w] \in Connections
        /\ pc' = [pc EXCEPT ![w] = "begin"]
        /\ UNCHANGED <<pNf, state>>
     \/ /\ pNf[w] \in Connections
        /\ state' = [state EXCEPT ![pNf[w]] = "dropped"]
        /\ pNf' = [pNf EXCEPT ![w] = None]
        /\ pc' = [pc EXCEPT ![w] = "check"]
     \/ /\ pNf[w] \in Stops
        /\ pNf' = [pNf EXCEPT ![w] = None]
        /\ pc' = [pc EXCEPT ![w] = "check"]
        /\ UNCHANGED state
  /\ UNCHANGED <<queue, dispatcher, others, server, startFailed>>

beginConnection(w) ==
  /\ Move(w, "begin", "serve")
  /\ mutex = None
  /\ currentConnections' = currentConnections + 1
  /\ state' = [state EXCEPT ![pNf[w]] = "serving"]
  /\ UNCHANGED <<queue, mutex, rc, currentThreads, stopped, pNf, others, server, startFailed>>

\* The connection has been served; start() lets no exception through.
endConnection(w) ==
  /\ Move(w, "serve", "check")
  /\ currentConnections' = currentConnections - 1
  /\ state' = [state EXCEPT ![pNf[w]] = "served"]
  /\ pNf' = [pNf EXCEPT ![w] = None]
  /\ UNCHANGED <<queue, mutex, rc, currentThreads, stopped, others, server, startFailed>>

\* Bug: a thread leaves after one connection.
MayLeaveAlways == TRUE

MayLeave == stopped \/ (currentThreads > 1 /\ pending = <<>>)

\* With the mutex: go on, or leave ...
CheckLeave(w) ==
  /\ pc[w] = "check"
  /\ mutex = None
  /\ IF MayLeave
     THEN /\ currentThreads' = currentThreads - 1
          /\ pc' = [pc EXCEPT ![w] = "leave"]
     ELSE /\ pc' = [pc EXCEPT ![w] = "top"]
          /\ UNCHANGED currentThreads
  /\ UNCHANGED <<queue, mutex, rc, currentConnections, stopped, pNf, others, server, state,
                 startFailed>>

\* ... releasing the reference that enqueue() took.
Leave(w) ==
  /\ Move(w, "leave", "pool")
  /\ rc' = rc - 1
  /\ UNCHANGED <<queue, mutex, currentThreads, currentConnections, stopped, pNf, others,
                 server, state, startFailed>>

-----------------------------------------------------------------------------
(* Stopping: TCPServer::stop(), ~TCPServer(), TCPServerDispatcher::stop(). *)

stop ==
  /\ spc = "up"
  /\ serverStopped' = TRUE
  /\ spc' = "join"
  /\ UNCHANGED <<queue, dispatcher, pc, pNf, others, apc, socket, stopsLeft, state, startFailed>>

JoinAcceptor ==
  /\ spc = "join"
  /\ apc = "ended"
  /\ spc' = "stop"
  /\ UNCHANGED <<queue, dispatcher, pc, pNf, others, apc, socket, serverStopped, stopsLeft,
                 state, startFailed>>

\* Bug: nobody is woken up.
StopWithoutNotify ==
  /\ spc = "stop"
  /\ mutex = None
  /\ mutex' = "stop"
  /\ stopped' = TRUE
  /\ Q!DiscardAll
  /\ state' = [k \in Connections |->
                 IF \E i \in 1..Len(pending) : pending[i] = k THEN "dropped" ELSE state[k]]
  /\ stopsLeft' = {}
  /\ spc' = "notify"
  /\ UNCHANGED <<waiting, rc, currentThreads, currentConnections, pc, pNf, others, apc,
                 socket, serverStopped, startFailed>>

\* With the mutex: connections in the queue are dropped, and as many stop
\* notifications are to be sent as the pool has threads.
StopDispatcher ==
  /\ spc = "stop"
  /\ mutex = None
  /\ mutex' = "stop"
  /\ stopped' = TRUE
  /\ Q!DiscardAll
  /\ state' = [k \in Connections |->
                 IF \E i \in 1..Len(pending) : pending[i] = k THEN "dropped" ELSE state[k]]
  /\ \E S \in SUBSET Stops :
        /\ Cardinality(S) \in (Cardinality(Running) + others)..Cardinality(Workers)
        /\ stopsLeft' = S
  /\ spc' = "notify"
  /\ UNCHANGED <<waiting, rc, currentThreads, currentConnections, pc, pNf, others, apc,
                 socket, serverStopped, startFailed>>

StopNotify(n) ==
  /\ spc = "notify"
  /\ n \in stopsLeft
  /\ enqueueNotification(n)
  /\ stopsLeft' = stopsLeft \ {n}
  /\ UNCHANGED <<dispatcher, pc, pNf, others, apc, socket, serverStopped, spc, state, startFailed>>

StopReturns ==
  /\ spc = "notify"
  /\ stopsLeft = {}
  /\ mutex' = None
  /\ spc' = "release"
  /\ UNCHANGED <<queue, rc, currentThreads, currentConnections, stopped, pc, pNf, others, apc,
                 socket, serverStopped, stopsLeft, state, startFailed>>

release ==
  /\ spc = "release"
  /\ rc' = rc - 1
  /\ spc' = "destroyed"
  /\ UNCHANGED <<queue, mutex, currentThreads, currentConnections, stopped, pc, pNf, others,
                 apc, socket, serverStopped, stopsLeft, state, startFailed>>

\* Other users of the pool.
OthersTake ==
  /\ others < MaxOthers /\ PoolHasThread
  /\ others' = others + 1
  /\ UNCHANGED <<queue, dispatcher, pc, pNf, server, state, startFailed>>

OthersReturn ==
  /\ others > 0
  /\ others' = others - 1
  /\ UNCHANGED <<queue, dispatcher, pc, pNf, server, state, startFailed>>

-----------------------------------------------------------------------------
Acceptor == AcceptorEnds \/ EnqueueLock \/ EnqueuePut \/ EnqueueNoStart \/ EnqueueStart \/ EnqueueStartFails

Worker(w) ==
  \/ TakePending(w)
  \/ Wait(w)
  \/ Receive(w)
  \/ CreateConnection(w)
  \/ beginConnection(w)
  \/ endConnection(w)
  \/ CheckLeave(w)
  \/ Leave(w)

Stopping == JoinAcceptor \/ StopDispatcher \/ (\E n \in Stops : StopNotify(n)) \/ StopReturns \/ release

Next ==
  \/ \E k \in Connections : Accept(k)
  \/ Acceptor
  \/ \E w \in Workers : Worker(w) \/ IdleTimeout(w)
  \/ stop
  \/ Stopping
  \/ OthersTake
  \/ OthersReturn

Spec == Init /\ [][Next]_vars

\* Threads keep running (connections come to an end) and get the mutex, which the
\* acceptor takes once for each connection and stop() once.  Nobody has to connect,
\* to stop or to time out; other users of the pool return its threads.
FairSpec ==
  /\ Spec
  /\ WF_vars(Acceptor)
  /\ \A w \in Workers : WF_vars(Worker(w))
  /\ WF_vars(Stopping)
  /\ WF_vars(OthersReturn)

-----------------------------------------------------------------------------
(* Properties. *)

\* The dispatcher is deleted exactly when the server has released it and the last
\* thread in run() has left, however stop(), enqueue() and leaving threads overlap.
RcCounts == rc = Cardinality(Running) + (IF spc = "destroyed" THEN 0 ELSE 1)

\* A queued connection always has a thread that will come back for it, unless the
\* pool refused to start one: threads leave only when the queue is empty, and the
\* last one stays.
NotStranded ==
  /\ mutex = None
  /\ \E i \in 1..Len(pending) : pending[i] \in Connections
  /\ ~startFailed
  => currentThreads > 0

\* Every accepted connection is served, refused, or dropped by stop() or by the
\* factory.  "no problem here, connection is already queued and a new thread might
\* be available later."
AcceptedIsServed ==
  \A k \in Connections : state[k] = "accepted" ~> state[k] \in {"served", "refused", "dropped"}

\* The same, unless the pool has once refused to start a thread: no connection is
\* overlooked by threads that go idle, time out and leave while it is being queued.
ServedUnlessNoThread ==
  \A k \in Connections :
    state[k] = "accepted" ~> state[k] \in {"served", "refused", "dropped"} \/ startFailed

\* After stop() all threads leave, and the dispatcher is deleted in the end.
StopDrains == spc # "up" ~> Running = {} /\ rc = 0

=============================================================================
