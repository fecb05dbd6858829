# TLA+ models of POCO's concurrency core

POCO is a set of C++ libraries. What is hard to test in them is the code that
hands work from one thread to another, or lets several threads share what one of
them looks after: notification queues, thread pools, timers, the TCP server's
dispatcher, the task manager, object and session pools, the logging thread, the
socket reactor, and the MongoDB client that follows a replica set. This directory
models that code in TLA+, checks it with TLC and proves most of its safety
properties with TLAPS for any number of threads, tasks, objects and messages.
`PROJECT.json` maps every definition to the lines it models and lists the runs, the
mutants, the hazards and the theorems.

To run a model: `tlc -config MCThreading.cfg MCThreading`. To check the
proofs of a component: `tlapm ThreadPoolProofs.tla`.

## 1. Inventory

| Component | State | Operations | What makes it hard |
|---|---|---|---|
| `NotificationQueue` | `_nfQueue`, `_waitQueue` of `WaitInfo*`, `_wokeUp`, one `Event` per waiter | enqueue (normal, urgent), dequeue, wait with and without timeout, `wakeUpAll`, `clear`, `remove`, `dispatch` | the waiter sleeps outside the mutex and is handed its notification past the queue; a timeout races with the hand-over |
| `TimedNotificationQueue` | multimap by clock value, one `Event` | enqueue, three ways to dequeue, `clear` | the consumer keeps an iterator over an unlock and a sleep |
| `ThreadPool`, `PooledThread` | `_threads`, capacity, age; per thread `_idle`, `_pTarget`, two Events | `start`, `joinAll`, `stopAll`, `collect`, `addCapacity` | a thread is handed out under one mutex and started under another; joins under the pool's mutex; joins that time out |
| `ActiveThreadPool` | lists of all, waiting and expired threads, priority queue, `activeThreads` | `start`, `joinAll`, the thread loop | a wait that times out while the thread is recycled; joining outside the mutex |
| `Util::Timer` | a `TimedNotificationQueue`, tasks' cancel flags | `schedule`…, `cancel`, `TimerTask::cancel`, destructor | a purge that counts entries once and removes them one by one |
| `Timer` | callback, interval, two Events | `start`, `stop`, `restart`, `setPeriodicInterval` | `stop()` gives up the mutex before it waits |
| `TCPServer`, `TCPServerDispatcher` | queue of connections, thread and reference counts | accept, `enqueue`, `run`, `stop`, destructor | a thread leaves while a connection comes in; the pool is shared; self-deletion |
| `TaskManager`, `Task` | `_taskList`; atomics `_state`, `_pOwner` | `start`, `cancel`, `cancelAll`, `taskFinished`, `reset` | atomics read and written without a common lock |
| MongoDB `ReplicaSet`, `TopologyDescription` | topology, configuration, monitor thread and its stop flag | discovery, monitoring, refresh, selection by mode | several threads ask servers and apply the answers later; servers change and fail meanwhile |
| MongoDB `ReplicaSetConnection` | the connection, the servers tried, attempts | `sendRequest` with retry and failover | retries against a topology that others change; waiting for a server |
| `ObjectPool`, `Condition` | pool, `_size`, waiting borrowers | `borrowObject`, `returnObject` | a signal races with a timeout; activation and creation fail |
| Data `SessionPool` | idle and active sessions, `_nSessions`, `_shutdown` | `get`, `putBack`, janitor, `shutdown` | `_shutdown` is read before the mutex is taken; connections die |
| `AsyncChannel` | a `NotificationQueue`, its thread, `_closed`, `_dropCount` | `log`, `open`, `close`, `run` | `log` and `close` share no lock |
| `Activity` | `_stopped`, `_running`, `_done` | `start`, `stop`, `wait`, `run` | three flags written by different threads in different orders |
| `SocketReactor`, `SocketNotifier`, `NotificationCenter`, `PollSet` | handlers by socket, observers, polled modes | add, remove, dispatch | three structures with three locks, and a thread that works on copies |

They interact by calls: `Util::Timer` owns a `TimedNotificationQueue` and is its
only consumer; `TCPServerDispatcher` owns a `NotificationQueue` and takes threads
from a `ThreadPool` it shares with others; `TaskManager` runs its tasks in a
`ThreadPool`; `AsyncChannel` owns a `NotificationQueue` and is its only consumer;
`ReplicaSetConnection` reads, refreshes and marks servers in the topology that
`ReplicaSet`'s monitor keeps. All sleeping is done on `Event` (POSIX: mutex, condition variable
and flag) or on `Condition` (a list of Events).

The other parts of the repository are listed in `PROJECT.json` with the reason
they are not modelled: parsers, encoders and formatters (sequential, well reached
by unit tests), adapters of cryptographic libraries and databases (their state
is not in the repository), operating-system calls, vendored code, and classes that
repeat the scheme of a modelled one.

## 2. Modules

| Module | Models | Built on |
|---|---|---|
| `DeliveryContract` | abstract: what a queue promises (in order, once, past the queue only when nothing is pending) | |
| `NotificationQueue` | `NotificationQueue.cpp`, the waits of `Event_POSIX.cpp` | refines `DeliveryContract` |
| `NotificationQueueProofs` | theorems about the former, with its refinement | |
| `TimedDelivery` | abstract: what the timed queue promises its one consumer | |
| `TimedNotificationQueue` | `TimedNotificationQueue.cpp` | refines `TimedDelivery` |
| `TimedNotificationQueueProofs` | theorems about the former, with its refinement | |
| `ThreadPool` | `ThreadPool.cpp` | |
| `ThreadPoolProofs` | theorems about the former | |
| `ActiveThreadPool` | `ActiveThreadPool.cpp`, `Condition::tryWait` | |
| `ActiveThreadPoolProofs` | theorems about the former | |
| `Timer` | `Foundation/src/Timer.cpp` | |
| `UtilTimer` | `Util/src/Timer.cpp`, `TimerTask.cpp` | uses `TimedDelivery` as its queue |
| `TimersProofs` | theorems about the two timers | extends `Timer` and `UtilTimer` |
| `TCPServer` | `TCPServer.cpp`, `TCPServerDispatcher.cpp` | uses `DeliveryContract` as its queue |
| `TaskManager` | `TaskManager.cpp`, `Task.cpp` | |
| `TaskManagerProofs` | theorems about the former | |
| `ReplicaSet` | `ReplicaSet.cpp`, `TopologyDescription.cpp`, `ServerDescription.cpp`, `ReadPreference.cpp` | |
| `ReplicaSetConnection` | `ReplicaSetConnection.cpp`, `ReplicaSet::waitForServerAvailability` | extends `ReplicaSet` |
| `NetworkProofs` | theorems about `TCPServer` and `ReplicaSetConnection` | extends both |
| `ObjectPool` | `ObjectPool.h`, `Condition` | |
| `SessionPool` | `SessionPool.cpp`, `PooledSessionImpl::close` | |
| `AsyncChannel` | `AsyncChannel.cpp`, its one consumer's view of `NotificationQueue.cpp` | |
| `Activity` | `Activity.h` | |
| `SocketReactor` | `SocketReactor.cpp`, `SocketNotifier.cpp`, `NotificationCenter.cpp`, the epoll `PollSet.cpp` | |
| `Parts` | `ObjectPool` to `SocketReactor` side by side | instances of them |
| `PartsProofs` | theorems about these five | extends `Parts` |
| `MCThreading` | for TLC: `NotificationQueue`, `ThreadPool` | extends both |
| `MCServers` | for TLC: `ActiveThreadPool`, `TCPServer` | extends both |
| `MCTimers` | for TLC: `UtilTimer`, `Timer` | extends both |
| `MCClients` | for TLC: `TimedNotificationQueue`, `TaskManager`, `ReplicaSetConnection` | extends the three |
| `MCReplicaSet` | the replica sets of the runs | extends `ReplicaSetConnection` |
| `MCParts` | for TLC: `Parts` | extends it |

A run takes several components that have nothing to do with one another. Its
behaviours are those of the one that `part` names, chosen in the initial state, while
the others keep their initial states, so that the state space is the sum, and not the
product, of theirs. The properties are those of the components' modules; they say
nothing of a component that has not moved. Fairness is required of the component that
runs only: an action of another one, enabled for ever and never taken, would otherwise
leave no fair behaviour. So that modules can be extended together (by an `MC...` module, or
by one with proofs), specifications, their parts and their variables have names of their
own: `PoolSpec`, `ActiveSpec`, `TaskSpec`, `TimerSpec` and `ConnSpec` are those of
`ThreadPool`, `ActiveThreadPool`, `TaskManager`, `Timer` and `ReplicaSetConnection`.

Three modules compose. A `TCPServer` step that queues or takes a connection is a
step of `DeliveryContract`, and a `UtilTimer` step one of `TimedDelivery`; both
abstract modules are what the concrete queues are shown to implement, so these
compositions stand on checked contracts instead of on a second copy of the queue.
`ReplicaSetConnection` adds the clients to the threads of `ReplicaSet`: every step
is one of the monitor's, the servers', the controlling thread's or a client's, on
one shared topology.

Conventions. A critical section of a mutex is one action, unless it waits inside
(`ThreadPool::joinAll`, `TaskManager::cancelAll`, `TCPServerDispatcher::enqueue`
and `stop`): then the mutex is a variable. What a thread does outside a mutex is
one action per visible access. `pc`-like variables say where a thread is; history
variables, marked as such, record what the properties speak of and are read by no
guard of an action. Definitions whose comment begins with "A defect" or "Bug" are
the mutated forms named in `PROJECT.json`; no specification uses them.

## 3. Correspondence with the code

**NotificationQueue.** A `WaitInfo` is named by its thread, which waits for one at
a time. `waitDequeueNotification` covers both overloads up to the unlock
(`dequeueOne` or `Register`); `EventWait` is the entry of the wait, `EventWake` and
`EventTimeOut` its two ends, `TimedOut` the second critical section, which unlinks
the `WaitInfo` if it is still there and returns what it holds. `EventTimeOut` is
enabled although the Event is set, because `EventImpl::waitImpl` returns on
`ETIMEDOUT` without another look at the flag. `clear` empties the queue in one
critical section; `dispatch` takes off the first notifications, all of them or those
up to the one whose observer throws.

**TimedNotificationQueue.** One consumer, as the class demands. `Peek` copies the
iterator under the mutex, `Decide` compares its time with the clock after the
unlock, `WaitSignalled` and `WaitTimesOut` are `wait()`, with the cut at
`MAX_SLEEP` and the rounding to milliseconds; `dequeueOne` erases the iterator's
entry, by its position as `std::multimap::erase(it)` does. The clock is a variable that
advances between any two steps. `TimedDelivery` keeps the entries in the order in which
they are due and remembers which of them the consumer looked at.

**ThreadPool.** `Lock` gives a client the pool's mutex; `stage` says what it does
with it. `housekeep` chooses the threads to release, `release`/`ReleaseWait` are
`PooledThread::release` with a `tryJoin` that may time out and leak the object.
`_threads` is a set: its order decides only which idle thread is picked.

**ActiveThreadPool.** One action per critical section. `Assign` includes the
failure of `Thread::start()`, after which `activeThreads`, `_target` and the lists
stay as they are in the code. `Relock` is the part of `run()` after the wait.

**Timer.** Time is relative to `_nextInvocation` and runs in units, `PerMs` of which
make a millisecond. `Past` is the test of the loop over missed invocations, whose
division by 1000 cuts towards zero; every turn of that loop is a step (`SkipMissed`),
between which time goes on, and `FallAsleep` is its end. `Woken`/`TimesOut` are the two
results of `tryWait`, `Reread` and `AfterCallback` the two ways the interval is read
again.

**UtilTimer.** A task is identified with the notification that carries it.
`CancelExecute` reads the size, `Purge` removes one entry, `PurgeEnds` sets the
Event. Times after the bound are `Never`.

**TCPServer.** The mutex is held by the acceptor from `EnqueueLock` to
`EnqueueDone`, and by `stop()` from `StopDispatcher` to `StopReturns`. The pool is
its number of free threads; `OthersTake` and `OthersReturn` are its other users.

**TaskManager.** `_taskList` is a bag, as `start()` can push a task twice. Every
load, store or exchange of `_state` and `_pOwner` is a step. Observers of the started,
finished and cancelled notifications may throw (`RunObserverThrows`,
`CancelObserverThrows`). `kept` counts the entries that threads have left in the list.

**ReplicaSet.** A refresh (`RefreshBegin`, `Ask`, `Apply`, `RefreshEnd`) copies the
known servers under the mutex, asks one after the other, and applies each answer
under the mutex. The server answers in `Ask`, so that an answer can be old when it
is applied. `updateServer`, `Classify` and `selectServers` are the pure parts:
what an answer does to the topology, which type the topology then has, which
servers a mode allows. Servers belong to this set or to another, change roles, go
down and come back (`Changing`). The monitor's look at the stop flag, its sleep
and its waking are steps of their own, because `stopMonitoring()` notifies without
the mutex they use. Where `findPrimary` takes the first primary in the order of
addresses, the model takes any: it has no such order, and allows more.

**ReplicaSetConnection.** One action per stretch of `executeWithRetry` between two
accesses to what others share: select, connect, send, and after a failure mark the
server, drop the connection, select again, or wait in
`waitForServerAvailability` with its rounds of refreshing. A failed connect and
`markServerUnknown()` are one step: what another thread does in between, marking or
refreshing that server, it can also do before. `Sick` are servers that
answer a hello and fail every request.

**ObjectPool.** Borrowers wait in `Condition`'s queue, from which `dequeue` takes the
Event of a borrower that gave up, if no signal has; `TimeOut` may take effect before
or after a signal. Activation, creation and validation succeed or fail by free
choice. `spent` counts the signals that reached nobody who could use them.

**SessionPool.** `Get`, `PutBack` and `Janitor` are the looks at `_shutdown`, the
actions ending in `Locked` the critical sections. A setting is one bit that a user
may change, `hasDefault` says whether the pool has a value of its own for it.

**AsyncChannel.** The steps of `logImpl` are those between its accesses to `_closed`,
the queue, `_dropCount` and the thread; `close` likewise. `tryJoin()` is two steps, the
test of the thread's done event (`CloseTriesJoin`) and `pthread_join()` on whatever
thread there is then (`ClosePthreadJoin`). An attached channel that throws ends the
thread (`WriteThrows`). `owed` are the messages whose `log()` had returned when
`close()` was called.

**Activity.** `start` has stored `_running` when the pool accepts (`StartRuns`) or
refuses (`StartFails`); `WaitDone`, `WaitClears` and `RunClears`, `RunSetsDone` are
the two pairs of accesses another thread can come between.

**SocketReactor.** One socket. What the calls change is in five places, each with its
own lock: `handler` (`_handlers`), `list` and `events` (the notifier's observers and
its multiset `_events`), `epoll` (the kernel's) and `socketMap` (the poll set's). Every
access to one of them is a step, but the three calls of `accepts()` are one, and so are
`hasObserver()` and `countObservers()` in `removeEventHandler()`. `epoll_ctl()` fails
when the socket is, or is not, there already, and for any other reason if `CtlFails`;
the exception ends the call, except in `remove()`, which ignores it. A notifier that is
dropped and one that is created later are different, an observer's clones too.
`DispatchHas` to `Notify` follow the reactor's thread from the poll to the calls it
makes on its copy; a poll returns one event, since the events of one poll are
dispatched one after the other.

## 4. Runs

| Run | Component and bounds | Shows |
|---|---|---|
| `threading` | `NotificationQueue`: 3 consumers, 2 notifications | no notification is lost or doubled (`ExactlyOnce`); nobody sleeps who has something to wake up for, a late worker after `wakeUpAll` included (`NoLostWakeup`); refinement (`ImplementsContract`); woken and timed calls return (`WaitReturns`) |
| | `ThreadPool`: 2 clients, 3 thread objects, 2 targets, capacity 1 to 2, housekeeping at every 2nd start | a handed-out thread is nobody else's (`HandOutExclusive`); `joinAll` waits for what was started (`JoinAllWaits`); calls return (`CallsReturn`); only `stopAll` drops a target (`QueuedRuns`) |
| `servers` | `ActiveThreadPool`: 2 callers of `joinAll`, 2 thread objects, 3 targets, capacity 2, one priority, failing starts | no queued target without a thread that will look (`NobodyStranded`); `activeThreads` is exact, failed starts included (`ActiveThreadsCounts`); `joinAll` waits (`JoinAllWaits`), and returns unless a start failed (`JoinAllReturns`) |
| | `TCPServer`: 3 connections, 2 threads, 1 of them possibly held by others, queue of 1 | the reference count is exact (`RcCounts`); queued connections have a thread (`NotStranded`) and are served unless the pool refused one (`ServedUnlessNoThread`); after `stop` all leave (`StopDrains`) |
| `timers` | `UtilTimer`: a single and a fixed-rate task, 2 `cancel`s, destructor, clock to 1 | how much a purge can miss (`PaidPurge`); a cancelled task runs again only if its run had begun to begin (`CancelStopsTask`); callers of `cancel(true)` are released (`CancelCompletes`); the destructor can join (`StopObeyed`) |
| | `Timer`: 2 controllers, period of 2 ms, 2 clock units a millisecond, callbacks up to 10 units late | the callback outlives its thread (`CallbackAlive`); the skipped invocations are those that are past by a millisecond or more (`SkipsWhatPassed`); `stop` returns unless disturbed (`StopReturns`) |
| `clients` | `TimedNotificationQueue`: 2 notifications, times to 3, clock to 5, 2 ticks a millisecond, sleeps of at most 2 ticks, timeouts -1, 0, 2 | the iterator stays valid (`IteratorValid`); no sleep past a notification (`NoOversleep`); refinement (`ImplementsTimedDelivery`: never early, never another entry); waits return (`WaitReturns`) |
| | `TaskManager`: 1 task, 2 starting threads and 1 cancelling | a cancelled task runs only if `start()` overwrote the cancellation (`CancelledRunsOnlyIfOverwritten`); the list has one entry for each thread that has the task in hand, and one is left behind only if an observer threw or two `start()`s overlapped (`ListIsInFlight`) |
| | `ReplicaSetConnection`: 2 servers of this or another set, one change of roles, 1 client, 2 attempts, 1 round of waiting | the topology hangs together whatever answers come in which order (`TopologyConsistent`); with monitoring on it becomes what the servers are (`Converges`); requests end and `stopMonitoring()` returns (`CallsReturn`) |
| `parts` | `ObjectPool`: 3 borrowers, capacity 1, peak 2; `SessionPool`: 2 users, 1 to 2 sessions; `AsyncChannel`: 2 loggers, 2 messages each, a queue of 1, a channel that may throw; `Activity`: 2 threads, 3 starts; `SocketReactor`: 2 clients, a read observer of one and a write observer of both, 2 calls of `addEventHandler`, any number of removals by one, failing `epoll_ctl` | objects and sessions are accounted for (`PoolAccounts`, `SessionsAccounted`); no borrower sleeps next to an object (`SignalsReach`); when `close()` returns everything is written unless the channel threw (`CloseFlushes`), and it returns unless that happened or a late `log()` started the thread as it was joined (`CloseReturns`); the flag tells the truth (`RunningIsTrue`); no call begins for an observer whose removal has returned (`NoLateCall`) |
| `ut_overtaken` | `UtilTimer`: 2 single tasks, 1 `cancel`, clock to 1 | **violated**: a task that was pending when `cancel(true)` was called survives it, because one scheduled meanwhile was removed in its place (`CancelPurges`) |
| `tcp_pool_full` | `TCPServer`: 1 connection, 1 thread, 1 other user | **violated**: a connection accepted while the pool is exhausted is never served, although the pool is free later (`AcceptedIsServed`) |
| `task_two_starts` | `TaskManager`: 1 task, 2 starting threads | **violated**: a finished task stays in the list (`FinishedIsReleased`) |
| `task_late_cancel` | `TaskManager`: 1 task, 1 starting and 1 cancelling thread | **violated**: a task runs although its `cancel()` has returned before its thread looked at it (`CancelledNeverRuns`) |
| `mongo_sick` | `ReplicaSetConnection`: as above, one server that fails every request | **violated**: `sendRequest()` neither returns nor throws (`RetriesEnd`) |
| `reactor_two_clients` | `SocketReactor`: 2 clients with an observer each, `epoll_ctl` works | **violated**: an observer that was added is not polled for (`RegisteredIsPolled`) |
| `async_late_log` | `AsyncChannel`: 2 loggers, 1 message each, a channel that does not throw | **violated**: `close()` does not return (`CloseStops`) |

The bounds are the smallest at which each race has its actors and one bystander:
with three consumers one can have been handed a notification, one be timing out
and one be linked; with a third `PooledThread` the pool goes on after a join that
timed out; a third connection finds all threads busy; with three borrowers one
holds an object, one is signalled and one times out; one change of the servers is
enough for an answer to be old when it is applied. Periodic tasks are not in the
`timers` run: they differ from fixed-rate ones in the time that is computed, and the
clock is cut off at 1. Two clock units a millisecond are enough for an invocation to be
past by less than one; `MaxLate` is more than two periods, so that several invocations
are skipped at once. With two starting threads one `start()` can be refused while the
other's task runs. The reactor's clients interleave at every access; two calls of
`addEventHandler()` (`MaxAdds`) are what it takes for one to come in the way of the other.
`Chosen` says which of the parts a run looks at. Each property of a passing run is also
broken by a mutant under the same bounds, so the bounds do reach the cases it is about.

TLC's symmetry sets are not used, since all passing runs check liveness. Three `MC...`
modules take one of several equivalent orders instead (`InOrder`, `TargetsInOrder`,
`ConnectionsInOrder`): targets, connections and calls of `cancel()` are
interchangeable and leave their state "new" once, so that every behaviour becomes one in
which they do so in order when they are renamed, and every property is the same for all
of them. `MCThreading` fixes which of the thread objects the pool starts with, for the
same reason. Deadlock is checked except where the system ends (`UtilTimer`, `TCPServer`),
where every thread may stop calling (`MCParts`, `AsyncChannel`), where it can really hang
(`ActiveThreadPool`, after a thread could not be started), and in the two violated runs of
`TaskManager`.

## 5. Fairness

Only steps of threads that are inside the libraries are fair; no client has to call
anything, and no producer has to produce.

* `NotificationQueue`: weak fairness of each consumer inside a wait. A linked,
  untimed consumer has no step until it is woken, so nothing is assumed of it.
* `ThreadPool`: weak fairness of the mutex's owner, of each started thread and of
  `PooledThread_start`. This includes that targets return; that is what the
  documentation of `joinAll` presumes. Targets do not call their own pool: one that
  did would wait for the mutex `joinAll` holds.
* `ActiveThreadPool`: weak fairness of threads, of signalled waits and of
  `joinAll` steps. The expiry timeout need never fire.
* `TimedNotificationQueue`, `UtilTimer`, `Timer`: weak fairness of the thread and of
  the clock; callbacks and tasks return.
* `TCPServer`: weak fairness of acceptor, threads and `stop`; connections end; other
  users of the pool return their threads. Idle timeouts need not happen.
* `ReplicaSetConnection`: weak fairness of each thread inside the library (a client in
  `sendRequest()`, a refresh, the monitor, the controlling thread inside the
  constructor and `stopMonitoring()`); sockets have timeouts, so that a hello and a
  request end. Servers need not change, and nobody need stop monitoring.
* `AsyncChannel` (in `parts` and `async_late_log`): weak fairness of threads inside
  `log()` and `close()` and of the background thread; the attached channel returns or
  throws.
* `TaskManager` and the other parts: safety only.

## 6. Proofs

Every theorem is `Spec => []Inv`, `Spec => [][A]_vars` or `Spec =>` an abstract
specification, for all values of the constants that satisfy the named assumptions of
the module (`ConstantsAssumption`, `ActiveAssumption`, `TaskAssumption`,
`TimerAssumption`, `ReplicaSetAssumption`, `RetryAssumption`), which TLC evaluates on the instances of
the runs. Finiteness is assumed only of what the code itself
counts or keeps in one table (the pool's threads of `TCPServer`, the starting threads of
`TaskManager`, the servers of `ReplicaSet`). Each module proves one inductive invariant per component, usually called
`IInv`, step by step for the actions, and reads the theorems off it. The invariants were
checked with TLC before they were proved; they and the type invariants are not among the
invariants of the runs, which are for what the code could get wrong, while `IInv` holds
the proof's bookkeeping.

`TimersProofs` and `NetworkProofs` are about two components each, which have nothing to do
with one another.

| Module | Theorems | What the invariant adds |
|---|---|---|
| `NotificationQueueProofs` | `DeliveredExactlyOnce`, `WakeupSafety`, `WaitInfoSafety`, `Refinement`, `TypeCorrect`, `Invariance` | a filled slot has its Event set; nobody is linked while something is queued |
| `TimedNotificationQueueProofs` | `IteratorStaysValid`, `NeverOversleeps`, `StaysOrdered`, `Refinement`, `TypeCorrect` | the map is ordered; what is left of a sleep is what is left until its entry is due |
| `ThreadPoolProofs` | `HandOutIsExclusive`, `JoinAllHasWaited`, `AcceptedStayInPool`, `TypeCorrect` | every thread has one of a few states, and each goes with who owns it, what it is to run and which Events are set |
| `ActiveThreadPoolProofs` | `CountIsExact`, `QueuedIsAttended`, `JoinAllHasWaited`, `TypeCorrect`, `Inductive` | who is on which list; every task is queued, with one thread, or done; a queue with tasks has an active thread |
| `TimersProofs`: Timer | `CallbackStaysAlive`, `SkippedIsWhatPassed`, `TimerTypeCorrect` | one token between the thread, `_done` and the `stop()` that took it; when the next invocation is due |
| `TimersProofs`: Util::Timer | `PurgeIsPaid`, `CancelledTaskStops`, `NothingAwaitedIsLost`, `QueueUsedAsAllowed`, `UtilTimerTypeCorrect` | how long the queue can be while a purge counts down; where each task still to be removed is |
| `NetworkProofs`: TCPServer | `ReferencesCount`, `ConnectionsNotStranded`, `TCPTypeCorrect` | each count is the number of threads at known places of `run()`; who holds the mutex |
| `NetworkProofs`: ReplicaSetConnection | `TopologyHangsTogether`, `CallsKeepToTheirLimits` | refreshes are about known servers; a topology that has grown has a name; who is in the wait |
| `TaskManagerProofs` | `CancelledDoesNotRun`, `ListHoldsWhatIsInFlight`, `TypeCorrect`, `Inductive` | a task is listed at most once per starting thread; a cancelled task no longer looks startable; whose entry each one is |
| `PartsProofs` | `ObjectsAccountedFor`, `NobodySleepsNextToAnObject`, `SessionsAreAccountedFor`, `ClosedIsFlushed`, `ActivityInStep`, `RemovedIsNotCalled` | see below |

**NotificationQueue.** `ExactlyOnce` is not inductive. A hand-over needs to know that the
slot it writes is empty, which follows from `SlotsMatchEvents` (a filled slot has its
Event set, and a linked waiter's Event is not set); the timeout path needs to know that
a `WaitInfo` in `_waitQueue` is there once and its thread still waits
(`NoDanglingWaitInfo`); and the refinement needs that nobody is linked while something
is queued (`WaitersMeanEmptyQueue`), or a hand-over would overtake the queue. The lemmas
say what the deque operations do to a sequence without repetition.

**TimedNotificationQueue.** `IteratorValid` and `NoOversleep` are inductive only together
with the order of the map and with `Timing`: what is left of a sleep is what was left
until the entry is due when the consumer last read the clock, and it goes to take an
entry only when that is due. The lemmas say entry by entry what `insert` and `erase` do to
the ordered map; the refinement to `TimedDelivery` rests on them and on `Timing` at the
step that erases.

**ThreadPool.** `HandOutExclusive` needs `Owned` (the mutex has one owner, at the stage of
its call), `HandedOut` (a thread handed out waits for one client) and `Resting` (an idle
thread of the pool sleeps, and nothing will wake it).
`JoinAllWaits` needs `Assigned` and `RunByOne` (an accepted target is with one thread),
`InPool` (that thread is in the pool) and `Joining`: what is left of the list `joinAll`
goes through contains the thread of every target it still has to wait for.

**ActiveThreadPool.** `Counts` says which threads `activeThreads` counts, failed starts
included; `Lists` how the three lists relate to where threads are; `Copies` that a thread
taken out of the pool belongs to one `joinAll()`; `Tracked` where each task is; and
`Attended` that a queue with tasks has an active thread. The greatest priority exists
because a C++ `int` is bounded, which is an assumption on `Priorities`.

**Timer.** The callback is deleted by `stop()` after `_done`; `OneToken` says that one token
goes round between the thread, the Event `_done` and the `stop()` that took it, and that
whoever holds it knows that the callback is there, whatever calls overlap.
`SkipsWhatPassed` is an action property: `DueInStep` says that the time left is what the
invocations skipped so far, counted from the last one, leave of it; a lemma says that a
time cut to whole milliseconds is negative exactly when a millisecond or more is missing.

**Util::Timer.** `PaidPurge` says what a purge leaves, but the purge counts entries, not tasks.
`PurgeSuffices` is the link: while it counts down, the queue is no longer than what is left
to count, plus what has come in since and the stop notification, so at the end only these
can be left. `Tracked` keeps the tasks that a `cancel()` has to remove in the queue, or, if
they repeat, with the thread that executes one and will enqueue it again; `Called`
and `Executes` say which notification is where. `CancelStopsTask` needs `RunsOnceMore`: a
cancelled task that is about to run was cancelled after the look at its flag and has not
run since. `StopKept` and `WaitersKept` are the safety half of `StopObeyed` and
`CancelCompletes`: what a destructor or a caller of `cancel(true)` waits for cannot be
lost, not even when a purge takes it out. `QueueUsed` closes the composition: the timer
uses its queue through `TimedDelivery`, whose promises are for a consumer that dequeues
and clears outside of its waits only. The lemmas say what an insertion, an erasure and a
`clear()` do to the set of queued notifications.

**TCPServer.** `Counts` gives `_rc`, the threads and the connections served as numbers of
threads at certain places of `run()`; `Holding` says who has a connection, `Locking` who
holds the mutex at which place, and `Dropped` that nothing but the stop notification is
queued after `stop()`. `NotStranded` is inductive with them.

**ReplicaSetConnection.** `TopologyConsistent` is inductive with `RefreshesKnown` (a thread
asks, and carries the answer of, known servers only, although the topology changes between
question and answer) and `NamedWhenGrown` (servers other than the seeds came from a
member of a set, so the set's name is known): together they say that an answer which
arrives late cannot bring in the hosts or the name of another set. `UpdateKeeps` and
`MarkKeeps` are about the two writers of the topology, and servers are never forgotten.
`CallsLimited` reads off `CallSound`: the count of attempts is strictly below its limit
wherever the loop's body is, a selected server stays known until the client connects to it,
and a client is inside `waitForServerAvailability()` exactly when it holds the mutex. It
does not say that calls end: that a server already tried costs no attempt is the
divergence `mongo_sick` shows.

**TaskManager.** `CancelledRunsOnlyIfOverwritten` is proved for any number of starting and
cancelling threads; it needs `CancelSticks` (a cancelled task does not look startable to
its thread, unless `start()` wrote over it). `TaskTypeOK` itself needs `ListedOnceEach`: the
list's bound is never reached, because every thread that lists a task found it idle.
`ListIsInFlight` is proved for any number of threads as well. `EntriesHeld` counts: every
entry is that of a thread that has the task in hand or was left behind, since a thread
takes off an entry only when it has one (`OneRunEach`, `ListedOnceEach`); `Explained`
says that as long as the starts of a task did not overlap its owner is set while a thread
has it in hand, so that the thread does take off its entry.

**ObjectPool.** `StockCounts` says that an object is in one place and what `_size` counts;
`LineInOrder` that a waiting borrower has one Event, in the queue or signalled;
`Reached` is `SignalsReach` itself. They are inductive together: a signal adds one to
what signalled borrowers will take because the Event at the front was not set before.

**SessionPool.** `SessionCounts` says that the open sessions are the idle and the active
ones, each in one place, so that every step that creates or closes sessions has to change
`_nSessions` by their number; `SessionUse` that a session given back after `shutdown()` is
unknown, not one created since; `SessionEnd` that each session open after `shutdown()` is
paid for by one of the late `get()`. The lemma `KeepOnce` says what a loop that erases
entries leaves; `Keep` gives the position of each entry that stays, because the
provers know nothing about the recursive `SelectSeq`.

**AsyncChannel.** What is written, in hand and queued is one sequence in which each
logger's messages are in order (`InOrder`), behind which the message a logger still
works on comes next (`AllPassed`). `NothingLost` follows `close()`: unless the channel
has thrown, the thread has not ended before it is woken, and runs whenever a message
is about to be queued; when `close()` has seen the queue empty, all that is owed is
written or in hand.

**Activity.** `InStep`: unless calls overlapped, one activity at most is under way, from the
`start()` that resets the event to the `run()` that sets it, and nobody woken by the event
is still in `wait()`.

**SocketReactor.** `RemovedIsNotCalled` needs only that what has been removed is disabled
before the removal returns, whichever exception it leaves by.

Only model-checked:

* all liveness (`WaitReturns`, `CallsReturn`, `QueuedRuns`, `JoinAllReturns`,
  `StopReturns`, `StopDrains`, `ServedUnlessNoThread`, `CancelCompletes`, `StopObeyed`,
  `Converges`, `CloseReturns`): the prover does not treat fairness or `ENABLED`. Every
  invariant, action property and refinement of the passing runs is a theorem.

## 7. Plan

What could still be modelled: `PriorityNotificationQueue` as a second implementation
of a delivery contract, `ActiveDispatcher` and `AsyncNotificationCenter` over
`DeliveryContract`, the HTTP client's reconnection.

## 8. Observed divergences

Besides the seven violated runs (described under "findings" in `PROJECT.json`), the
models show, or were made to allow, the following behaviours of the code:

* `ActiveThreadPool::startThread` counts a thread as active before
  `Thread::start()`; if that throws, `joinAll()` and the destructor wait for ever.
  `JoinAllReturns` and `ActiveThreadsCounts` state it as the exception it is.
* `ActiveThreadPool::tryStart` queues a task for a recycled thread with priority 0,
  not with the one given; tasks queued with a lower priority than its own can
  overtake it (with several priorities in the model).
* `ThreadPool::addCapacity` with a negative argument can leave more idle threads
  than the capacity; `start()` uses them while `available()` is 0 or negative.
* `Timer::stop()` waits for ever when another thread calls `stop()` as well, or
  sets a new interval after the 0 was written; `StopReturns` excludes both.
* `Timer::run()` divides the time left by 1000, towards zero: an invocation that is past
  by less than a millisecond is not skipped but invoked at once. `SkipsWhatPassed` has
  the millisecond in it.
* `Timer::restart()` during the callback does restart the interval after it.
* `TimedNotificationQueue` can return an entry although an earlier one arrived
  after the consumer's look; `TimedDelivery` says "first when the consumer looked".
* `Util::Timer`: a purge counts the entries once and then always removes the first. A
  task scheduled meanwhile with an earlier time is removed in place of one that was
  pending, and `cancel(true)` returns with that one still queued; a `cancel(true)`
  whose notification another purge removes returns before the queue is empty.
  `Timer.h` says "Cancels all pending tasks" and "waits until the queue has been
  purged" (`ut_overtaken`); `PaidPurge` says how much can be left. A `TimerTask` cancelled between the look at the flag
  and `run()` still runs.
* `TaskManager::start` reads the state and stores `TASK_STARTING` later; a `cancel()` in
  between is overwritten and the task runs, although `Task.h` says "If task is
  cancelled before it had a chance to run, runTask() will never be called"
  (`task_late_cancel`). `CancelledRunsOnlyIfOverwritten` says that this is the only way.
* `TaskManager`: a start the pool refused leaves `TASK_STARTING`, so the next
  `start()` returns false; with two threads starting one task, the refused call
  clears the owner the other has set, and the task is never taken off the list
  (`task_two_starts`); an observer that throws leaves it there too; a
  failing `start()` can clear the owner between `Task::cancel()`'s test and call.
* `ReplicaSetConnection`: an attempt is counted only for a server not tried before
  (`mongo_sick`); the same happens after `stopMonitoring()`, which turns every refresh
  into a no-op although `refreshTopology()` "Forces an immediate topology refresh".
  An exception of `createConnection` at the second selection escapes without the
  other servers being tried.
* `TopologyDescription::updateServer` updates the type of the topology when a set name
  does not match (TopologyDescription.cpp:244), under a comment that says "Do NOT update
  topology type yet - wait for next refresh" (:243). The model follows the code:
  `TopologyConsistent` demands the type of the servers at all times, which the code keeps
  and a code that did what the comment says would not.
* `ReplicaSet::stopMonitoring` notifies without `_monitorMutex`; the notification can be
  lost, and the join then waits for the heartbeat interval. `waitStartTime` is taken
  inside the lock, so that "another thread refreshed" is hardly ever true.
* `ObjectPool`: an object that cannot be activated stays counted in `_size`; a signal
  can be spent on a borrower that timed out or whose creation failed, and every
  signal restarts the full timeout of those who find nothing.
* `SessionPool`: `get()` that looked at `_shutdown` before it was set opens a session
  after `shutdown()`; `putBack()` in the same position meets `poco_bugcheck()`. The
  settings to restore are stored under the pooled session and looked up under the
  underlying one, so a user's setting is reverted only if the pool has its own value.
* `AsyncChannel`: a late `log()` can start the thread again after `close()` has
  returned, and nobody stops it; or between `tryJoin()`'s look at the old thread and its
  join, and `close()` then waits for the new one (`async_late_log`). It can also clear
  `_wokeUp`, which is why `close()` has to wake repeatedly. If the attached channel
  throws, the thread ends and `close()` waits for ever for the queue to become empty.
* `Activity`: a `start()` between `run()`'s two last stores, or between the event and
  `wait()`'s store, runs while `_running` is false; a `wait()` that saw `_running`
  during a `start()` that fails is not released. `RunningIsTrue` excludes exactly
  these.
* `SocketReactor`: two clients that add observers of one socket at once can lose a mode
  (`reactor_two_clients`); one that adds while another removes the last observer can be
  left in a notifier the reactor no longer has. An `epoll_ctl()` that fails in
  `removeEventHandler()` leaves the observer in a notifier that is no longer in
  `_handlers`, and the socket in `_socketMap`. Two `addEventHandler()` of the same
  observer can add it twice. A handler for timeouts alone is never called and cannot be
  removed without an exception. A call that has loaded its object outlives the removal
  of its observer.

Hazards that lie with the caller and have no property: an observer that calls the
queue whose `dispatch()` runs it, or a target that calls the pool whose `joinAll()`
waits for it, blocks on a mutex of its own.

## 9. Not modelled

Within the modelled components: thread names, stack sizes and priorities; the
default pool; `TCPServer`'s reactor mode, connection filter and statistics other
than the number of connections; progress and custom notifications of tasks and the
destructor of `TaskManager`; a task scheduled twice at once in `Util::Timer`; jumps
of the wall clock; callbacks that call back into the component that runs them
(`stop()` from a timer's callback, `cancel(true)` from a timer task, a pool's target
that calls its pool, observers under `dispatch()` or `cancelAll()`), which block on
their own thread.

In the MongoDB client and the parts of `MCParts`: tags, staleness, latency and URIs of the replica set, its
notifications, one-way requests and several threads that start and stop monitoring
at once; a `deactivateObject()` that throws; `SessionPool::customizeSession`;
the `close()` of a session after a failed rollback, which ends in the same `putBack()`;
`AsyncChannel::setChannel`; `SocketReactor`'s `stop`, `wakeUp`, throttling, and handlers
that throw with the error dispatch they lead to, `SocketAcceptor` and `SocketConnector`, and
the select and poll versions of `PollSet`.

The models stand for a small part of the repository's lines. Most of these are vendored
libraries (SQLite, libharu, PCRE2, expat, zlib), tables of encodings, protocol text
and adapters of external services: sequential code without shared state, whose
models would repeat it line by line. The concurrent core is what is covered.
