----------------------------- MODULE TaskManager -----------------------------
(***************************************************************************)
(* Poco::TaskManager and Poco::Task: tasks are handed to a thread pool,    *)
(* cancelled one by one or all together, and leave the manager's list when *)
(* they finish.                                                            *)
(*                                                                         *)
(* A task's state and owner are atomics that start(), cancel() and run()   *)
(* read and write without a common lock: every such access is a step of    *)
(* its own.  The manager's mutex protects the list only, and is held over  *)
(* the whole of cancelAll().                                               *)
(***************************************************************************)
EXTENDS Integers, FiniteSets

CONSTANTS
  Tasks,
  Starters,     \* threads that call start()
  Cancellers,   \* threads that call cancel() or cancelAll()
  Null

ASSUME TaskAssumption ==
  /\ IsFiniteSet(Starters)
  /\ Null \notin Tasks \cup Starters \cup Cancellers

VARIABLES
  state, owner,  \* state[t], owner[t]: _state, and whether _pOwner is the manager
  cancelEvent,   \* cancelEvent[t]
  taskList,      \* taskList[t]: how often t is in _taskList
  mutex,         \* the canceller that holds the manager's mutex, or Null
  spc, starting, \* spc[s], starting[s]: where s is in start(), and the task
  wpc,           \* wpc[<<t, s>>]: where the pool's thread that s got for t is in Task::run()
  pOwner,        \* pOwner[<<t, s>>]: its local
  cpc, task,     \* cpc[c], task[c]: where c is in cancel(), and the task
  toCancel,      \* toCancel[c][t]: how often cancelAll() has still to cancel t
  requested,     \* history: tasks whose cancel() has returned since their last reset()
  overwritten,   \* history: tasks whose state start() found idle and then overwrote
                 \* with TASK_STARTING although it had changed meanwhile
  early,         \* history: tasks that run although they were in requested
  kept,          \* kept[t], history: threads that ended without taking t off the list
  contested,     \* history: tasks start() was called for while another start() or a
                 \* thread had them in hand
  threw          \* history: tasks whose run() ended with an exception of an observer

life == <<state, owner, cancelEvent>>
starter == <<spc, starting>>
canceller == <<cpc, task, toCancel>>
worker == <<wpc, pOwner>>
leftover == <<kept, contested, threw>>
history == <<requested, overwritten, early, leftover>>
taskVars == <<life, taskList, mutex, starter, worker, canceller, history>>

Runs == Tasks \X Starters
States == {"IDLE", "STARTING", "RUNNING", "CANCELLING", "FINISHED"}

Empty == [t \in Tasks |-> 0]

TaskTypeOK ==
  /\ state \in [Tasks -> States]
  /\ owner \in [Tasks -> BOOLEAN]
  /\ cancelEvent \in [Tasks -> BOOLEAN]
  /\ taskList \in [Tasks -> 0..Cardinality(Starters)]
  /\ mutex \in Cancellers \cup {Null}
  /\ spc \in [Starters -> {"out", "state", "own", "set", "push", "pool", "undo", "erase"}]
  /\ starting \in [Starters -> Tasks \cup {Null}]
  /\ wpc \in [Runs -> {"none", "run", "exchange", "body", "finish", "post", "erase"}]
  /\ pOwner \in [Runs -> BOOLEAN]
  /\ cpc \in [Cancellers -> {"out", "store", "event", "check", "load"}]
  /\ task \in [Cancellers -> Tasks \cup {Null}]
  /\ toCancel \in [Cancellers -> [Tasks -> 0..Cardinality(Starters)]]
  /\ \A c \in Cancellers : toCancel[c] # Empty => mutex = c
  /\ kept \in [Tasks -> Nat]
  /\ contested \subseteq Tasks /\ threw \subseteq Tasks

Idle(t) == \A s \in Starters : wpc[<<t, s>>] = "none"
Listed(t) == taskList[t] > 0
Drop(l, t) == [l EXCEPT ![t] = IF @ > 0 THEN @ - 1 ELSE 0]

TaskInit ==
  /\ state = [t \in Tasks |-> "IDLE"]
  /\ owner = [t \in Tasks |-> FALSE]
  /\ cancelEvent = [t \in Tasks |-> FALSE]
  /\ taskList = Empty /\ mutex = Null
  /\ spc = [s \in Starters |-> "out"] /\ starting = [s \in Starters |-> Null]
  /\ wpc = [r \in Runs |-> "none"] /\ pOwner = [r \in Runs |-> FALSE]
  /\ cpc = [c \in Cancellers |-> "out"] /\ task = [c \in Cancellers |-> Null]
  /\ toCancel = [c \in Cancellers |-> Empty]
  /\ requested = {} /\ overwritten = {} /\ early = {}
  /\ kept = Empty /\ contested = {} /\ threw = {}

-----------------------------------------------------------------------------
(* TaskManager::start() *)

StarterAt(s, from, to) ==
  /\ spc[s] = from
  /\ spc' = [spc EXCEPT ![s] = to]

\* An owned task is not accepted: start() throws.
start(s, t) ==
  /\ StarterAt(s, "out", "state")
  /\ ~owner[t]
  /\ starting' = [starting EXCEPT ![s] = t]
  /\ contested' = IF Idle(t) /\ \A r \in Starters : starting[r] # t
                  THEN contested ELSE contested \cup {t}
  /\ UNCHANGED <<life, taskList, mutex, worker, canceller, requested, overwritten, early,
                 kept, threw>>

\* Only an idle task is started; otherwise start() returns false.
StartCheckState(s) ==
  LET t == starting[s]
  IN  /\ spc[s] = "state"
      /\ \/ /\ state[t] = "IDLE"
            /\ spc' = [spc EXCEPT ![s] = "own"]
            /\ UNCHANGED <<owner, starting>>
         \/ /\ state[t] # "IDLE"
            /\ owner' = [owner EXCEPT ![t] = FALSE]
            /\ spc' = [spc EXCEPT ![s] = "out"]
            /\ starting' = [starting EXCEPT ![s] = Null]
      /\ UNCHANGED <<state, cancelEvent, taskList, mutex, worker, canceller, history>>

StartSetOwner(s) ==
  /\ StarterAt(s, "own", "set")
  /\ owner' = [owner EXCEPT ![starting[s]] = TRUE]
  /\ UNCHANGED <<state, cancelEvent, taskList, mutex, starting, worker, canceller, history>>

StartSetState(s) ==
  /\ StarterAt(s, "set", "push")
  /\ state' = [state EXCEPT ![starting[s]] = "STARTING"]
  /\ overwritten' = IF state[starting[s]] = "IDLE" THEN overwritten
                                                  ELSE overwritten \cup {starting[s]}
  /\ UNCHANGED <<owner, cancelEvent, taskList, mutex, starting, worker, canceller,
                 requested, early, leftover>>

\* Bug: the task is handed to the pool without being listed.
PushForgotten(s) ==
  /\ StarterAt(s, "push", "pool")
  /\ mutex = Null
  /\ UNCHANGED <<life, taskList, mutex, starting, worker, canceller, history>>

StartPush(s) ==
  /\ StarterAt(s, "push", "pool")
  /\ mutex = Null
  /\ taskList' = [taskList EXCEPT ![starting[s]] = @ + 1]
  /\ UNCHANGED <<life, mutex, starting, worker, canceller, history>>

\* The pool starts a thread ...
StartPool(s) ==
  /\ StarterAt(s, "pool", "out")
  /\ wpc' = [wpc EXCEPT ![<<starting[s], s>>] = "run"]
  /\ starting' = [starting EXCEPT ![s] = Null]
  /\ UNCHANGED <<life, taskList, mutex, pOwner, canceller, history>>

\* ... or throws: the owner and the list are restored, the state is not.
StartPoolFails(s) ==
  /\ StarterAt(s, "pool", "undo")
  /\ UNCHANGED <<life, taskList, mutex, starting, worker, canceller, history>>

StartUndoOwner(s) ==
  /\ StarterAt(s, "undo", "erase")
  /\ owner' = [owner EXCEPT ![starting[s]] = FALSE]
  /\ UNCHANGED <<state, cancelEvent, taskList, mutex, starting, worker, canceller, history>>

StartUndoList(s) ==
  /\ StarterAt(s, "erase", "out")
  /\ mutex = Null
  /\ taskList' = Drop(taskList, starting[s])
  /\ starting' = [starting EXCEPT ![s] = Null]
  /\ UNCHANGED <<life, mutex, worker, canceller, history>>

-----------------------------------------------------------------------------
(* Task::run(), in a thread of the pool *)

WorkerAt(t, s, from, to) ==
  /\ wpc[<<t, s>>] = from
  /\ wpc' = [wpc EXCEPT ![<<t, s>>] = to]

RunGetOwner(t, s) ==
  /\ WorkerAt(t, s, "run", "exchange")
  /\ pOwner' = [pOwner EXCEPT ![<<t, s>>] = owner[t]]
  /\ UNCHANGED <<life, taskList, mutex, starter, canceller, history>>

\* Bug: the state is not looked at.
ExchangeAndRun(t, s) ==
  /\ WorkerAt(t, s, "exchange", "body")
  /\ state' = [state EXCEPT ![t] = "RUNNING"]
  /\ early' = early \cup ({t} \cap requested)
  /\ UNCHANGED <<owner, cancelEvent, taskList, mutex, starter, pOwner, canceller,
                 requested, overwritten, leftover>>

\* The state is exchanged: a task found cancelled is not run.
RunExchange(t, s) ==
  /\ WorkerAt(t, s, "exchange", IF state[t] \in {"IDLE", "STARTING"} THEN "body" ELSE "finish")
  /\ state' = [state EXCEPT ![t] = "RUNNING"]
  /\ early' = IF state[t] \in {"IDLE", "STARTING"} THEN early \cup ({t} \cap requested) ELSE early
  /\ UNCHANGED <<owner, cancelEvent, taskList, mutex, starter, pOwner, canceller,
                 requested, overwritten, leftover>>

\* taskStarted() notifies the observers; runTask() returns or throws, which is reported
\* to the owner.
RunBody(t, s) ==
  /\ WorkerAt(t, s, "body", "finish")
  /\ UNCHANGED <<life, taskList, mutex, starter, pOwner, canceller, history>>

\* The thread ends without taking the task off the list.
Keep(t) == kept' = [kept EXCEPT ![t] = @ + 1]

\* Without an owner there is nobody to take the task off the list.
RunFinish(t, s) ==
  /\ WorkerAt(t, s, "finish", IF pOwner[<<t, s>>] THEN "post" ELSE "none")
  /\ state' = [state EXCEPT ![t] = "FINISHED"]
  /\ IF pOwner[<<t, s>>] THEN UNCHANGED kept ELSE Keep(t)
  /\ UNCHANGED <<owner, cancelEvent, taskList, mutex, starter, pOwner, canceller,
                 requested, overwritten, early, contested, threw>>

\* An observer of taskStarted(), taskFailed() or taskFinished() throws: none of them
\* is called under a handler of run(), which ends where it is; the pool's thread
\* reports the exception.
RunObserverThrows(t, s) ==
  /\ pOwner[<<t, s>>]
  /\ WorkerAt(t, s, "body", "none") \/ WorkerAt(t, s, "post", "none")
  /\ threw' = threw \cup {t}
  /\ Keep(t)
  /\ UNCHANGED <<life, taskList, mutex, starter, pOwner, canceller, requested, overwritten,
                 early, contested>>

\* taskFinished() notifies the observers ...
TaskFinishedPost(t, s) ==
  /\ WorkerAt(t, s, "post", "erase")
  /\ UNCHANGED <<life, taskList, mutex, starter, pOwner, canceller, history>>

\* ... and then takes the task off the list.
TaskFinishedErase(t, s) ==
  /\ WorkerAt(t, s, "erase", "none")
  /\ mutex = Null
  /\ owner' = IF Listed(t) THEN [owner EXCEPT ![t] = FALSE] ELSE owner
  /\ taskList' = Drop(taskList, t)
  /\ UNCHANGED <<state, cancelEvent, mutex, starter, pOwner, canceller, history>>

-----------------------------------------------------------------------------
(* Task::cancel() and TaskManager::cancelAll() *)

cancel(c, t) ==
  /\ cpc[c] = "out" /\ mutex # c
  /\ cpc' = [cpc EXCEPT ![c] = "store"]
  /\ task' = [task EXCEPT ![c] = t]
  /\ UNCHANGED <<life, taskList, mutex, starter, worker, toCancel, history>>

\* cancelAll() keeps the mutex until all tasks of the list have been cancelled.
cancelAll(c) ==
  /\ cpc[c] = "out"
  /\ mutex = Null
  /\ mutex' = c
  /\ toCancel' = [toCancel EXCEPT ![c] = taskList]
  /\ UNCHANGED <<life, taskList, starter, worker, cpc, task, history>>

CancelNext(c, t) ==
  /\ mutex = c /\ cpc[c] = "out"
  /\ toCancel[c][t] > 0
  /\ toCancel' = [toCancel EXCEPT ![c][t] = @ - 1]
  /\ cpc' = [cpc EXCEPT ![c] = "store"]
  /\ task' = [task EXCEPT ![c] = t]
  /\ UNCHANGED <<life, taskList, mutex, starter, worker, history>>

CancelAllReturns(c) ==
  /\ mutex = c /\ cpc[c] = "out"
  /\ toCancel[c] = Empty
  /\ mutex' = Null
  /\ UNCHANGED <<life, taskList, starter, worker, canceller, history>>

CancellerAt(c, from, to) ==
  /\ cpc[c] = from
  /\ cpc' = [cpc EXCEPT ![c] = to]

CancelStore(c) ==
  /\ CancellerAt(c, "store", "event")
  /\ state' = [state EXCEPT ![task[c]] = "CANCELLING"]
  /\ UNCHANGED <<owner, cancelEvent, taskList, mutex, starter, worker, task, toCancel, history>>

CancelSetEvent(c) ==
  /\ CancellerAt(c, "event", "check")
  /\ cancelEvent' = [cancelEvent EXCEPT ![task[c]] = TRUE]
  /\ UNCHANGED <<state, owner, taskList, mutex, starter, worker, task, toCancel, history>>

CancelDone(c) ==
  /\ requested' = requested \cup {task[c]}
  /\ task' = [task EXCEPT ![c] = Null]
  /\ UNCHANGED <<life, taskList, starter, worker, overwritten, early, leftover>>

\* The owner is looked at ...
CancelCheckOwner(c) ==
  \/ /\ CancellerAt(c, "check", "out")
     /\ ~owner[task[c]]
     /\ CancelDone(c)
     /\ UNCHANGED <<mutex, toCancel>>
  \/ /\ CancellerAt(c, "check", "load")
     /\ owner[task[c]]
     /\ UNCHANGED <<life, taskList, mutex, starter, worker, task, toCancel, history>>

\* ... and loaded again, and called: taskCancelled() notifies the observers.
CancelCallOwner(c) ==
  /\ CancellerAt(c, "load", "out")
  /\ CancelDone(c)
  /\ UNCHANGED <<mutex, toCancel>>

\* An observer throws: cancel() ends there, and so does a cancelAll() that called it,
\* without having come to the rest of the list.
CancelObserverThrows(c) ==
  /\ CancellerAt(c, "load", "out")
  /\ CancelDone(c)
  /\ mutex' = IF mutex = c THEN Null ELSE mutex
  /\ toCancel' = [toCancel EXCEPT ![c] = Empty]

\* A task nobody has in hand, the manager included, is made ready for another start.
reset(t) ==
  /\ state[t] # "IDLE"
  /\ ~owner[t] /\ Idle(t) /\ ~Listed(t)
  /\ \A s \in Starters : starting[s] # t
  /\ \A c \in Cancellers : task[c] # t
  /\ state' = [state EXCEPT ![t] = "IDLE"]
  /\ cancelEvent' = [cancelEvent EXCEPT ![t] = FALSE]
  /\ requested' = requested \ {t} /\ overwritten' = overwritten \ {t} /\ early' = early \ {t}
  /\ contested' = contested \ {t} /\ threw' = threw \ {t} /\ UNCHANGED kept
  /\ UNCHANGED <<owner, taskList, mutex, starter, worker, canceller>>

-----------------------------------------------------------------------------
StartStep(s) ==
  \/ StartCheckState(s)
  \/ StartSetOwner(s)
  \/ StartSetState(s)
  \/ StartPush(s)
  \/ StartPool(s)
  \/ StartPoolFails(s)
  \/ StartUndoOwner(s)
  \/ StartUndoList(s)

Run(t, s) ==
  \/ RunGetOwner(t, s)
  \/ RunExchange(t, s)
  \/ RunBody(t, s)
  \/ RunFinish(t, s)
  \/ RunObserverThrows(t, s)
  \/ TaskFinishedPost(t, s)
  \/ TaskFinishedErase(t, s)

CancelStep(c) ==
  \/ \E t \in Tasks : CancelNext(c, t)
  \/ CancelAllReturns(c)
  \/ CancelStore(c)
  \/ CancelSetEvent(c)
  \/ CancelCheckOwner(c)
  \/ CancelCallOwner(c)
  \/ CancelObserverThrows(c)

TaskNext ==
  \/ \E s \in Starters : (\E t \in Tasks : start(s, t)) \/ StartStep(s)
  \/ \E t \in Tasks : (\E s \in Starters : Run(t, s)) \/ reset(t)
  \/ \E c \in Cancellers : (\E t \in Tasks : cancel(c, t)) \/ cancelAll(c) \/ CancelStep(c)

TaskSpec == TaskInit /\ [][TaskNext]_taskVars

-----------------------------------------------------------------------------
(* Properties. *)

\* The starting threads through whose start() t is in the list: they are about to hand
\* it to the pool or to take it off again, or the thread they got for it has it in hand.
Holders(t) ==
  {s \in Starters : \/ wpc[<<t, s>>] # "none"
                    \/ starting[s] = t /\ spc[s] \in {"pool", "undo", "erase"}}

\* Whoever starts and cancels, the list accounts for its entries: a task is listed once
\* for every thread that has it in hand - so its AutoPtr keeps the task alive while it
\* runs, and taskFinished() and a refused start() never take off another thread's
\* entry - and an entry is left behind only by a thread that could not take it off:
\* because its observer threw, or because two start()s of the same task got in each
\* other's way.
ListIsInFlight ==
  \A t \in Tasks :
    /\ taskList[t] = Cardinality(Holders(t)) + kept[t]
    /\ kept[t] > 0 => t \in contested \cup threw

\* "The TaskManager takes ownership of the Task object and deletes it when it is
\* finished" (TaskManager.h): a finished task that is in nobody's hands is not in the
\* list, unless an observer's exception ended its run().  The code does not keep this:
\* a start() that is refused resets the owner another start() has just set, and the
\* thread that then finds no owner leaves the task in the list for good.
FinishedIsReleased ==
  \A t \in Tasks :
    /\ state[t] = "FINISHED" /\ Idle(t) /\ t \notin threw
    /\ \A s \in Starters : starting[s] # t
    => ~Listed(t)

\* "If task is cancelled before it had a chance to run, runTask() will never be called"
\* (Task.h): no thread that gets to a task whose cancel() has returned runs it.  The
\* code does not keep this: start() looks at the state and stores TASK_STARTING later,
\* over a cancellation that came in between.
CancelledNeverRuns == early = {}

\* What does hold where CancelledNeverRuns fails: a task that was cancelled when its
\* thread looked at it runs only if start() overwrote the cancellation; cancellations
\* that come later, from cancelAll() or directly, always prevent it.
CancelledRunsOnlyIfOverwritten == early \subseteq overwritten

=============================================================================
