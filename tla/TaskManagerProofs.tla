------------------------- MODULE TaskManagerProofs -------------------------
(***************************************************************************)
(* Proofs about Poco::TaskManager: for any number of tasks, starting and   *)
(* cancelling threads a cancelled task runs only if start() overwrote its  *)
(* cancellation, no task is listed more often than it can be started, and  *)
(* the list accounts for every entry: a thread's that has the task in      *)
(* hand, or one that a thread could not take off.                          *)
(***************************************************************************)
EXTENDS TaskManager, FiniteSetTheorems, TLAPS

-----------------------------------------------------------------------------
(* The inductive invariant, for any number of starting threads.            *)

\* A starting thread has a task in hand exactly while it is in start(), a cancelling
\* one while it is in cancel().
InHand ==
  /\ \A s \in Starters : starting[s] = Null <=> spc[s] = "out"
  /\ \A c \in Cancellers : task[c] = Null <=> cpc[c] = "out"

\* The threads that found t idle and have not yet listed it.
Coming(t) == {s \in Starters : starting[s] = t /\ spc[s] \in {"own", "set", "push"}}

\* Every thread that lists t has found it idle, and a task is made idle again only when
\* it is not listed: each thread lists it at most once in between.
ListedOnceEach ==
  \A t \in Tasks :
    /\ taskList[t] + Cardinality(Coming(t)) <= Cardinality(Starters)
    /\ state[t] = "IDLE" => taskList[t] = 0

\* What a cancellation leaves behind: the task does not look startable to its thread,
\* unless start() wrote over it.
Deterred(t) == t \in overwritten \/ state[t] \notin {"IDLE", "STARTING"}

CancelSticks ==
  /\ requested \subseteq {t \in Tasks : Deterred(t)}
  /\ \A c \in Cancellers : cpc[c] \in {"event", "check", "load"} => Deterred(task[c])
  /\ early \subseteq overwritten

\* A task on its way into the list is no longer idle.
Started == \A s \in Starters : spc[s] = "push" => state[starting[s]] # "IDLE"

IInv == TaskTypeOK /\ InHand /\ ListedOnceEach /\ Started /\ CancelSticks

(* The accounting of the list. *)

\* A thread that is about to list a task has no thread of the pool that runs it: it
\* found the task idle, and a task becomes idle again only when nobody has it in hand.
OneRunEach ==
  \A s \in Starters :
    spc[s] \notin {"out", "state"} => wpc[<<starting[s], s>>] = "none"

\* Every entry is that of a holder, or one a thread has left behind.
EntriesHeld == \A t \in Tasks : taskList[t] = Cardinality(Holders(t)) + kept[t]

Busy(s, t) == starting[s] = t \/ wpc[<<t, s>>] # "none"

\* A task whose start()s have not got in each other's way is in one thread's hands at a
\* time; it is owned from before it is listed, and the thread that runs it saw the owner.
Undisturbed(t) ==
  \A s \in Starters :
    /\ \A r \in Starters : Busy(s, t) /\ Busy(r, t) => r = s
    /\ starting[s] = t => wpc[<<t, s>>] = "none"
    /\ starting[s] = t /\ spc[s] \in {"set", "push", "pool", "undo"} => owner[t]
    /\ wpc[<<t, s>>] # "none" => owner[t]
    /\ wpc[<<t, s>>] \notin {"none", "run"} => pOwner[<<t, s>>]

Explained ==
  \A t \in Tasks :
    /\ t \notin contested => Undisturbed(t)
    /\ kept[t] > 0 => t \in contested \cup threw

-----------------------------------------------------------------------------
(* The constants and the bound. *)

\* The list's bound is a natural number, and a thread on its way to the list leaves
\* room for its entry.
LEMMA Bounds ==
  ASSUME IInv
  PROVE  /\ Cardinality(Starters) \in Nat
         /\ \A t \in Tasks : taskList[t] \in Nat
         /\ \A s \in Starters :
              spc[s] = "push" => taskList[starting[s]] + 1 <= Cardinality(Starters)
  <1>1. Cardinality(Starters) \in Nat BY FS_CardinalityType, TaskAssumption
  <1>2. \A t \in Tasks : taskList[t] \in Nat BY <1>1 DEF IInv, TaskTypeOK
  <1>3. ASSUME NEW s \in Starters, spc[s] = "push"
        PROVE  taskList[starting[s]] + 1 <= Cardinality(Starters)
    <2> DEFINE t == starting[s]
    <2>1. t \in Tasks BY <1>3 DEF IInv, TaskTypeOK, InHand
    <2>2. s \in Coming(t) BY <1>3 DEF Coming
    <2>3. IsFiniteSet(Coming(t)) BY FS_Subset, TaskAssumption DEF Coming
    <2>4. Cardinality(Coming(t)) \in Nat /\ Cardinality(Coming(t)) # 0
      BY <2>2, <2>3, FS_CardinalityType, FS_EmptySet
    <2>5. taskList[t] + Cardinality(Coming(t)) <= Cardinality(Starters)
      BY <2>1 DEF IInv, ListedOnceEach
    <2> HIDE DEF t
    <2>6. taskList[t] + 1 <= Cardinality(Starters) BY <1>1, <1>2, <2>1, <2>4, <2>5
    <2> QED BY <2>6 DEF t
  <1> QED BY <1>1, <1>2, <1>3

\* Every action keeps the types.
LEMMA TypeStep ==
  IInv /\ [TaskNext]_taskVars => TaskTypeOK'
  <1> SUFFICES ASSUME IInv, [TaskNext]_taskVars PROVE TaskTypeOK'
    OBVIOUS
  <1> USE TaskAssumption DEF life, starter, worker, canceller, leftover, history
  <1>0. TaskTypeOK /\ InHand /\ Cardinality(Starters) \in Nat BY Bounds DEF IInv
  <1>1. ASSUME NEW s \in Starters, NEW t \in Tasks, start(s, t) PROVE TaskTypeOK'
    BY <1>1, <1>0 DEF TaskTypeOK, InHand, Runs, States, Empty, start, StarterAt
  <1>2. ASSUME NEW s \in Starters, StartCheckState(s) PROVE TaskTypeOK'
    <2>1. starting[s] \in Tasks BY <1>2, <1>0 DEF StartCheckState, InHand, TaskTypeOK
    <2>2. CASE state[starting[s]] = "IDLE"
      BY <1>2, <1>0, <2>1, <2>2 DEF TaskTypeOK, Runs, States, Empty, StartCheckState
    <2>3. CASE state[starting[s]] # "IDLE"
      <3>1. /\ owner' = [owner EXCEPT ![starting[s]] = FALSE]
            /\ spc' = [spc EXCEPT ![s] = "out"]
            /\ starting' = [starting EXCEPT ![s] = Null]
            /\ UNCHANGED <<state, cancelEvent, taskList, mutex, worker, canceller, history>>
        BY <1>2, <2>3 DEF StartCheckState
      <3>2. owner' \in [Tasks -> BOOLEAN] BY <3>1, <1>0 DEF TaskTypeOK
      <3> QED BY <3>1, <3>2, <1>0, <2>1 DEF TaskTypeOK, Runs, States, Empty
    <2> QED BY <2>2, <2>3
  <1>3. ASSUME NEW s \in Starters, StartSetOwner(s) PROVE TaskTypeOK'
    BY <1>3, <1>0 DEF TaskTypeOK, InHand, Runs, States, Empty, StartSetOwner, StarterAt
  <1>4. ASSUME NEW s \in Starters, StartSetState(s) PROVE TaskTypeOK'
    BY <1>4, <1>0 DEF TaskTypeOK, InHand, Runs, States, Empty, StartSetState, StarterAt
  <1>5. ASSUME NEW s \in Starters, StartPush(s) PROVE TaskTypeOK'
    <2> DEFINE n == taskList[starting[s]] + 1
    <2>1. starting[s] \in Tasks BY <1>5, <1>0 DEF StartPush, StarterAt, InHand, TaskTypeOK
    <2>2. n \in 0..Cardinality(Starters)
      BY <1>5, <1>0, <2>1, Bounds DEF StartPush, StarterAt
    <2>3. taskList' = [taskList EXCEPT ![starting[s]] = n] BY <1>5 DEF StartPush
    <2> HIDE DEF n
    <2>4. taskList' \in [Tasks -> 0..Cardinality(Starters)] BY <2>2, <2>3, <1>0 DEF TaskTypeOK
    <2> QED BY <1>5, <1>0, <2>4 DEF TaskTypeOK, Empty, StartPush, StarterAt
  <1>6. ASSUME NEW s \in Starters, StartPool(s) PROVE TaskTypeOK'
    BY <1>6, <1>0 DEF TaskTypeOK, InHand, Runs, States, Empty, StartPool, StarterAt
  <1>7. ASSUME NEW s \in Starters, StartPoolFails(s) PROVE TaskTypeOK'
    BY <1>7, <1>0 DEF TaskTypeOK, InHand, Runs, States, Empty, StartPoolFails, StarterAt
  <1>8. ASSUME NEW s \in Starters, StartUndoOwner(s) PROVE TaskTypeOK'
    BY <1>8, <1>0 DEF TaskTypeOK, InHand, Runs, States, Empty, StartUndoOwner, StarterAt
  <1>9. ASSUME NEW s \in Starters, StartUndoList(s) PROVE TaskTypeOK'
    BY <1>9, <1>0 DEF TaskTypeOK, InHand, Runs, States, Empty, StartUndoList, StarterAt, Drop
  <1>10. ASSUME NEW t \in Tasks, NEW s \in Starters, RunGetOwner(t, s) PROVE TaskTypeOK'
    BY <1>10, <1>0 DEF TaskTypeOK, InHand, Runs, States, Empty, RunGetOwner, WorkerAt
  <1>11. ASSUME NEW t \in Tasks, NEW s \in Starters, RunExchange(t, s) PROVE TaskTypeOK'
    BY <1>11, <1>0 DEF TaskTypeOK, InHand, Runs, States, Empty, RunExchange, WorkerAt
  <1>12. ASSUME NEW t \in Tasks, NEW s \in Starters, RunBody(t, s) PROVE TaskTypeOK'
    BY <1>12, <1>0 DEF TaskTypeOK, InHand, Runs, States, Empty, RunBody, WorkerAt
  <1>13. ASSUME NEW t \in Tasks, NEW s \in Starters, RunFinish(t, s) PROVE TaskTypeOK'
    BY <1>13, <1>0 DEF TaskTypeOK, InHand, Runs, States, Empty, RunFinish, WorkerAt, Keep
  <1>14. ASSUME NEW t \in Tasks, NEW s \in Starters, TaskFinishedPost(t, s) PROVE TaskTypeOK'
    BY <1>14, <1>0 DEF TaskTypeOK, InHand, Runs, States, Empty, TaskFinishedPost, WorkerAt
  <1>15. ASSUME NEW t \in Tasks, NEW s \in Starters, TaskFinishedErase(t, s) PROVE TaskTypeOK'
    <2>1. taskList' \in [Tasks -> 0..Cardinality(Starters)]
      BY <1>15, <1>0 DEF TaskTypeOK, TaskFinishedErase, Drop
    <2>2. owner' \in [Tasks -> BOOLEAN] BY <1>15, <1>0 DEF TaskTypeOK, TaskFinishedErase
    <2> QED BY <1>15, <1>0, <2>1, <2>2
            DEF TaskTypeOK, Runs, Empty, TaskFinishedErase, WorkerAt
  <1>16. ASSUME NEW c \in Cancellers, NEW t \in Tasks, cancel(c, t) PROVE TaskTypeOK'
    BY <1>16, <1>0 DEF TaskTypeOK, InHand, Runs, States, Empty, cancel
  <1>17. ASSUME NEW c \in Cancellers, cancelAll(c) PROVE TaskTypeOK'
    BY <1>17, <1>0 DEF TaskTypeOK, InHand, Runs, States, Empty, cancelAll
  <1>18. ASSUME NEW c \in Cancellers, NEW t \in Tasks, CancelNext(c, t) PROVE TaskTypeOK'
    BY <1>18, <1>0 DEF TaskTypeOK, InHand, Runs, States, Empty, CancelNext
  <1>19. ASSUME NEW c \in Cancellers, CancelAllReturns(c) PROVE TaskTypeOK'
    BY <1>19, <1>0 DEF TaskTypeOK, InHand, Runs, States, Empty, CancelAllReturns
  <1>20. ASSUME NEW c \in Cancellers, CancelStore(c) PROVE TaskTypeOK'
    BY <1>20, <1>0 DEF TaskTypeOK, InHand, Runs, States, Empty, CancelStore, CancellerAt
  <1>21. ASSUME NEW c \in Cancellers, CancelSetEvent(c) PROVE TaskTypeOK'
    BY <1>21, <1>0 DEF TaskTypeOK, InHand, Runs, States, Empty, CancelSetEvent, CancellerAt
  <1>22. ASSUME NEW c \in Cancellers, CancelCheckOwner(c) PROVE TaskTypeOK'
    <2>1. CASE owner[task[c]]
      BY <1>22, <2>1, <1>0 DEF TaskTypeOK, Runs, Empty, CancelCheckOwner, CancellerAt
    <2>2. CASE ~owner[task[c]]
      BY <1>22, <2>2, <1>0
      DEF TaskTypeOK, Runs, Empty, CancelCheckOwner, CancellerAt, CancelDone
    <2> QED BY <2>1, <2>2
  <1>23. ASSUME NEW c \in Cancellers, CancelCallOwner(c) PROVE TaskTypeOK'
    BY <1>23, <1>0
    DEF TaskTypeOK, InHand, Runs, States, Empty, CancelCallOwner, CancellerAt, CancelDone
  <1>24. ASSUME NEW t \in Tasks, reset(t) PROVE TaskTypeOK'
    BY <1>24, <1>0 DEF TaskTypeOK, InHand, Runs, States, Empty, reset
  <1>25. ASSUME NEW t \in Tasks, NEW s \in Starters, RunObserverThrows(t, s) PROVE TaskTypeOK'
    <2>1. wpc' = [wpc EXCEPT ![<<t, s>>] = "none"] BY <1>25 DEF RunObserverThrows, WorkerAt
    <2>2. kept' \in [Tasks -> Nat] BY <1>25, <1>0 DEF TaskTypeOK, RunObserverThrows, Keep
    <2>3. threw' \subseteq Tasks /\ contested' \subseteq Tasks
      BY <1>25, <1>0 DEF TaskTypeOK, RunObserverThrows
    <2>4. wpc' \in [Runs -> {"none", "run", "exchange", "body", "finish", "post", "erase"}]
      BY <2>1, <1>0 DEF TaskTypeOK
    <2> QED BY <1>25, <1>0, <2>2, <2>3, <2>4 DEF TaskTypeOK, Empty, RunObserverThrows
  <1>26. ASSUME NEW c \in Cancellers, CancelObserverThrows(c) PROVE TaskTypeOK'
    BY <1>26, <1>0 DEF TaskTypeOK, InHand, Runs, States, Empty, CancelObserverThrows, CancellerAt,
       CancelDone
  <1>27. CASE UNCHANGED taskVars
    BY <1>27, <1>0 DEF TaskTypeOK, InHand, Runs, States, Empty, taskVars
  <1> QED BY <1>1, <1>2, <1>3, <1>4, <1>5, <1>6, <1>7, <1>8, <1>9, <1>10, <1>11, <1>12, <1>13,
             <1>14, <1>15, <1>16, <1>17, <1>18, <1>19, <1>20, <1>21, <1>22, <1>23, <1>24,
             <1>25, <1>26, <1>27
          DEF TaskNext, StartStep, Run, CancelStep

\* Every action keeps track of the tasks in hand.
LEMMA InHandStep ==
  IInv /\ [TaskNext]_taskVars => InHand'
  <1> SUFFICES ASSUME IInv, [TaskNext]_taskVars PROVE InHand'
    OBVIOUS
  <1> USE TaskAssumption DEF life, starter, worker, canceller, leftover, history
  <1>0. TaskTypeOK /\ InHand /\ Cardinality(Starters) \in Nat BY Bounds DEF IInv
  <1>1. ASSUME NEW s \in Starters, NEW t \in Tasks, start(s, t) PROVE InHand'
    BY <1>1, <1>0 DEF TaskTypeOK, InHand, start, StarterAt
  <1>2. ASSUME NEW s \in Starters, StartCheckState(s) PROVE InHand'
    BY <1>2, <1>0 DEF TaskTypeOK, InHand, StartCheckState
  <1>3. ASSUME NEW s \in Starters, StartSetOwner(s) PROVE InHand'
    BY <1>3, <1>0 DEF TaskTypeOK, InHand, StartSetOwner, StarterAt
  <1>4. ASSUME NEW s \in Starters, StartSetState(s) PROVE InHand'
    BY <1>4, <1>0 DEF TaskTypeOK, InHand, StartSetState, StarterAt
  <1>5. ASSUME NEW s \in Starters, StartPush(s) PROVE InHand'
    BY <1>5, <1>0 DEF TaskTypeOK, InHand, StartPush, StarterAt
  <1>6. ASSUME NEW s \in Starters, StartPool(s) PROVE InHand'
    BY <1>6, <1>0 DEF TaskTypeOK, InHand, StartPool, StarterAt
  <1>7. ASSUME NEW s \in Starters, StartPoolFails(s) PROVE InHand'
    BY <1>7, <1>0 DEF TaskTypeOK, InHand, StartPoolFails, StarterAt
  <1>8. ASSUME NEW s \in Starters, StartUndoOwner(s) PROVE InHand'
    BY <1>8, <1>0 DEF TaskTypeOK, InHand, StartUndoOwner, StarterAt
  <1>9. ASSUME NEW s \in Starters, StartUndoList(s) PROVE InHand'
    BY <1>9, <1>0 DEF TaskTypeOK, InHand, StartUndoList, StarterAt, Drop
  <1>10. ASSUME NEW t \in Tasks, NEW s \in Starters, RunGetOwner(t, s) PROVE InHand'
    BY <1>10, <1>0 DEF TaskTypeOK, InHand, RunGetOwner, WorkerAt
  <1>11. ASSUME NEW t \in Tasks, NEW s \in Starters, RunExchange(t, s) PROVE InHand'
    BY <1>11, <1>0 DEF TaskTypeOK, InHand, RunExchange, WorkerAt
  <1>12. ASSUME NEW t \in Tasks, NEW s \in Starters, RunBody(t, s) PROVE InHand'
    BY <1>12, <1>0 DEF TaskTypeOK, InHand, RunBody, WorkerAt
  <1>13. ASSUME NEW t \in Tasks, NEW s \in Starters, RunFinish(t, s) PROVE InHand'
    BY <1>13, <1>0 DEF TaskTypeOK, InHand, RunFinish, WorkerAt, Keep
  <1>14. ASSUME NEW t \in Tasks, NEW s \in Starters, TaskFinishedPost(t, s) PROVE InHand'
    BY <1>14, <1>0 DEF TaskTypeOK, InHand, TaskFinishedPost, WorkerAt
  <1>15. ASSUME NEW t \in Tasks, NEW s \in Starters, TaskFinishedErase(t, s) PROVE InHand'
    BY <1>15, <1>0 DEF TaskTypeOK, InHand, TaskFinishedErase, WorkerAt, Drop
  <1>16. ASSUME NEW c \in Cancellers, NEW t \in Tasks, cancel(c, t) PROVE InHand'
    BY <1>16, <1>0 DEF TaskTypeOK, InHand, cancel
  <1>17. ASSUME NEW c \in Cancellers, cancelAll(c) PROVE InHand'
    BY <1>17, <1>0 DEF TaskTypeOK, InHand, cancelAll
  <1>18. ASSUME NEW c \in Cancellers, NEW t \in Tasks, CancelNext(c, t) PROVE InHand'
    BY <1>18, <1>0 DEF TaskTypeOK, InHand, CancelNext
  <1>19. ASSUME NEW c \in Cancellers, CancelAllReturns(c) PROVE InHand'
    BY <1>19, <1>0 DEF TaskTypeOK, InHand, CancelAllReturns
  <1>20. ASSUME NEW c \in Cancellers, CancelStore(c) PROVE InHand'
    BY <1>20, <1>0 DEF TaskTypeOK, InHand, CancelStore, CancellerAt
  <1>21. ASSUME NEW c \in Cancellers, CancelSetEvent(c) PROVE InHand'
    BY <1>21, <1>0 DEF TaskTypeOK, InHand, CancelSetEvent, CancellerAt
  <1>22. ASSUME NEW c \in Cancellers, CancelCheckOwner(c) PROVE InHand'
    BY <1>22, <1>0 DEF TaskTypeOK, InHand, CancelCheckOwner, CancellerAt, CancelDone
  <1>23. ASSUME NEW c \in Cancellers, CancelCallOwner(c) PROVE InHand'
    BY <1>23, <1>0 DEF TaskTypeOK, InHand, CancelCallOwner, CancellerAt, CancelDone
  <1>24. ASSUME NEW t \in Tasks, reset(t) PROVE InHand'
    BY <1>24, <1>0 DEF TaskTypeOK, InHand, reset
  <1>25. ASSUME NEW t \in Tasks, NEW s \in Starters, RunObserverThrows(t, s) PROVE InHand'
    BY <1>25, <1>0 DEF TaskTypeOK, InHand, RunObserverThrows, WorkerAt, Keep
  <1>26. ASSUME NEW c \in Cancellers, CancelObserverThrows(c) PROVE InHand'
    BY <1>26, <1>0 DEF TaskTypeOK, InHand, CancelObserverThrows, CancellerAt, CancelDone
  <1>27. CASE UNCHANGED taskVars
    BY <1>27, <1>0 DEF TaskTypeOK, InHand, taskVars
  <1> QED BY <1>1, <1>2, <1>3, <1>4, <1>5, <1>6, <1>7, <1>8, <1>9, <1>10, <1>11, <1>12, <1>13,
             <1>14, <1>15, <1>16, <1>17, <1>18, <1>19, <1>20, <1>21, <1>22, <1>23, <1>24,
             <1>25, <1>26, <1>27
          DEF TaskNext, StartStep, Run, CancelStep

\* Every action leaves a cancellation in place or notes that it overwrote it.
LEMMA SticksStep ==
  IInv /\ [TaskNext]_taskVars => CancelSticks'
  <1> SUFFICES ASSUME IInv, [TaskNext]_taskVars PROVE CancelSticks'
    OBVIOUS
  <1> USE TaskAssumption DEF life, starter, worker, canceller, leftover, history
  <1>0. TaskTypeOK /\ InHand /\ CancelSticks /\ Cardinality(Starters) \in Nat BY Bounds DEF IInv
  <1>1. ASSUME NEW s \in Starters, NEW t \in Tasks, start(s, t) PROVE CancelSticks'
    BY <1>1, <1>0 DEF TaskTypeOK, InHand, CancelSticks, Deterred, start, StarterAt
  <1>2. ASSUME NEW s \in Starters, StartCheckState(s) PROVE CancelSticks'
    BY <1>2, <1>0 DEF TaskTypeOK, InHand, CancelSticks, Deterred, StartCheckState
  <1>3. ASSUME NEW s \in Starters, StartSetOwner(s) PROVE CancelSticks'
    BY <1>3, <1>0 DEF TaskTypeOK, InHand, CancelSticks, Deterred, StartSetOwner, StarterAt
  <1>4. ASSUME NEW s \in Starters, StartSetState(s) PROVE CancelSticks'
    BY <1>4, <1>0 DEF TaskTypeOK, InHand, CancelSticks, Deterred, StartSetState, StarterAt
  <1>5. ASSUME NEW s \in Starters, StartPush(s) PROVE CancelSticks'
    BY <1>5, <1>0 DEF TaskTypeOK, InHand, CancelSticks, Deterred, StartPush, StarterAt
  <1>6. ASSUME NEW s \in Starters, StartPool(s) PROVE CancelSticks'
    BY <1>6, <1>0 DEF TaskTypeOK, InHand, CancelSticks, Deterred, StartPool, StarterAt
  <1>7. ASSUME NEW s \in Starters, StartPoolFails(s) PROVE CancelSticks'
    BY <1>7, <1>0 DEF TaskTypeOK, InHand, CancelSticks, Deterred, StartPoolFails, StarterAt
  <1>8. ASSUME NEW s \in Starters, StartUndoOwner(s) PROVE CancelSticks'
    BY <1>8, <1>0 DEF TaskTypeOK, InHand, CancelSticks, Deterred, StartUndoOwner, StarterAt
  <1>9. ASSUME NEW s \in Starters, StartUndoList(s) PROVE CancelSticks'
    BY <1>9, <1>0 DEF TaskTypeOK, InHand, CancelSticks, Deterred, StartUndoList, StarterAt, Drop
  <1>10. ASSUME NEW t \in Tasks, NEW s \in Starters, RunGetOwner(t, s) PROVE CancelSticks'
    BY <1>10, <1>0 DEF TaskTypeOK, InHand, CancelSticks, Deterred, RunGetOwner, WorkerAt
  <1>11. ASSUME NEW t \in Tasks, NEW s \in Starters, RunExchange(t, s) PROVE CancelSticks'
    BY <1>11, <1>0 DEF TaskTypeOK, InHand, CancelSticks, Deterred, RunExchange, WorkerAt
  <1>12. ASSUME NEW t \in Tasks, NEW s \in Starters, RunBody(t, s) PROVE CancelSticks'
    BY <1>12, <1>0 DEF TaskTypeOK, InHand, CancelSticks, Deterred, RunBody, WorkerAt
  <1>13. ASSUME NEW t \in Tasks, NEW s \in Starters, RunFinish(t, s) PROVE CancelSticks'
    BY <1>13, <1>0 DEF TaskTypeOK, InHand, CancelSticks, Deterred, RunFinish, WorkerAt, Keep
  <1>14. ASSUME NEW t \in Tasks, NEW s \in Starters, TaskFinishedPost(t, s) PROVE CancelSticks'
    BY <1>14, <1>0 DEF TaskTypeOK, InHand, CancelSticks, Deterred, TaskFinishedPost, WorkerAt
  <1>15. ASSUME NEW t \in Tasks, NEW s \in Starters, TaskFinishedErase(t, s) PROVE CancelSticks'
    BY <1>15, <1>0 DEF TaskTypeOK, InHand, CancelSticks, Deterred, TaskFinishedErase, WorkerAt, Drop
  <1>16. ASSUME NEW c \in Cancellers, NEW t \in Tasks, cancel(c, t) PROVE CancelSticks'
    BY <1>16, <1>0 DEF TaskTypeOK, InHand, CancelSticks, Deterred, cancel
  <1>17. ASSUME NEW c \in Cancellers, cancelAll(c) PROVE CancelSticks'
    BY <1>17, <1>0 DEF TaskTypeOK, InHand, CancelSticks, Deterred, cancelAll
  <1>18. ASSUME NEW c \in Cancellers, NEW t \in Tasks, CancelNext(c, t) PROVE CancelSticks'
    BY <1>18, <1>0 DEF TaskTypeOK, InHand, CancelSticks, Deterred, CancelNext
  <1>19. ASSUME NEW c \in Cancellers, CancelAllReturns(c) PROVE CancelSticks'
    BY <1>19, <1>0 DEF TaskTypeOK, InHand, CancelSticks, Deterred, CancelAllReturns
  <1>20. ASSUME NEW c \in Cancellers, CancelStore(c) PROVE CancelSticks'
    BY <1>20, <1>0 DEF TaskTypeOK, InHand, CancelSticks, Deterred, CancelStore, CancellerAt
  <1>21. ASSUME NEW c \in Cancellers, CancelSetEvent(c) PROVE CancelSticks'
    BY <1>21, <1>0 DEF TaskTypeOK, InHand, CancelSticks, Deterred, CancelSetEvent, CancellerAt
  <1>22. ASSUME NEW c \in Cancellers, CancelCheckOwner(c) PROVE CancelSticks'
    <2>1. CASE owner[task[c]]
      BY <1>22, <2>1, <1>0 DEF TaskTypeOK, CancelSticks, Deterred, CancelCheckOwner, CancellerAt
    <2>2. CASE ~owner[task[c]]
      <3>1. /\ cpc[c] = "check" /\ cpc' = [cpc EXCEPT ![c] = "out"]
            /\ requested' = requested \cup {task[c]}
            /\ task' = [task EXCEPT ![c] = Null]
            /\ UNCHANGED <<state, overwritten, early>>
        BY <1>22, <2>2 DEF CancelCheckOwner, CancellerAt, CancelDone
      <3> QED BY <3>1, <1>0 DEF TaskTypeOK, InHand, CancelSticks, Deterred
    <2> QED BY <2>1, <2>2
  <1>23. ASSUME NEW c \in Cancellers, CancelCallOwner(c) PROVE CancelSticks'
    BY <1>23, <1>0
    DEF TaskTypeOK, InHand, CancelSticks, Deterred, CancelCallOwner, CancellerAt, CancelDone
  <1>24. ASSUME NEW t \in Tasks, reset(t) PROVE CancelSticks'
    BY <1>24, <1>0 DEF TaskTypeOK, InHand, CancelSticks, Deterred, reset
  <1>25. ASSUME NEW t \in Tasks, NEW s \in Starters, RunObserverThrows(t, s) PROVE CancelSticks'
    BY <1>25, <1>0 DEF TaskTypeOK, InHand, CancelSticks, Deterred, RunObserverThrows, WorkerAt, Keep
  <1>26. ASSUME NEW c \in Cancellers, CancelObserverThrows(c) PROVE CancelSticks'
    BY <1>26, <1>0 DEF TaskTypeOK, InHand, CancelSticks, Deterred, CancelObserverThrows,
       CancellerAt, CancelDone
  <1>27. CASE UNCHANGED taskVars
    BY <1>27, <1>0 DEF TaskTypeOK, InHand, CancelSticks, Deterred, taskVars
  <1> QED BY <1>1, <1>2, <1>3, <1>4, <1>5, <1>6, <1>7, <1>8, <1>9, <1>10, <1>11, <1>12, <1>13,
             <1>14, <1>15, <1>16, <1>17, <1>18, <1>19, <1>20, <1>21, <1>22, <1>23, <1>24,
             <1>25, <1>26, <1>27
          DEF TaskNext, StartStep, Run, CancelStep

\* An action that lets nobody new onto the way to the list, lists nothing and makes
\* nothing idle that is listed keeps every list entry accounted for.
LEMMA NobodyNew ==
  ASSUME IInv,
         \A t \in Tasks :
           /\ Coming(t)' \subseteq Coming(t)
           /\ taskList'[t] \in Nat /\ taskList'[t] <= taskList[t]
           /\ state'[t] = "IDLE" => state[t] = "IDLE" \/ taskList'[t] = 0
  PROVE  ListedOnceEach'
  <1> SUFFICES ASSUME NEW t \in Tasks
               PROVE  /\ taskList'[t] + Cardinality(Coming(t)') <= Cardinality(Starters)
                      /\ state'[t] = "IDLE" => taskList'[t] = 0
    BY DEF ListedOnceEach
  <1>1. IsFiniteSet(Coming(t)) BY FS_Subset, TaskAssumption DEF Coming
  <1>2. /\ IsFiniteSet(Coming(t)') /\ Cardinality(Coming(t)') <= Cardinality(Coming(t))
        /\ Cardinality(Coming(t)) \in Nat /\ Cardinality(Coming(t)') \in Nat
    BY <1>1, FS_Subset, FS_CardinalityType
  <1>3. /\ taskList[t] \in Nat /\ Cardinality(Starters) \in Nat
        /\ taskList[t] + Cardinality(Coming(t)) <= Cardinality(Starters)
        /\ state[t] = "IDLE" => taskList[t] = 0
    BY Bounds DEF IInv, ListedOnceEach
  <1>4. taskList'[t] \in Nat /\ taskList'[t] <= taskList[t] OBVIOUS
  <1>5. taskList'[t] + Cardinality(Coming(t)') <= Cardinality(Starters)
    BY <1>2, <1>3, <1>4
  <1>6. state'[t] = "IDLE" => taskList'[t] = 0 BY <1>3, <1>4
  <1> QED BY <1>5, <1>6

\* Every action leaves a task on its way into the list started.
LEMMA StartedStep ==
  IInv /\ [TaskNext]_taskVars => Started'
  <1> SUFFICES ASSUME IInv, [TaskNext]_taskVars PROVE Started'
    OBVIOUS
  <1> USE TaskAssumption DEF life, starter, worker, canceller, leftover, history
  <1>0. TaskTypeOK /\ InHand /\ Started /\ Cardinality(Starters) \in Nat BY Bounds DEF IInv
  <1>1. ASSUME NEW s \in Starters, NEW t \in Tasks, start(s, t) PROVE Started'
    BY <1>1, <1>0 DEF TaskTypeOK, InHand, Started, start, StarterAt
  <1>2. ASSUME NEW s \in Starters, StartCheckState(s) PROVE Started'
    BY <1>2, <1>0 DEF TaskTypeOK, InHand, Started, StartCheckState
  <1>3. ASSUME NEW s \in Starters, StartSetOwner(s) PROVE Started'
    BY <1>3, <1>0 DEF TaskTypeOK, InHand, Started, StartSetOwner, StarterAt
  <1>4. ASSUME NEW s \in Starters, StartSetState(s) PROVE Started'
    BY <1>4, <1>0 DEF TaskTypeOK, InHand, Started, StartSetState, StarterAt
  <1>5. ASSUME NEW s \in Starters, StartPush(s) PROVE Started'
    BY <1>5, <1>0 DEF TaskTypeOK, InHand, Started, StartPush, StarterAt
  <1>6. ASSUME NEW s \in Starters, StartPool(s) PROVE Started'
    BY <1>6, <1>0 DEF TaskTypeOK, InHand, Started, StartPool, StarterAt
  <1>7. ASSUME NEW s \in Starters, StartPoolFails(s) PROVE Started'
    BY <1>7, <1>0 DEF TaskTypeOK, InHand, Started, StartPoolFails, StarterAt
  <1>8. ASSUME NEW s \in Starters, StartUndoOwner(s) PROVE Started'
    BY <1>8, <1>0 DEF TaskTypeOK, InHand, Started, StartUndoOwner, StarterAt
  <1>9. ASSUME NEW s \in Starters, StartUndoList(s) PROVE Started'
    BY <1>9, <1>0 DEF TaskTypeOK, InHand, Started, StartUndoList, StarterAt, Drop
  <1>10. ASSUME NEW t \in Tasks, NEW s \in Starters, RunGetOwner(t, s) PROVE Started'
    BY <1>10, <1>0 DEF TaskTypeOK, InHand, Started, RunGetOwner, WorkerAt
  <1>11. ASSUME NEW t \in Tasks, NEW s \in Starters, RunExchange(t, s) PROVE Started'
    BY <1>11, <1>0 DEF TaskTypeOK, InHand, Started, RunExchange, WorkerAt
  <1>12. ASSUME NEW t \in Tasks, NEW s \in Starters, RunBody(t, s) PROVE Started'
    BY <1>12, <1>0 DEF TaskTypeOK, InHand, Started, RunBody, WorkerAt
  <1>13. ASSUME NEW t \in Tasks, NEW s \in Starters, RunFinish(t, s) PROVE Started'
    BY <1>13, <1>0 DEF TaskTypeOK, InHand, Started, RunFinish, WorkerAt, Keep
  <1>14. ASSUME NEW t \in Tasks, NEW s \in Starters, TaskFinishedPost(t, s) PROVE Started'
    BY <1>14, <1>0 DEF TaskTypeOK, InHand, Started, TaskFinishedPost, WorkerAt
  <1>15. ASSUME NEW t \in Tasks, NEW s \in Starters, TaskFinishedErase(t, s) PROVE Started'
    BY <1>15, <1>0 DEF TaskTypeOK, InHand, Started, TaskFinishedErase, WorkerAt, Drop
  <1>16. ASSUME NEW c \in Cancellers, NEW t \in Tasks, cancel(c, t) PROVE Started'
    BY <1>16, <1>0 DEF TaskTypeOK, InHand, Started, cancel
  <1>17. ASSUME NEW c \in Cancellers, cancelAll(c) PROVE Started'
    BY <1>17, <1>0 DEF TaskTypeOK, InHand, Started, cancelAll
  <1>18. ASSUME NEW c \in Cancellers, NEW t \in Tasks, CancelNext(c, t) PROVE Started'
    BY <1>18, <1>0 DEF TaskTypeOK, InHand, Started, CancelNext
  <1>19. ASSUME NEW c \in Cancellers, CancelAllReturns(c) PROVE Started'
    BY <1>19, <1>0 DEF TaskTypeOK, InHand, Started, CancelAllReturns
  <1>20. ASSUME NEW c \in Cancellers, CancelStore(c) PROVE Started'
    BY <1>20, <1>0 DEF TaskTypeOK, InHand, Started, CancelStore, CancellerAt
  <1>21. ASSUME NEW c \in Cancellers, CancelSetEvent(c) PROVE Started'
    BY <1>21, <1>0 DEF TaskTypeOK, InHand, Started, CancelSetEvent, CancellerAt
  <1>22. ASSUME NEW c \in Cancellers, CancelCheckOwner(c) PROVE Started'
    BY <1>22, <1>0 DEF TaskTypeOK, InHand, Started, CancelCheckOwner, CancellerAt, CancelDone
  <1>23. ASSUME NEW c \in Cancellers, CancelCallOwner(c) PROVE Started'
    BY <1>23, <1>0 DEF TaskTypeOK, InHand, Started, CancelCallOwner, CancellerAt, CancelDone
  <1>24. ASSUME NEW t \in Tasks, reset(t) PROVE Started'
    BY <1>24, <1>0 DEF TaskTypeOK, InHand, Started, reset
  <1>25. ASSUME NEW t \in Tasks, NEW s \in Starters, RunObserverThrows(t, s) PROVE Started'
    BY <1>25, <1>0 DEF TaskTypeOK, InHand, Started, RunObserverThrows, WorkerAt, Keep
  <1>26. ASSUME NEW c \in Cancellers, CancelObserverThrows(c) PROVE Started'
    BY <1>26, <1>0 DEF TaskTypeOK, InHand, Started, CancelObserverThrows, CancellerAt, CancelDone
  <1>27. CASE UNCHANGED taskVars
    BY <1>27, <1>0 DEF TaskTypeOK, InHand, Started, taskVars
  <1> QED BY <1>1, <1>2, <1>3, <1>4, <1>5, <1>6, <1>7, <1>8, <1>9, <1>10, <1>11, <1>12, <1>13,
             <1>14, <1>15, <1>16, <1>17, <1>18, <1>19, <1>20, <1>21, <1>22, <1>23, <1>24,
             <1>25, <1>26, <1>27
          DEF TaskNext, StartStep, Run, CancelStep

\* Every action keeps every list entry accounted for.
LEMMA ListedStep ==
  IInv /\ [TaskNext]_taskVars => ListedOnceEach'
  <1> SUFFICES ASSUME IInv, [TaskNext]_taskVars PROVE ListedOnceEach'
    OBVIOUS
  <1> USE TaskAssumption DEF life, starter, worker, canceller, leftover, history
  <1>0. TaskTypeOK /\ InHand /\ Cardinality(Starters) \in Nat BY Bounds DEF IInv
  <1>1. ASSUME NEW s \in Starters, NEW t \in Tasks, start(s, t) PROVE ListedOnceEach'
    <2>1. \A u \in Tasks :
            /\ Coming(u)' \subseteq Coming(u)
            /\ taskList'[u] \in Nat /\ taskList'[u] <= taskList[u]
            /\ state'[u] = "IDLE" => state[u] = "IDLE" \/ taskList'[u] = 0
      BY <1>1, <1>0, Bounds DEF Coming, TaskTypeOK, InHand, start, StarterAt
    <2> QED BY <2>1, NobodyNew
  <1>2. ASSUME NEW s \in Starters, StartCheckState(s) PROVE ListedOnceEach'
    <2>1. PICK u \in Tasks : u = starting[s]
      BY <1>2, <1>0 DEF StartCheckState, InHand, TaskTypeOK
    <2>2. CASE state[u] = "IDLE"
      <3>1. UNCHANGED <<state, taskList, starting>> /\ spc' = [spc EXCEPT ![s] = "own"]
        BY <1>2, <2>1, <2>2 DEF StartCheckState
      <3>2. ASSUME NEW t \in Tasks, t # u PROVE Coming(t)' \subseteq Coming(t)
        BY <2>1, <3>1, <3>2, <1>0 DEF Coming, TaskTypeOK
      <3>3. Coming(u)' \subseteq Starters BY DEF Coming
      <3>4. IsFiniteSet(Starters) BY TaskAssumption
      <3>5. Cardinality(Coming(u)') \in Nat /\ Cardinality(Coming(u)') <= Cardinality(Starters)
        BY <3>3, <3>4, FS_Subset, FS_CardinalityType
      <3>6. taskList'[u] = 0 BY <2>1, <2>2, <3>1 DEF IInv, ListedOnceEach
      <3>7. taskList'[u] + Cardinality(Coming(u)') <= Cardinality(Starters)
        BY <1>0, <3>5, <3>6
      <3>8. ASSUME NEW t \in Tasks, t # u
            PROVE  taskList'[t] + Cardinality(Coming(t)') <= Cardinality(Starters)
        <4>1. IsFiniteSet(Coming(t)) BY <3>4, FS_Subset DEF Coming
        <4>2. /\ Cardinality(Coming(t)') <= Cardinality(Coming(t))
              /\ Cardinality(Coming(t)') \in Nat /\ Cardinality(Coming(t)) \in Nat
          BY <4>1, <3>2, <3>8, FS_Subset, FS_CardinalityType
        <4>3. taskList[t] + Cardinality(Coming(t)) <= Cardinality(Starters)
          BY DEF IInv, ListedOnceEach
        <4>4. taskList[t] \in Nat /\ taskList'[t] = taskList[t] BY <3>1, Bounds
        <4> QED BY <1>0, <4>2, <4>3, <4>4
      <3>9. \A t \in Tasks : state'[t] = "IDLE" => taskList'[t] = 0
        BY <3>1 DEF IInv, ListedOnceEach
      <3>10. SUFFICES ASSUME NEW t \in Tasks
                      PROVE  taskList'[t] + Cardinality(Coming(t)') <= Cardinality(Starters)
        BY <3>9 DEF ListedOnceEach
      <3> QED BY <3>7, <3>8
    <2>3. CASE state[u] # "IDLE"
      <3>1. \A t \in Tasks : Coming(t)' \subseteq Coming(t)
        BY <1>2, <2>1, <2>3, <1>0 DEF StartCheckState, Coming, TaskTypeOK
      <3>2. UNCHANGED <<state, taskList>> BY <1>2 DEF StartCheckState
      <3> QED BY <3>1, <3>2, Bounds, NobodyNew
    <2> QED BY <2>2, <2>3
  <1>3. ASSUME NEW s \in Starters, StartSetOwner(s) PROVE ListedOnceEach'
    <2>1. \A t \in Tasks :
            /\ Coming(t)' \subseteq Coming(t)
            /\ taskList'[t] \in Nat /\ taskList'[t] <= taskList[t]
            /\ state'[t] = "IDLE" => state[t] = "IDLE" \/ taskList'[t] = 0
      BY <1>3, <1>0, Bounds DEF Coming, TaskTypeOK, InHand, StartSetOwner, StarterAt
    <2> QED BY <2>1, NobodyNew
  <1>4. ASSUME NEW s \in Starters, StartSetState(s) PROVE ListedOnceEach'
    <2>1. \A t \in Tasks :
            /\ Coming(t)' \subseteq Coming(t)
            /\ taskList'[t] \in Nat /\ taskList'[t] <= taskList[t]
            /\ state'[t] = "IDLE" => state[t] = "IDLE" \/ taskList'[t] = 0
      BY <1>4, <1>0, Bounds DEF Coming, TaskTypeOK, InHand, StartSetState, StarterAt
    <2> QED BY <2>1, NobodyNew
  <1>5. ASSUME NEW s \in Starters, StartPush(s) PROVE ListedOnceEach'
    <2>1. PICK u \in Tasks : u = starting[s]
      BY <1>5, <1>0 DEF StartPush, StarterAt, InHand, TaskTypeOK
    <2>2. /\ UNCHANGED <<state, starting>> /\ spc' = [spc EXCEPT ![s] = "pool"] /\ spc[s] = "push"
          /\ taskList' = [taskList EXCEPT ![u] = taskList[u] + 1]
      BY <1>5, <2>1 DEF StartPush, StarterAt
    <2>3. s \in Coming(u) /\ Coming(u)' = Coming(u) \ {s}
      BY <2>1, <2>2, <1>0 DEF Coming, TaskTypeOK
    <2>4. ASSUME NEW t \in Tasks, t # u PROVE Coming(t)' = Coming(t)
      BY <2>1, <2>2, <2>4, <1>0 DEF Coming, TaskTypeOK
    <2>5. IsFiniteSet(Coming(u)) BY FS_Subset, TaskAssumption DEF Coming
    <2>6. Cardinality(Coming(u)') = Cardinality(Coming(u)) - 1 /\ Cardinality(Coming(u)) \in Nat
      BY <2>3, <2>5, FS_RemoveElement, FS_CardinalityType
    <2>7. /\ taskList'[u] = taskList[u] + 1 /\ taskList[u] \in Nat
          /\ \A t \in Tasks : t # u => taskList'[t] = taskList[t]
      BY <2>1, <2>2, Bounds, <1>0 DEF TaskTypeOK
    <2>8. taskList[u] + Cardinality(Coming(u)) <= Cardinality(Starters)
      BY <2>1 DEF IInv, ListedOnceEach
    <2>9. state[u] # "IDLE" BY <1>5, <2>1 DEF IInv, Started, StartPush, StarterAt
    <2>10. taskList'[u] + Cardinality(Coming(u)') <= Cardinality(Starters)
      BY <1>0, <2>6, <2>7, <2>8
    <2>11. \A t \in Tasks : state'[t] = "IDLE" => taskList'[t] = 0
      BY <2>2, <2>7, <2>9 DEF IInv, ListedOnceEach
    <2>12. SUFFICES ASSUME NEW t \in Tasks
                    PROVE  taskList'[t] + Cardinality(Coming(t)') <= Cardinality(Starters)
      BY <2>11 DEF ListedOnceEach
    <2>13. CASE t = u BY <2>10, <2>13
    <2>14. CASE t # u
      <3>1. taskList[t] + Cardinality(Coming(t)) <= Cardinality(Starters)
        BY DEF IInv, ListedOnceEach
      <3> QED BY <2>4, <2>7, <2>14, <3>1
    <2> QED BY <2>13, <2>14
  <1>6. ASSUME NEW s \in Starters, StartPool(s) PROVE ListedOnceEach'
    <2>1. \A t \in Tasks :
            /\ Coming(t)' \subseteq Coming(t)
            /\ taskList'[t] \in Nat /\ taskList'[t] <= taskList[t]
            /\ state'[t] = "IDLE" => state[t] = "IDLE" \/ taskList'[t] = 0
      BY <1>6, <1>0, Bounds DEF Coming, TaskTypeOK, InHand, StartPool, StarterAt
    <2> QED BY <2>1, NobodyNew
  <1>7. ASSUME NEW s \in Starters, StartPoolFails(s) PROVE ListedOnceEach'
    <2>1. \A t \in Tasks :
            /\ Coming(t)' \subseteq Coming(t)
            /\ taskList'[t] \in Nat /\ taskList'[t] <= taskList[t]
            /\ state'[t] = "IDLE" => state[t] = "IDLE" \/ taskList'[t] = 0
      BY <1>7, <1>0, Bounds DEF Coming, TaskTypeOK, InHand, StartPoolFails, StarterAt
    <2> QED BY <2>1, NobodyNew
  <1>8. ASSUME NEW s \in Starters, StartUndoOwner(s) PROVE ListedOnceEach'
    <2>1. \A t \in Tasks :
            /\ Coming(t)' \subseteq Coming(t)
            /\ taskList'[t] \in Nat /\ taskList'[t] <= taskList[t]
            /\ state'[t] = "IDLE" => state[t] = "IDLE" \/ taskList'[t] = 0
      BY <1>8, <1>0, Bounds DEF Coming, TaskTypeOK, InHand, StartUndoOwner, StarterAt
    <2> QED BY <2>1, NobodyNew
  <1>9. ASSUME NEW s \in Starters, StartUndoList(s) PROVE ListedOnceEach'
    <2>1. \A t \in Tasks :
            /\ Coming(t)' \subseteq Coming(t)
            /\ taskList'[t] \in Nat /\ taskList'[t] <= taskList[t]
            /\ state'[t] = "IDLE" => state[t] = "IDLE" \/ taskList'[t] = 0
      BY <1>9, <1>0, Bounds DEF Coming, TaskTypeOK, InHand, StartUndoList, StarterAt, Drop
    <2> QED BY <2>1, NobodyNew
  <1>10. ASSUME NEW t \in Tasks, NEW s \in Starters, RunGetOwner(t, s) PROVE ListedOnceEach'
    <2>1. \A u \in Tasks :
            /\ Coming(u)' \subseteq Coming(u)
            /\ taskList'[u] \in Nat /\ taskList'[u] <= taskList[u]
            /\ state'[u] = "IDLE" => state[u] = "IDLE" \/ taskList'[u] = 0
      BY <1>10, <1>0, Bounds DEF Coming, TaskTypeOK, InHand, RunGetOwner, WorkerAt
    <2> QED BY <2>1, NobodyNew
  <1>11. ASSUME NEW t \in Tasks, NEW s \in Starters, RunExchange(t, s) PROVE ListedOnceEach'
    <2>1. \A u \in Tasks :
            /\ Coming(u)' \subseteq Coming(u)
            /\ taskList'[u] \in Nat /\ taskList'[u] <= taskList[u]
            /\ state'[u] = "IDLE" => state[u] = "IDLE" \/ taskList'[u] = 0
      BY <1>11, <1>0, Bounds DEF Coming, TaskTypeOK, InHand, RunExchange, WorkerAt
    <2> QED BY <2>1, NobodyNew
  <1>12. ASSUME NEW t \in Tasks, NEW s \in Starters, RunBody(t, s) PROVE ListedOnceEach'
    <2>1. \A u \in Tasks :
            /\ Coming(u)' \subseteq Coming(u)
            /\ taskList'[u] \in Nat /\ taskList'[u] <= taskList[u]
            /\ state'[u] = "IDLE" => state[u] = "IDLE" \/ taskList'[u] = 0
      BY <1>12, <1>0, Bounds DEF Coming, TaskTypeOK, InHand, RunBody, WorkerAt
    <2> QED BY <2>1, NobodyNew
  <1>13. ASSUME NEW t \in Tasks, NEW s \in Starters, RunFinish(t, s) PROVE ListedOnceEach'
    <2>1. \A u \in Tasks :
            /\ Coming(u)' \subseteq Coming(u)
            /\ taskList'[u] \in Nat /\ taskList'[u] <= taskList[u]
            /\ state'[u] = "IDLE" => state[u] = "IDLE" \/ taskList'[u] = 0
      BY <1>13, <1>0, Bounds DEF Coming, TaskTypeOK, InHand, RunFinish, WorkerAt, Keep
    <2> QED BY <2>1, NobodyNew
  <1>14. ASSUME NEW t \in Tasks, NEW s \in Starters, TaskFinishedPost(t, s) PROVE ListedOnceEach'
    <2>1. \A u \in Tasks :
            /\ Coming(u)' \subseteq Coming(u)
            /\ taskList'[u] \in Nat /\ taskList'[u] <= taskList[u]
            /\ state'[u] = "IDLE" => state[u] = "IDLE" \/ taskList'[u] = 0
      BY <1>14, <1>0, Bounds DEF Coming, TaskTypeOK, InHand, TaskFinishedPost, WorkerAt
    <2> QED BY <2>1, NobodyNew
  <1>15. ASSUME NEW t \in Tasks, NEW s \in Starters, TaskFinishedErase(t, s) PROVE ListedOnceEach'
    <2>1. \A u \in Tasks :
            /\ Coming(u)' \subseteq Coming(u)
            /\ taskList'[u] \in Nat /\ taskList'[u] <= taskList[u]
            /\ state'[u] = "IDLE" => state[u] = "IDLE" \/ taskList'[u] = 0
      BY <1>15, <1>0, Bounds DEF Coming, TaskTypeOK, InHand, TaskFinishedErase, WorkerAt, Drop
    <2> QED BY <2>1, NobodyNew
  <1>16. ASSUME NEW c \in Cancellers, NEW t \in Tasks, cancel(c, t) PROVE ListedOnceEach'
    <2>1. \A u \in Tasks :
            /\ Coming(u)' \subseteq Coming(u)
            /\ taskList'[u] \in Nat /\ taskList'[u] <= taskList[u]
            /\ state'[u] = "IDLE" => state[u] = "IDLE" \/ taskList'[u] = 0
      BY <1>16, <1>0, Bounds DEF Coming, TaskTypeOK, InHand, cancel
    <2> QED BY <2>1, NobodyNew
  <1>17. ASSUME NEW c \in Cancellers, cancelAll(c) PROVE ListedOnceEach'
    <2>1. \A t \in Tasks :
            /\ Coming(t)' \subseteq Coming(t)
            /\ taskList'[t] \in Nat /\ taskList'[t] <= taskList[t]
            /\ state'[t] = "IDLE" => state[t] = "IDLE" \/ taskList'[t] = 0
      BY <1>17, <1>0, Bounds DEF Coming, TaskTypeOK, InHand, cancelAll
    <2> QED BY <2>1, NobodyNew
  <1>18. ASSUME NEW c \in Cancellers, NEW t \in Tasks, CancelNext(c, t) PROVE ListedOnceEach'
    <2>1. \A u \in Tasks :
            /\ Coming(u)' \subseteq Coming(u)
            /\ taskList'[u] \in Nat /\ taskList'[u] <= taskList[u]
            /\ state'[u] = "IDLE" => state[u] = "IDLE" \/ taskList'[u] = 0
      BY <1>18, <1>0, Bounds DEF Coming, TaskTypeOK, InHand, CancelNext
    <2> QED BY <2>1, NobodyNew
  <1>19. ASSUME NEW c \in Cancellers, CancelAllReturns(c) PROVE ListedOnceEach'
    <2>1. \A t \in Tasks :
            /\ Coming(t)' \subseteq Coming(t)
            /\ taskList'[t] \in Nat /\ taskList'[t] <= taskList[t]
            /\ state'[t] = "IDLE" => state[t] = "IDLE" \/ taskList'[t] = 0
      BY <1>19, <1>0, Bounds DEF Coming, TaskTypeOK, InHand, CancelAllReturns
    <2> QED BY <2>1, NobodyNew
  <1>20. ASSUME NEW c \in Cancellers, CancelStore(c) PROVE ListedOnceEach'
    <2>1. \A t \in Tasks :
            /\ Coming(t)' \subseteq Coming(t)
            /\ taskList'[t] \in Nat /\ taskList'[t] <= taskList[t]
            /\ state'[t] = "IDLE" => state[t] = "IDLE" \/ taskList'[t] = 0
      BY <1>20, <1>0, Bounds DEF Coming, TaskTypeOK, InHand, CancelStore, CancellerAt
    <2> QED BY <2>1, NobodyNew
  <1>21. ASSUME NEW c \in Cancellers, CancelSetEvent(c) PROVE ListedOnceEach'
    <2>1. \A t \in Tasks :
            /\ Coming(t)' \subseteq Coming(t)
            /\ taskList'[t] \in Nat /\ taskList'[t] <= taskList[t]
            /\ state'[t] = "IDLE" => state[t] = "IDLE" \/ taskList'[t] = 0
      BY <1>21, <1>0, Bounds DEF Coming, TaskTypeOK, InHand, CancelSetEvent, CancellerAt
    <2> QED BY <2>1, NobodyNew
  <1>22. ASSUME NEW c \in Cancellers, CancelCheckOwner(c) PROVE ListedOnceEach'
    <2>1. \A t \in Tasks :
            /\ Coming(t)' \subseteq Coming(t)
            /\ taskList'[t] \in Nat /\ taskList'[t] <= taskList[t]
            /\ state'[t] = "IDLE" => state[t] = "IDLE" \/ taskList'[t] = 0
      BY <1>22, <1>0, Bounds
      DEF Coming, TaskTypeOK, InHand, CancelCheckOwner, CancellerAt, CancelDone
    <2> QED BY <2>1, NobodyNew
  <1>23. ASSUME NEW c \in Cancellers, CancelCallOwner(c) PROVE ListedOnceEach'
    <2>1. \A t \in Tasks :
            /\ Coming(t)' \subseteq Coming(t)
            /\ taskList'[t] \in Nat /\ taskList'[t] <= taskList[t]
            /\ state'[t] = "IDLE" => state[t] = "IDLE" \/ taskList'[t] = 0
      BY <1>23, <1>0, Bounds
      DEF Coming, TaskTypeOK, InHand, CancelCallOwner, CancellerAt, CancelDone
    <2> QED BY <2>1, NobodyNew
  <1>24. ASSUME NEW t \in Tasks, reset(t) PROVE ListedOnceEach'
    <2>1. \A u \in Tasks :
            /\ Coming(u)' \subseteq Coming(u)
            /\ taskList'[u] \in Nat /\ taskList'[u] <= taskList[u]
            /\ state'[u] = "IDLE" => state[u] = "IDLE" \/ taskList'[u] = 0
      BY <1>24, <1>0, Bounds DEF Coming, TaskTypeOK, InHand, reset, Listed
    <2> QED BY <2>1, NobodyNew
  <1>25. ASSUME NEW t \in Tasks, NEW s \in Starters, RunObserverThrows(t, s) PROVE ListedOnceEach'
    <2>1. \A u \in Tasks :
            /\ Coming(u)' \subseteq Coming(u)
            /\ taskList'[u] \in Nat /\ taskList'[u] <= taskList[u]
            /\ state'[u] = "IDLE" => state[u] = "IDLE" \/ taskList'[u] = 0
      BY <1>25, <1>0, Bounds DEF Coming, TaskTypeOK, InHand, RunObserverThrows, WorkerAt, Keep
    <2> QED BY <2>1, NobodyNew
  <1>26. ASSUME NEW c \in Cancellers, CancelObserverThrows(c) PROVE ListedOnceEach'
    <2>1. \A u \in Tasks :
            /\ Coming(u)' \subseteq Coming(u)
            /\ taskList'[u] \in Nat /\ taskList'[u] <= taskList[u]
            /\ state'[u] = "IDLE" => state[u] = "IDLE" \/ taskList'[u] = 0
      BY <1>26, <1>0, Bounds DEF Coming, TaskTypeOK, InHand, CancelObserverThrows, CancellerAt,
         CancelDone
    <2> QED BY <2>1, NobodyNew
  <1>27. CASE UNCHANGED taskVars
    BY <1>27, <1>0 DEF ListedOnceEach, Coming, IInv, taskVars
  <1> QED BY <1>1, <1>2, <1>3, <1>4, <1>5, <1>6, <1>7, <1>8, <1>9, <1>10, <1>11, <1>12, <1>13,
             <1>14, <1>15, <1>16, <1>17, <1>18, <1>19, <1>20, <1>21, <1>22, <1>23, <1>24,
             <1>25, <1>26, <1>27
          DEF TaskNext, StartStep, Run, CancelStep

LEMMA InitIInv == TaskInit => IInv
  <1> SUFFICES ASSUME TaskInit PROVE IInv
    OBVIOUS
  <1>1. IsFiniteSet(Starters) /\ Cardinality(Starters) \in Nat
    BY TaskAssumption, FS_CardinalityType
  <1>2. TaskTypeOK BY <1>1 DEF TaskInit, TaskTypeOK, States, Runs, Empty
  <1>3. InHand /\ Started BY TaskAssumption DEF TaskInit, InHand, Started
  <1>4. ListedOnceEach
    <2>1. ASSUME NEW t \in Tasks PROVE Coming(t) = {} /\ taskList[t] = 0
      BY DEF TaskInit, Coming, Empty
    <2>2. Cardinality({}) = 0 BY FS_EmptySet
    <2> QED BY <1>1, <2>1, <2>2 DEF ListedOnceEach
  <1>5. CancelSticks BY DEF TaskInit, CancelSticks
  <1> QED BY <1>2, <1>3, <1>4, <1>5 DEF IInv

\* The inductive invariant holds for any number of tasks, starting and cancelling
\* threads; the theorems below are read off it.
THEOREM Inductive == TaskSpec => []IInv
  <1>1. IInv /\ [TaskNext]_taskVars => IInv'
    BY TypeStep, InHandStep, StartedStep, ListedStep, SticksStep DEF IInv
  <1> QED BY InitIInv, <1>1, PTL DEF TaskSpec

\* For any number of starting and cancelling threads the manager is in the states its
\* code provides for: the list holds a task at most once for each thread that starts
\* it, since only a task found idle is listed and only an unlisted one becomes idle
\* again; and only a thread inside cancelAll() has tasks of the list left to cancel.
THEOREM TypeCorrect == TaskSpec => []TaskTypeOK
  BY Inductive, PTL DEF IInv

\* For any number of starting and cancelling threads a task whose cancel() has
\* returned is not run, unless start() stored TASK_STARTING over a state that had
\* changed since it looked: no other interleaving of start(), run() and cancel()
\* loses a cancellation.
THEOREM CancelledDoesNotRun == TaskSpec => []CancelledRunsOnlyIfOverwritten
  BY Inductive, PTL DEF IInv, CancelSticks, CancelledRunsOnlyIfOverwritten

-----------------------------------------------------------------------------
(* The accounting of the list, for any number of threads of every kind.    *)

\* A step that takes no thread's entry and adds none.
LEMMA SameHolders ==
  ASSUME EntriesHeld,
         \A t \in Tasks : /\ Holders(t)' = Holders(t)
                          /\ taskList'[t] = taskList[t] /\ kept'[t] = kept[t]
  PROVE  EntriesHeld'
  BY DEF EntriesHeld

\* Only t changes hands, and the counts follow.
LEMMA OtherHolders ==
  ASSUME EntriesHeld, NEW t \in Tasks,
         \A u \in Tasks \ {t} : /\ Holders(u)' = Holders(u)
                                /\ taskList'[u] = taskList[u] /\ kept'[u] = kept[u],
         taskList'[t] = Cardinality(Holders(t)') + kept'[t]
  PROVE  EntriesHeld'
  BY DEF EntriesHeld

\* The counts of a task's holders when one is added or leaves.
LEMMA HolderCounts ==
  ASSUME NEW t \in Tasks
  PROVE  /\ Cardinality(Holders(t)) \in Nat
         /\ \A s \in Starters \ Holders(t) :
              Cardinality(Holders(t) \cup {s}) = Cardinality(Holders(t)) + 1
         /\ \A s \in Holders(t) :
              /\ Cardinality(Holders(t) \ {s}) = Cardinality(Holders(t)) - 1
              /\ Cardinality(Holders(t)) >= 1
  <1>1. IsFiniteSet(Holders(t)) BY FS_Subset, TaskAssumption DEF Holders
  <1>2. Cardinality(Holders(t)) \in Nat BY <1>1, FS_CardinalityType
  <1>3. ASSUME NEW s \in Starters \ Holders(t)
        PROVE  Cardinality(Holders(t) \cup {s}) = Cardinality(Holders(t)) + 1
    BY <1>1, <1>3, FS_AddElement
  <1>4. ASSUME NEW s \in Holders(t)
        PROVE  Cardinality(Holders(t) \ {s}) = Cardinality(Holders(t)) - 1
    BY <1>1, <1>4, FS_RemoveElement
  <1>5. ASSUME NEW s \in Holders(t) PROVE Cardinality(Holders(t)) >= 1
    <2>1. Cardinality(Holders(t)) # 0 BY <1>1, <1>5, FS_EmptySet
    <2> QED BY <1>2, <2>1
  <1> QED BY <1>2, <1>3, <1>4, <1>5

\* Nobody has an idle task in hand.
LEMMA IdleIsFree ==
  ASSUME IInv, EntriesHeld, NEW t \in Tasks, state[t] = "IDLE"
  PROVE  Idle(t)
  <1>1. taskList[t] = 0 /\ kept[t] \in Nat /\ taskList[t] = Cardinality(Holders(t)) + kept[t]
    BY DEF IInv, TaskTypeOK, ListedOnceEach, EntriesHeld
  <1>2. Cardinality(Holders(t)) = 0 BY <1>1, HolderCounts
  <1>3. ASSUME NEW s \in Holders(t) PROVE FALSE
    <2>1. Cardinality(Holders(t)) >= 1 BY <1>3, HolderCounts
    <2> QED BY <1>2, <2>1
  <1> QED BY <1>3 DEF Holders, Idle

\* A thread that comes to list a task has no thread that runs it.
LEMMA OneRunStep ==
  ASSUME IInv, EntriesHeld, OneRunEach, [TaskNext]_taskVars
  PROVE  OneRunEach'
  <1> USE TaskAssumption DEF life, starter, worker, canceller, leftover, history
  <1>0. TaskTypeOK /\ InHand BY DEF IInv
  <1>1. ASSUME NEW q \in Starters, NEW u \in Tasks, start(q, u) PROVE OneRunEach'
    BY <1>1, <1>0 DEF TaskTypeOK, InHand, OneRunEach, Runs, start, StarterAt
  <1>2. ASSUME NEW q \in Starters, StartCheckState(q) PROVE OneRunEach'
    <2>1. starting[q] \in Tasks BY <1>2, <1>0 DEF StartCheckState, InHand, TaskTypeOK
    <2>2. CASE state[starting[q]] = "IDLE"
      <3>1. wpc[<<starting[q], q>>] = "none" BY <2>1, <2>2, IdleIsFree DEF Idle
      <3> QED BY <1>2, <1>0, <2>2, <3>1 DEF TaskTypeOK, OneRunEach, StartCheckState
    <2>3. CASE state[starting[q]] # "IDLE"
      BY <1>2, <1>0, <2>3 DEF TaskTypeOK, OneRunEach, StartCheckState
    <2> QED BY <2>2, <2>3
  <1>3. ASSUME NEW q \in Starters, StartSetOwner(q) PROVE OneRunEach'
    BY <1>3, <1>0 DEF TaskTypeOK, InHand, OneRunEach, Runs, StartSetOwner, StarterAt
  <1>4. ASSUME NEW q \in Starters, StartSetState(q) PROVE OneRunEach'
    BY <1>4, <1>0 DEF TaskTypeOK, InHand, OneRunEach, Runs, StartSetState, StarterAt
  <1>5. ASSUME NEW q \in Starters, StartPush(q) PROVE OneRunEach'
    BY <1>5, <1>0 DEF TaskTypeOK, InHand, OneRunEach, Runs, StartPush, StarterAt
  <1>6. ASSUME NEW q \in Starters, StartPool(q) PROVE OneRunEach'
    BY <1>6, <1>0 DEF TaskTypeOK, InHand, OneRunEach, Runs, StartPool, StarterAt
  <1>7. ASSUME NEW q \in Starters, StartPoolFails(q) PROVE OneRunEach'
    BY <1>7, <1>0 DEF TaskTypeOK, InHand, OneRunEach, Runs, StartPoolFails, StarterAt
  <1>8. ASSUME NEW q \in Starters, StartUndoOwner(q) PROVE OneRunEach'
    BY <1>8, <1>0 DEF TaskTypeOK, InHand, OneRunEach, Runs, StartUndoOwner, StarterAt
  <1>9. ASSUME NEW q \in Starters, StartUndoList(q) PROVE OneRunEach'
    BY <1>9, <1>0 DEF TaskTypeOK, InHand, OneRunEach, Runs, StartUndoList, StarterAt
  <1>10. ASSUME NEW u \in Tasks, NEW q \in Starters, RunGetOwner(u, q) PROVE OneRunEach'
    BY <1>10, <1>0 DEF TaskTypeOK, InHand, OneRunEach, Runs, RunGetOwner, WorkerAt
  <1>11. ASSUME NEW u \in Tasks, NEW q \in Starters, RunExchange(u, q) PROVE OneRunEach'
    BY <1>11, <1>0 DEF TaskTypeOK, InHand, OneRunEach, Runs, RunExchange, WorkerAt
  <1>12. ASSUME NEW u \in Tasks, NEW q \in Starters, RunBody(u, q) PROVE OneRunEach'
    BY <1>12, <1>0 DEF TaskTypeOK, InHand, OneRunEach, Runs, RunBody, WorkerAt
  <1>13. ASSUME NEW u \in Tasks, NEW q \in Starters, RunFinish(u, q) PROVE OneRunEach'
    BY <1>13, <1>0 DEF TaskTypeOK, InHand, OneRunEach, Runs, RunFinish, WorkerAt
  <1>14. ASSUME NEW u \in Tasks, NEW q \in Starters, TaskFinishedPost(u, q) PROVE OneRunEach'
    BY <1>14, <1>0 DEF TaskTypeOK, InHand, OneRunEach, Runs, TaskFinishedPost, WorkerAt
  <1>15. ASSUME NEW u \in Tasks, NEW q \in Starters, TaskFinishedErase(u, q) PROVE OneRunEach'
    BY <1>15, <1>0 DEF TaskTypeOK, InHand, OneRunEach, Runs, TaskFinishedErase, WorkerAt
  <1>16. ASSUME NEW c \in Cancellers, NEW u \in Tasks, cancel(c, u) PROVE OneRunEach'
    BY <1>16, <1>0 DEF TaskTypeOK, InHand, OneRunEach, Runs, cancel
  <1>17. ASSUME NEW c \in Cancellers, cancelAll(c) PROVE OneRunEach'
    BY <1>17, <1>0 DEF TaskTypeOK, InHand, OneRunEach, Runs, cancelAll
  <1>18. ASSUME NEW c \in Cancellers, NEW u \in Tasks, CancelNext(c, u) PROVE OneRunEach'
    BY <1>18, <1>0 DEF TaskTypeOK, InHand, OneRunEach, Runs, CancelNext
  <1>19. ASSUME NEW c \in Cancellers, CancelAllReturns(c) PROVE OneRunEach'
    BY <1>19, <1>0 DEF TaskTypeOK, InHand, OneRunEach, Runs, CancelAllReturns
  <1>20. ASSUME NEW c \in Cancellers, CancelStore(c) PROVE OneRunEach'
    BY <1>20, <1>0 DEF TaskTypeOK, InHand, OneRunEach, Runs, CancelStore, CancellerAt
  <1>21. ASSUME NEW c \in Cancellers, CancelSetEvent(c) PROVE OneRunEach'
    BY <1>21, <1>0 DEF TaskTypeOK, InHand, OneRunEach, Runs, CancelSetEvent, CancellerAt
  <1>22. ASSUME NEW c \in Cancellers, CancelCheckOwner(c) PROVE OneRunEach'
    BY <1>22, <1>0
       DEF TaskTypeOK, InHand, OneRunEach, Runs, CancelCheckOwner, CancellerAt, CancelDone
  <1>23. ASSUME NEW c \in Cancellers, CancelCallOwner(c) PROVE OneRunEach'
    BY <1>23, <1>0
       DEF TaskTypeOK, InHand, OneRunEach, Runs, CancelCallOwner, CancellerAt, CancelDone
  <1>24. ASSUME NEW u \in Tasks, reset(u) PROVE OneRunEach'
    BY <1>24, <1>0 DEF TaskTypeOK, InHand, OneRunEach, Runs, reset
  <1>25. ASSUME NEW u \in Tasks, NEW q \in Starters, RunObserverThrows(u, q) PROVE OneRunEach'
    BY <1>25, <1>0 DEF TaskTypeOK, InHand, OneRunEach, Runs, RunObserverThrows, WorkerAt
  <1>26. ASSUME NEW c \in Cancellers, CancelObserverThrows(c) PROVE OneRunEach'
    BY <1>26, <1>0 DEF TaskTypeOK, InHand, OneRunEach, Runs, CancelObserverThrows, CancellerAt,
       CancelDone
  <1>27. CASE UNCHANGED taskVars
    BY <1>27, <1>0 DEF TaskTypeOK, InHand, OneRunEach, Runs, taskVars
  <1> QED BY <1>1, <1>2, <1>3, <1>4, <1>5, <1>6, <1>7, <1>8, <1>9, <1>10, <1>11, <1>12, <1>13,
             <1>14, <1>15, <1>16, <1>17, <1>18, <1>19, <1>20, <1>21, <1>22, <1>23, <1>24,
             <1>25, <1>26, <1>27
          DEF TaskNext, StartStep, Run, CancelStep

\* Every action keeps the list and its holders in step.
LEMMA EntriesStep ==
  ASSUME IInv, EntriesHeld, OneRunEach, [TaskNext]_taskVars
  PROVE  EntriesHeld'
  <1> USE TaskAssumption DEF life, starter, worker, canceller, leftover, history
  <1>0. IInv /\ TaskTypeOK /\ InHand /\ EntriesHeld /\ OneRunEach BY DEF IInv
  <1>1. ASSUME NEW q \in Starters, NEW u \in Tasks, start(q, u) PROVE EntriesHeld'
    <2>1. \A t \in Tasks : /\ Holders(t)' = Holders(t)
                            /\ taskList'[t] = taskList[t] /\ kept'[t] = kept[t]
      BY <1>1, <1>0 DEF TaskTypeOK, InHand, OneRunEach, Holders, Runs, start, StarterAt
    <2> QED BY <1>0, <2>1, SameHolders
  <1>2. ASSUME NEW q \in Starters, StartCheckState(q) PROVE EntriesHeld'
    <2>1. \A t \in Tasks : /\ Holders(t)' = Holders(t)
                            /\ taskList'[t] = taskList[t] /\ kept'[t] = kept[t]
      BY <1>2, <1>0 DEF TaskTypeOK, InHand, OneRunEach, Holders, Runs, StartCheckState
    <2> QED BY <1>0, <2>1, SameHolders
  <1>3. ASSUME NEW q \in Starters, StartSetOwner(q) PROVE EntriesHeld'
    <2>1. \A t \in Tasks : /\ Holders(t)' = Holders(t)
                            /\ taskList'[t] = taskList[t] /\ kept'[t] = kept[t]
      BY <1>3, <1>0 DEF TaskTypeOK, InHand, OneRunEach, Holders, Runs, StartSetOwner, StarterAt
    <2> QED BY <1>0, <2>1, SameHolders
  <1>4. ASSUME NEW q \in Starters, StartSetState(q) PROVE EntriesHeld'
    <2>1. \A t \in Tasks : /\ Holders(t)' = Holders(t)
                            /\ taskList'[t] = taskList[t] /\ kept'[t] = kept[t]
      BY <1>4, <1>0 DEF TaskTypeOK, InHand, OneRunEach, Holders, Runs, StartSetState, StarterAt
    <2> QED BY <1>0, <2>1, SameHolders
  <1>5. ASSUME NEW q \in Starters, StartPush(q) PROVE EntriesHeld'
    <2>0. PICK u \in Tasks : u = starting[q]
      BY <1>5, <1>0 DEF TaskTypeOK, InHand, StartPush, StarterAt
    <2>1. u \in Tasks /\ q \in Starters \ Holders(u)
      BY <1>5, <1>0, <2>0 DEF TaskTypeOK, InHand, OneRunEach, Holders, StartPush, StarterAt
    <2>2. Holders(u)' = Holders(u) \cup {q}
      BY <1>5, <1>0, <2>0 DEF TaskTypeOK, InHand, Holders, Runs, StartPush, StarterAt
    <2>3. \A t \in Tasks \ {u} : /\ Holders(t)' = Holders(t)
                                   /\ taskList'[t] = taskList[t] /\ kept'[t] = kept[t]
      BY <1>5, <1>0, <2>0 DEF TaskTypeOK, InHand, Holders, Runs, StartPush, StarterAt
    <2>4. taskList'[u] = taskList[u] + 1 /\ kept'[u] = kept[u]
      BY <1>5, <1>0, <2>0 DEF TaskTypeOK, StartPush, StarterAt
    <2>5. /\ kept[u] \in Nat /\ taskList[u] = Cardinality(Holders(u)) + kept[u]
          /\ Cardinality(Holders(u)) \in Nat
          /\ Cardinality(Holders(u)') = Cardinality(Holders(u)) + 1
      BY <1>0, <2>1, <2>2, HolderCounts DEF TaskTypeOK, EntriesHeld
    <2>6. taskList'[u] = Cardinality(Holders(u)') + kept'[u] BY <2>4, <2>5
    <2> QED BY <1>0, <2>1, <2>3, <2>6, OtherHolders
  <1>6. ASSUME NEW q \in Starters, StartPool(q) PROVE EntriesHeld'
    <2>1. \A t \in Tasks : /\ Holders(t)' = Holders(t)
                            /\ taskList'[t] = taskList[t] /\ kept'[t] = kept[t]
      BY <1>6, <1>0 DEF TaskTypeOK, InHand, OneRunEach, Holders, Runs, StartPool, StarterAt
    <2> QED BY <1>0, <2>1, SameHolders
  <1>7. ASSUME NEW q \in Starters, StartPoolFails(q) PROVE EntriesHeld'
    <2>1. \A t \in Tasks : /\ Holders(t)' = Holders(t)
                            /\ taskList'[t] = taskList[t] /\ kept'[t] = kept[t]
      BY <1>7, <1>0 DEF TaskTypeOK, InHand, OneRunEach, Holders, Runs, StartPoolFails, StarterAt
    <2> QED BY <1>0, <2>1, SameHolders
  <1>8. ASSUME NEW q \in Starters, StartUndoOwner(q) PROVE EntriesHeld'
    <2>1. \A t \in Tasks : /\ Holders(t)' = Holders(t)
                            /\ taskList'[t] = taskList[t] /\ kept'[t] = kept[t]
      BY <1>8, <1>0 DEF TaskTypeOK, InHand, OneRunEach, Holders, Runs, StartUndoOwner, StarterAt
    <2> QED BY <1>0, <2>1, SameHolders
  <1>9. ASSUME NEW q \in Starters, StartUndoList(q) PROVE EntriesHeld'
    <2>0. PICK u \in Tasks : u = starting[q]
      BY <1>9, <1>0 DEF TaskTypeOK, InHand, StartUndoList, StarterAt
    <2>1. q \in Holders(u) /\ u \in Tasks
      BY <1>9, <1>0, <2>0 DEF TaskTypeOK, InHand, Holders, StartUndoList, StarterAt
    <2>2. Holders(u)' = Holders(u) \ {q}
      BY <1>9, <1>0, <2>0
         DEF TaskTypeOK, InHand, OneRunEach, Holders, Runs, StartUndoList, StarterAt
    <2>3. \A t \in Tasks \ {u} :
            /\ Holders(t)' = Holders(t)
            /\ taskList'[t] = taskList[t] /\ kept'[t] = kept[t]
      BY <1>9, <1>0, <2>0 DEF TaskTypeOK, InHand, Holders, Runs, Drop, StartUndoList, StarterAt
    <2>4. /\ taskList[u] \in Nat /\ kept[u] \in Nat
          /\ taskList[u] = Cardinality(Holders(u)) + kept[u]
          /\ Cardinality(Holders(u)) \in Nat /\ Cardinality(Holders(u)) >= 1
          /\ Cardinality(Holders(u)') = Cardinality(Holders(u)) - 1
      BY <1>0, <2>1, <2>2, HolderCounts, Bounds DEF TaskTypeOK, EntriesHeld
    <2>5. taskList'[u] = taskList[u] - 1 /\ kept'[u] = kept[u]
      BY <1>9, <1>0, <2>0, <2>4 DEF TaskTypeOK, Drop, StartUndoList, StarterAt
    <2>6. taskList'[u] = Cardinality(Holders(u)') + kept'[u] BY <2>4, <2>5
    <2> QED BY <1>0, <2>1, <2>3, <2>6, OtherHolders
  <1>10. ASSUME NEW u \in Tasks, NEW q \in Starters, RunGetOwner(u, q) PROVE EntriesHeld'
    <2>1. \A t \in Tasks : /\ Holders(t)' = Holders(t)
                            /\ taskList'[t] = taskList[t] /\ kept'[t] = kept[t]
      BY <1>10, <1>0 DEF TaskTypeOK, InHand, OneRunEach, Holders, Runs, RunGetOwner, WorkerAt
    <2> QED BY <1>0, <2>1, SameHolders
  <1>11. ASSUME NEW u \in Tasks, NEW q \in Starters, RunExchange(u, q) PROVE EntriesHeld'
    <2>1. \A t \in Tasks : /\ Holders(t)' = Holders(t)
                            /\ taskList'[t] = taskList[t] /\ kept'[t] = kept[t]
      BY <1>11, <1>0 DEF TaskTypeOK, InHand, OneRunEach, Holders, Runs, RunExchange, WorkerAt
    <2> QED BY <1>0, <2>1, SameHolders
  <1>12. ASSUME NEW u \in Tasks, NEW q \in Starters, RunBody(u, q) PROVE EntriesHeld'
    <2>1. \A t \in Tasks : /\ Holders(t)' = Holders(t)
                            /\ taskList'[t] = taskList[t] /\ kept'[t] = kept[t]
      BY <1>12, <1>0 DEF TaskTypeOK, InHand, OneRunEach, Holders, Runs, RunBody, WorkerAt
    <2> QED BY <1>0, <2>1, SameHolders
  <1>13. ASSUME NEW u \in Tasks, NEW q \in Starters, RunFinish(u, q) PROVE EntriesHeld'
    <2>1. CASE pOwner[<<u, q>>]
      <3>1. \A t \in Tasks : /\ Holders(t)' = Holders(t)
                              /\ taskList'[t] = taskList[t] /\ kept'[t] = kept[t]
        BY <1>13, <1>0, <2>1 DEF TaskTypeOK, Holders, Runs, RunFinish, WorkerAt
      <3> QED BY <1>0, <3>1, SameHolders
    <2>2. CASE ~pOwner[<<u, q>>]
      <3>1. q \in Holders(u) /\ u \in Tasks
        BY <1>13, <1>0, <2>2 DEF TaskTypeOK, InHand, Holders, RunFinish, WorkerAt
      <3>2. Holders(u)' = Holders(u) \ {q}
        BY <1>13, <1>0, <2>2 DEF TaskTypeOK, InHand, OneRunEach, Holders, Runs, RunFinish, WorkerAt
      <3>3. \A t \in Tasks \ {u} :
              /\ Holders(t)' = Holders(t)
              /\ taskList'[t] = taskList[t] /\ kept'[t] = kept[t]
        BY <1>13, <1>0, <2>2 DEF TaskTypeOK, InHand, Holders, Runs, Keep, RunFinish, WorkerAt
      <3>4. /\ taskList[u] \in Nat /\ kept[u] \in Nat
            /\ taskList[u] = Cardinality(Holders(u)) + kept[u]
            /\ Cardinality(Holders(u)) \in Nat /\ Cardinality(Holders(u)) >= 1
            /\ Cardinality(Holders(u)') = Cardinality(Holders(u)) - 1
        BY <1>0, <3>1, <3>2, HolderCounts, Bounds DEF TaskTypeOK, EntriesHeld
      <3>5. taskList'[u] = taskList[u] /\ kept'[u] = kept[u] + 1
        BY <1>13, <1>0, <2>2 DEF TaskTypeOK, Keep, RunFinish, WorkerAt
      <3>6. taskList'[u] = Cardinality(Holders(u)') + kept'[u] BY <3>4, <3>5
      <3> QED BY <1>0, <3>1, <3>3, <3>6, OtherHolders
    <2> QED BY <2>1, <2>2
  <1>14. ASSUME NEW u \in Tasks, NEW q \in Starters, TaskFinishedPost(u, q) PROVE EntriesHeld'
    <2>1. \A t \in Tasks : /\ Holders(t)' = Holders(t)
                            /\ taskList'[t] = taskList[t] /\ kept'[t] = kept[t]
      BY <1>14, <1>0 DEF TaskTypeOK, InHand, OneRunEach, Holders, Runs, TaskFinishedPost, WorkerAt
    <2> QED BY <1>0, <2>1, SameHolders
  <1>15. ASSUME NEW u \in Tasks, NEW q \in Starters, TaskFinishedErase(u, q) PROVE EntriesHeld'
    <2>1. q \in Holders(u) /\ u \in Tasks
      BY <1>15, <1>0 DEF TaskTypeOK, InHand, Holders, TaskFinishedErase, WorkerAt
    <2>2. Holders(u)' = Holders(u) \ {q}
      BY <1>15, <1>0 DEF TaskTypeOK, InHand, OneRunEach, Holders, Runs, TaskFinishedErase, WorkerAt
    <2>3. \A t \in Tasks \ {u} :
            /\ Holders(t)' = Holders(t)
            /\ taskList'[t] = taskList[t] /\ kept'[t] = kept[t]
      BY <1>15, <1>0 DEF TaskTypeOK, InHand, Holders, Runs, Drop, TaskFinishedErase, WorkerAt
    <2>4. /\ taskList[u] \in Nat /\ kept[u] \in Nat
          /\ taskList[u] = Cardinality(Holders(u)) + kept[u]
          /\ Cardinality(Holders(u)) \in Nat /\ Cardinality(Holders(u)) >= 1
          /\ Cardinality(Holders(u)') = Cardinality(Holders(u)) - 1
      BY <1>0, <2>1, <2>2, HolderCounts, Bounds DEF TaskTypeOK, EntriesHeld
    <2>5. taskList'[u] = taskList[u] - 1 /\ kept'[u] = kept[u]
      BY <1>15, <1>0, <2>1, <2>4 DEF TaskTypeOK, Drop, TaskFinishedErase, WorkerAt
    <2>6. taskList'[u] = Cardinality(Holders(u)') + kept'[u] BY <2>4, <2>5
    <2> QED BY <1>0, <2>1, <2>3, <2>6, OtherHolders
  <1>16. ASSUME NEW c \in Cancellers, NEW u \in Tasks, cancel(c, u) PROVE EntriesHeld'
    <2>1. \A t \in Tasks : /\ Holders(t)' = Holders(t)
                            /\ taskList'[t] = taskList[t] /\ kept'[t] = kept[t]
      BY <1>16, <1>0 DEF TaskTypeOK, InHand, OneRunEach, Holders, Runs, cancel
    <2> QED BY <1>0, <2>1, SameHolders
  <1>17. ASSUME NEW c \in Cancellers, cancelAll(c) PROVE EntriesHeld'
    <2>1. \A t \in Tasks : /\ Holders(t)' = Holders(t)
                            /\ taskList'[t] = taskList[t] /\ kept'[t] = kept[t]
      BY <1>17, <1>0 DEF TaskTypeOK, InHand, OneRunEach, Holders, Runs, cancelAll
    <2> QED BY <1>0, <2>1, SameHolders
  <1>18. ASSUME NEW c \in Cancellers, NEW u \in Tasks, CancelNext(c, u) PROVE EntriesHeld'
    <2>1. \A t \in Tasks : /\ Holders(t)' = Holders(t)
                            /\ taskList'[t] = taskList[t] /\ kept'[t] = kept[t]
      BY <1>18, <1>0 DEF TaskTypeOK, InHand, OneRunEach, Holders, Runs, CancelNext
    <2> QED BY <1>0, <2>1, SameHolders
  <1>19. ASSUME NEW c \in Cancellers, CancelAllReturns(c) PROVE EntriesHeld'
    <2>1. \A t \in Tasks : /\ Holders(t)' = Holders(t)
                            /\ taskList'[t] = taskList[t] /\ kept'[t] = kept[t]
      BY <1>19, <1>0 DEF TaskTypeOK, InHand, OneRunEach, Holders, Runs, CancelAllReturns
    <2> QED BY <1>0, <2>1, SameHolders
  <1>20. ASSUME NEW c \in Cancellers, CancelStore(c) PROVE EntriesHeld'
    <2>1. \A t \in Tasks : /\ Holders(t)' = Holders(t)
                            /\ taskList'[t] = taskList[t] /\ kept'[t] = kept[t]
      BY <1>20, <1>0 DEF TaskTypeOK, InHand, OneRunEach, Holders, Runs, CancelStore, CancellerAt
    <2> QED BY <1>0, <2>1, SameHolders
  <1>21. ASSUME NEW c \in Cancellers, CancelSetEvent(c) PROVE EntriesHeld'
    <2>1. \A t \in Tasks : /\ Holders(t)' = Holders(t)
                            /\ taskList'[t] = taskList[t] /\ kept'[t] = kept[t]
      BY <1>21, <1>0 DEF TaskTypeOK, InHand, OneRunEach, Holders, Runs, CancelSetEvent, CancellerAt
    <2> QED BY <1>0, <2>1, SameHolders
  <1>22. ASSUME NEW c \in Cancellers, CancelCheckOwner(c) PROVE EntriesHeld'
    <2>1. \A t \in Tasks : /\ Holders(t)' = Holders(t)
                            /\ taskList'[t] = taskList[t] /\ kept'[t] = kept[t]
      BY <1>22, <1>0 DEF TaskTypeOK, InHand, OneRunEach, Holders, Runs, CancelCheckOwner,
         CancellerAt, CancelDone
    <2> QED BY <1>0, <2>1, SameHolders
  <1>23. ASSUME NEW c \in Cancellers, CancelCallOwner(c) PROVE EntriesHeld'
    <2>1. \A t \in Tasks : /\ Holders(t)' = Holders(t)
                            /\ taskList'[t] = taskList[t] /\ kept'[t] = kept[t]
      BY <1>23, <1>0 DEF TaskTypeOK, InHand, OneRunEach, Holders, Runs, CancelCallOwner,
         CancellerAt, CancelDone
    <2> QED BY <1>0, <2>1, SameHolders
  <1>24. ASSUME NEW u \in Tasks, reset(u) PROVE EntriesHeld'
    <2>1. \A t \in Tasks : /\ Holders(t)' = Holders(t)
                            /\ taskList'[t] = taskList[t] /\ kept'[t] = kept[t]
      BY <1>24, <1>0 DEF TaskTypeOK, InHand, OneRunEach, Holders, Runs, reset
    <2> QED BY <1>0, <2>1, SameHolders
  <1>25. ASSUME NEW u \in Tasks, NEW q \in Starters, RunObserverThrows(u, q) PROVE EntriesHeld'
    <2>0. /\ wpc[<<u, q>>] # "none" /\ wpc' = [wpc EXCEPT ![<<u, q>>] = "none"]
          /\ kept' = [kept EXCEPT ![u] = @ + 1] /\ UNCHANGED <<taskList, spc, starting>>
      BY <1>25 DEF RunObserverThrows, WorkerAt, Keep
    <2>1. q \in Holders(u) /\ u \in Tasks
      BY <2>0, <1>0 DEF TaskTypeOK, InHand, Holders
    <2>2. Holders(u)' = Holders(u) \ {q}
      BY <2>0, <1>0 DEF TaskTypeOK, InHand, OneRunEach, Holders, Runs
    <2>3. \A t \in Tasks \ {u} :
            /\ Holders(t)' = Holders(t)
            /\ taskList'[t] = taskList[t] /\ kept'[t] = kept[t]
      BY <2>0, <1>0 DEF TaskTypeOK, InHand, Holders, Runs, Drop
    <2>4. /\ taskList[u] \in Nat /\ kept[u] \in Nat
          /\ taskList[u] = Cardinality(Holders(u)) + kept[u]
          /\ Cardinality(Holders(u)) \in Nat /\ Cardinality(Holders(u)) >= 1
          /\ Cardinality(Holders(u)') = Cardinality(Holders(u)) - 1
      BY <1>0, <2>1, <2>2, HolderCounts, Bounds DEF TaskTypeOK, EntriesHeld
    <2>5. taskList'[u] = taskList[u] /\ kept'[u] = kept[u] + 1
      BY <2>0, <1>0 DEF TaskTypeOK, Keep
    <2>6. taskList'[u] = Cardinality(Holders(u)') + kept'[u] BY <2>4, <2>5
    <2> QED BY <1>0, <2>1, <2>3, <2>6, OtherHolders
  <1>26. ASSUME NEW c \in Cancellers, CancelObserverThrows(c) PROVE EntriesHeld'
    <2>1. \A t \in Tasks : /\ Holders(t)' = Holders(t)
                            /\ taskList'[t] = taskList[t] /\ kept'[t] = kept[t]
      BY <1>26, <1>0 DEF TaskTypeOK, InHand, OneRunEach, Holders, Runs, CancelObserverThrows,
         CancellerAt, CancelDone
    <2> QED BY <1>0, <2>1, SameHolders
  <1>27. CASE UNCHANGED taskVars
    <2>1. \A t \in Tasks : /\ Holders(t)' = Holders(t)
                            /\ taskList'[t] = taskList[t] /\ kept'[t] = kept[t]
      BY <1>27, <1>0 DEF TaskTypeOK, InHand, OneRunEach, Holders, Runs, taskVars
    <2> QED BY <1>0, <2>1, SameHolders
  <1> QED BY <1>1, <1>2, <1>3, <1>4, <1>5, <1>6, <1>7, <1>8, <1>9, <1>10, <1>11, <1>12, <1>13,
             <1>14, <1>15, <1>16, <1>17, <1>18, <1>19, <1>20, <1>21, <1>22, <1>23, <1>24,
             <1>25, <1>26, <1>27
          DEF TaskNext, StartStep, Run, CancelStep

\* Every action leaves a task that is in one thread's hands there, unless another
\* start() comes.
LEMMA UndisturbedStep ==
  ASSUME IInv, EntriesHeld, OneRunEach, Explained, [TaskNext]_taskVars,
         NEW t \in Tasks, t \notin contested'
  PROVE  Undisturbed(t)'
  <1> USE TaskAssumption DEF life, starter, worker, canceller, leftover, history
  <1>0. /\ TaskTypeOK /\ InHand /\ OneRunEach
        /\ t \notin contested => Undisturbed(t)
        /\ t \notin contested'
        /\ \A s \in Starters : <<t, s>> \in Runs
    BY DEF IInv, Explained, Runs
  <1>1. ASSUME NEW q \in Starters, NEW u \in Tasks, start(q, u) PROVE Undisturbed(t)'
    BY <1>1, <1>0 DEF TaskTypeOK, InHand, Undisturbed, Busy, Runs, start, StarterAt
  <1>2. ASSUME NEW q \in Starters, StartCheckState(q) PROVE Undisturbed(t)'
    <2>1. CASE state[starting[q]] = "IDLE"
      BY <1>2, <1>0, <2>1 DEF TaskTypeOK, Undisturbed, Busy, StartCheckState
    <2>2. CASE state[starting[q]] # "IDLE"
      <3>1. /\ starting[q] \in Tasks /\ starting'[q] = Null
            /\ owner' = [owner EXCEPT ![starting[q]] = FALSE]
            /\ \A r \in Starters \ {q} : starting'[r] = starting[r] /\ spc'[r] = spc[r]
            /\ UNCHANGED <<wpc, pOwner, contested>>
        BY <1>2, <1>0, <2>2 DEF TaskTypeOK, InHand, StartCheckState
      <3>2. CASE starting[q] = t
        <4>1. \A r \in Starters : ~Busy(r, t)'
          BY <1>0, <3>1, <3>2 DEF Undisturbed, Busy
        <4> QED BY <1>0, <4>1 DEF Undisturbed, Busy
      <3>3. CASE starting[q] # t
        <4>1. owner'[t] = owner[t] BY <3>1, <3>3, <1>0 DEF TaskTypeOK
        <4> QED BY <1>0, <3>1, <3>3, <4>1 DEF Undisturbed, Busy
      <3> QED BY <3>2, <3>3
    <2> QED BY <2>1, <2>2
  <1>3. ASSUME NEW q \in Starters, StartSetOwner(q) PROVE Undisturbed(t)'
    BY <1>3, <1>0 DEF TaskTypeOK, InHand, Undisturbed, Busy, Runs, StartSetOwner, StarterAt
  <1>4. ASSUME NEW q \in Starters, StartSetState(q) PROVE Undisturbed(t)'
    BY <1>4, <1>0 DEF TaskTypeOK, InHand, Undisturbed, Busy, Runs, StartSetState, StarterAt
  <1>5. ASSUME NEW q \in Starters, StartPush(q) PROVE Undisturbed(t)'
    BY <1>5, <1>0 DEF TaskTypeOK, InHand, Undisturbed, Busy, Runs, StartPush, StarterAt
  <1>6. ASSUME NEW q \in Starters, StartPool(q) PROVE Undisturbed(t)'
    BY <1>6, <1>0 DEF TaskTypeOK, InHand, Undisturbed, Busy, Runs, StartPool, StarterAt
  <1>7. ASSUME NEW q \in Starters, StartPoolFails(q) PROVE Undisturbed(t)'
    BY <1>7, <1>0 DEF TaskTypeOK, InHand, Undisturbed, Busy, Runs, StartPoolFails, StarterAt
  <1>8. ASSUME NEW q \in Starters, StartUndoOwner(q) PROVE Undisturbed(t)'
    BY <1>8, <1>0 DEF TaskTypeOK, InHand, Undisturbed, Busy, Runs, StartUndoOwner, StarterAt
  <1>9. ASSUME NEW q \in Starters, StartUndoList(q) PROVE Undisturbed(t)'
    BY <1>9, <1>0 DEF TaskTypeOK, InHand, Undisturbed, Busy, Runs, StartUndoList, StarterAt
  <1>10. ASSUME NEW u \in Tasks, NEW q \in Starters, RunGetOwner(u, q) PROVE Undisturbed(t)'
    BY <1>10, <1>0 DEF TaskTypeOK, InHand, Undisturbed, Busy, Runs, RunGetOwner, WorkerAt
  <1>11. ASSUME NEW u \in Tasks, NEW q \in Starters, RunExchange(u, q) PROVE Undisturbed(t)'
    BY <1>11, <1>0 DEF TaskTypeOK, InHand, Undisturbed, Busy, Runs, RunExchange, WorkerAt
  <1>12. ASSUME NEW u \in Tasks, NEW q \in Starters, RunBody(u, q) PROVE Undisturbed(t)'
    BY <1>12, <1>0 DEF TaskTypeOK, InHand, Undisturbed, Busy, Runs, RunBody, WorkerAt
  <1>13. ASSUME NEW u \in Tasks, NEW q \in Starters, RunFinish(u, q) PROVE Undisturbed(t)'
    BY <1>13, <1>0 DEF TaskTypeOK, InHand, Undisturbed, Busy, Runs, RunFinish, WorkerAt
  <1>14. ASSUME NEW u \in Tasks, NEW q \in Starters, TaskFinishedPost(u, q) PROVE Undisturbed(t)'
    BY <1>14, <1>0 DEF TaskTypeOK, InHand, Undisturbed, Busy, Runs, TaskFinishedPost, WorkerAt
  <1>15. ASSUME NEW u \in Tasks, NEW q \in Starters, TaskFinishedErase(u, q) PROVE Undisturbed(t)'
    BY <1>15, <1>0 DEF TaskTypeOK, InHand, Undisturbed, Busy, Runs, TaskFinishedErase, WorkerAt
  <1>16. ASSUME NEW c \in Cancellers, NEW u \in Tasks, cancel(c, u) PROVE Undisturbed(t)'
    BY <1>16, <1>0 DEF TaskTypeOK, InHand, Undisturbed, Busy, Runs, cancel
  <1>17. ASSUME NEW c \in Cancellers, cancelAll(c) PROVE Undisturbed(t)'
    BY <1>17, <1>0 DEF TaskTypeOK, InHand, Undisturbed, Busy, Runs, cancelAll
  <1>18. ASSUME NEW c \in Cancellers, NEW u \in Tasks, CancelNext(c, u) PROVE Undisturbed(t)'
    BY <1>18, <1>0 DEF TaskTypeOK, InHand, Undisturbed, Busy, Runs, CancelNext
  <1>19. ASSUME NEW c \in Cancellers, CancelAllReturns(c) PROVE Undisturbed(t)'
    BY <1>19, <1>0 DEF TaskTypeOK, InHand, Undisturbed, Busy, Runs, CancelAllReturns
  <1>20. ASSUME NEW c \in Cancellers, CancelStore(c) PROVE Undisturbed(t)'
    BY <1>20, <1>0 DEF TaskTypeOK, InHand, Undisturbed, Busy, Runs, CancelStore, CancellerAt
  <1>21. ASSUME NEW c \in Cancellers, CancelSetEvent(c) PROVE Undisturbed(t)'
    BY <1>21, <1>0 DEF TaskTypeOK, InHand, Undisturbed, Busy, Runs, CancelSetEvent, CancellerAt
  <1>22. ASSUME NEW c \in Cancellers, CancelCheckOwner(c) PROVE Undisturbed(t)'
    BY <1>22, <1>0 DEF TaskTypeOK, InHand, Undisturbed, Busy, Runs, CancelCheckOwner, CancellerAt,
       CancelDone
  <1>23. ASSUME NEW c \in Cancellers, CancelCallOwner(c) PROVE Undisturbed(t)'
    BY <1>23, <1>0 DEF TaskTypeOK, InHand, Undisturbed, Busy, Runs, CancelCallOwner, CancellerAt,
       CancelDone
  <1>24. ASSUME NEW u \in Tasks, reset(u) PROVE Undisturbed(t)'
    <2>1. CASE u = t
      <3>1. \A r \in Starters : wpc'[<<t, r>>] = "none" /\ starting'[r] # t
        BY <1>24, <2>1 DEF reset, Idle
      <3> QED BY <3>1 DEF Undisturbed, Busy
    <2>2. CASE u # t
      BY <1>24, <1>0, <2>2 DEF Undisturbed, Busy, reset
    <2> QED BY <2>1, <2>2
  <1>25. ASSUME NEW u \in Tasks, NEW q \in Starters, RunObserverThrows(u, q) PROVE Undisturbed(t)'
    <2>1. /\ wpc' = [wpc EXCEPT ![<<u, q>>] = "none"]
          /\ UNCHANGED <<owner, spc, starting, pOwner, contested>>
      BY <1>25 DEF RunObserverThrows, WorkerAt
    <2> QED BY <2>1, <1>0 DEF TaskTypeOK, Undisturbed, Busy
  <1>26. ASSUME NEW c \in Cancellers, CancelObserverThrows(c) PROVE Undisturbed(t)'
    BY <1>26, <1>0 DEF TaskTypeOK, InHand, Undisturbed, Busy, Runs, CancelObserverThrows,
       CancellerAt, CancelDone
  <1>27. CASE UNCHANGED taskVars
    BY <1>27, <1>0 DEF TaskTypeOK, InHand, Undisturbed, Busy, Runs, taskVars
  <1> QED BY <1>1, <1>2, <1>3, <1>4, <1>5, <1>6, <1>7, <1>8, <1>9, <1>10, <1>11, <1>12, <1>13,
             <1>14, <1>15, <1>16, <1>17, <1>18, <1>19, <1>20, <1>21, <1>22, <1>23, <1>24,
             <1>25, <1>26, <1>27
          DEF TaskNext, StartStep, Run, CancelStep

\* Every action that leaves an entry behind does so for one of the two reasons.
LEMMA ExplainedStep ==
  ASSUME IInv, EntriesHeld, OneRunEach, Explained, [TaskNext]_taskVars
  PROVE  Explained'
  <1> SUFFICES ASSUME NEW t \in Tasks, kept'[t] > 0 PROVE t \in contested' \cup threw'
    BY UndisturbedStep DEF Explained
  <1> USE TaskAssumption DEF life, starter, worker, canceller, leftover, history
  <1>0. /\ TaskTypeOK /\ kept'[t] > 0
        /\ kept[t] > 0 => t \in contested \cup threw
    BY DEF IInv, Explained
  <1>1. ASSUME NEW q \in Starters, NEW u \in Tasks, start(q, u) PROVE t \in contested' \cup threw'
    BY <1>1, <1>0 DEF start, StarterAt
  <1>2. ASSUME NEW q \in Starters, StartCheckState(q) PROVE t \in contested' \cup threw'
    BY <1>2, <1>0 DEF StartCheckState
  <1>3. ASSUME NEW q \in Starters, StartSetOwner(q) PROVE t \in contested' \cup threw'
    BY <1>3, <1>0 DEF StartSetOwner, StarterAt
  <1>4. ASSUME NEW q \in Starters, StartSetState(q) PROVE t \in contested' \cup threw'
    BY <1>4, <1>0 DEF StartSetState, StarterAt
  <1>5. ASSUME NEW q \in Starters, StartPush(q) PROVE t \in contested' \cup threw'
    BY <1>5, <1>0 DEF StartPush, StarterAt
  <1>6. ASSUME NEW q \in Starters, StartPool(q) PROVE t \in contested' \cup threw'
    BY <1>6, <1>0 DEF StartPool, StarterAt
  <1>7. ASSUME NEW q \in Starters, StartPoolFails(q) PROVE t \in contested' \cup threw'
    BY <1>7, <1>0 DEF StartPoolFails, StarterAt
  <1>8. ASSUME NEW q \in Starters, StartUndoOwner(q) PROVE t \in contested' \cup threw'
    BY <1>8, <1>0 DEF StartUndoOwner, StarterAt
  <1>9. ASSUME NEW q \in Starters, StartUndoList(q) PROVE t \in contested' \cup threw'
    BY <1>9, <1>0 DEF StartUndoList, StarterAt
  <1>10. ASSUME NEW u \in Tasks, NEW q \in Starters, RunGetOwner(u, q)
         PROVE  t \in contested' \cup threw'
    BY <1>10, <1>0 DEF RunGetOwner, WorkerAt
  <1>11. ASSUME NEW u \in Tasks, NEW q \in Starters, RunExchange(u, q)
         PROVE  t \in contested' \cup threw'
    BY <1>11, <1>0 DEF RunExchange, WorkerAt
  <1>12. ASSUME NEW u \in Tasks, NEW q \in Starters, RunBody(u, q)
         PROVE  t \in contested' \cup threw'
    BY <1>12, <1>0 DEF RunBody, WorkerAt
  <1>13. ASSUME NEW u \in Tasks, NEW q \in Starters, RunFinish(u, q)
         PROVE  t \in contested' \cup threw'
    <2>1. CASE pOwner[<<u, q>>] \/ u # t
      <3>1. kept'[t] = kept[t] BY <1>13, <1>0, <2>1 DEF TaskTypeOK, Keep, RunFinish, WorkerAt
      <3> QED BY <1>13, <1>0, <3>1 DEF RunFinish, WorkerAt
    <2>2. CASE ~pOwner[<<u, q>>] /\ u = t
      <3>1. wpc[<<u, q>>] = "finish" BY <1>13 DEF RunFinish, WorkerAt
      <3>2. t \in contested BY <2>2, <3>1 DEF Explained, Undisturbed
      <3> QED BY <1>13, <3>2 DEF RunFinish, WorkerAt
    <2> QED BY <2>1, <2>2
  <1>14. ASSUME NEW u \in Tasks, NEW q \in Starters, TaskFinishedPost(u, q)
         PROVE  t \in contested' \cup threw'
    BY <1>14, <1>0 DEF TaskFinishedPost, WorkerAt
  <1>15. ASSUME NEW u \in Tasks, NEW q \in Starters, TaskFinishedErase(u, q)
         PROVE  t \in contested' \cup threw'
    BY <1>15, <1>0 DEF TaskFinishedErase, WorkerAt
  <1>16. ASSUME NEW c \in Cancellers, NEW u \in Tasks, cancel(c, u)
         PROVE  t \in contested' \cup threw'
    BY <1>16, <1>0 DEF cancel
  <1>17. ASSUME NEW c \in Cancellers, cancelAll(c) PROVE t \in contested' \cup threw'
    BY <1>17, <1>0 DEF cancelAll
  <1>18. ASSUME NEW c \in Cancellers, NEW u \in Tasks, CancelNext(c, u)
         PROVE  t \in contested' \cup threw'
    BY <1>18, <1>0 DEF CancelNext
  <1>19. ASSUME NEW c \in Cancellers, CancelAllReturns(c) PROVE t \in contested' \cup threw'
    BY <1>19, <1>0 DEF CancelAllReturns
  <1>20. ASSUME NEW c \in Cancellers, CancelStore(c) PROVE t \in contested' \cup threw'
    BY <1>20, <1>0 DEF CancelStore, CancellerAt
  <1>21. ASSUME NEW c \in Cancellers, CancelSetEvent(c) PROVE t \in contested' \cup threw'
    BY <1>21, <1>0 DEF CancelSetEvent, CancellerAt
  <1>22. ASSUME NEW c \in Cancellers, CancelCheckOwner(c) PROVE t \in contested' \cup threw'
    BY <1>22, <1>0 DEF CancelCheckOwner, CancellerAt, CancelDone
  <1>23. ASSUME NEW c \in Cancellers, CancelCallOwner(c) PROVE t \in contested' \cup threw'
    BY <1>23, <1>0 DEF CancelCallOwner, CancellerAt, CancelDone
  <1>24. ASSUME NEW u \in Tasks, reset(u) PROVE t \in contested' \cup threw'
    <2>1. CASE u = t
      <3>1. taskList[t] = 0 /\ kept[t] \in Nat /\ taskList[t] = Cardinality(Holders(t)) + kept[t]
        BY <1>24, <1>0, <2>1, Bounds DEF TaskTypeOK, EntriesHeld, Listed, reset
      <3>2. kept[t] = 0 BY <3>1, HolderCounts
      <3> QED BY <1>24, <1>0, <3>2 DEF reset
    <2>2. CASE u # t BY <1>24, <1>0, <2>2 DEF reset
    <2> QED BY <2>1, <2>2
  <1>25. ASSUME NEW u \in Tasks, NEW q \in Starters, RunObserverThrows(u, q)
         PROVE  t \in contested' \cup threw'
    <2>1. CASE u # t
      <3>1. kept'[t] = kept[t]
        BY <1>25, <1>0, <2>1 DEF TaskTypeOK, Keep, RunObserverThrows, WorkerAt
      <3> QED BY <1>25, <1>0, <3>1 DEF RunObserverThrows, WorkerAt
    <2>2. CASE u = t BY <1>25, <2>2 DEF RunObserverThrows, WorkerAt
    <2> QED BY <2>1, <2>2
  <1>26. ASSUME NEW c \in Cancellers, CancelObserverThrows(c) PROVE t \in contested' \cup threw'
    BY <1>26, <1>0 DEF CancelObserverThrows, CancellerAt, CancelDone
  <1>27. CASE UNCHANGED taskVars
    BY <1>27, <1>0 DEF taskVars
  <1> QED BY <1>1, <1>2, <1>3, <1>4, <1>5, <1>6, <1>7, <1>8, <1>9, <1>10, <1>11, <1>12, <1>13,
             <1>14, <1>15, <1>16, <1>17, <1>18, <1>19, <1>20, <1>21, <1>22, <1>23, <1>24,
             <1>25, <1>26, <1>27
          DEF TaskNext, StartStep, Run, CancelStep

LEMMA InitAccounts == TaskInit => EntriesHeld /\ OneRunEach /\ Explained
  <1> SUFFICES ASSUME TaskInit PROVE EntriesHeld /\ OneRunEach /\ Explained
    OBVIOUS
  <1>1. ASSUME NEW t \in Tasks
        PROVE  /\ Holders(t) = {} /\ taskList[t] = 0 /\ kept[t] = 0
               /\ Undisturbed(t)
    BY TaskAssumption DEF TaskInit, Holders, Empty, Runs, Undisturbed, Busy
  <1>2. Cardinality({}) = 0 BY FS_EmptySet
  <1>3. EntriesHeld BY <1>1, <1>2 DEF EntriesHeld
  <1>4. OneRunEach BY DEF TaskInit, OneRunEach
  <1>5. Explained BY <1>1 DEF Explained
  <1> QED BY <1>3, <1>4, <1>5

\* For any number of tasks, starting and cancelling threads, observers that throw
\* included: the list has one entry of a task for every thread that has it in hand, so
\* that nobody takes off another's, and an entry outlives its thread only if an
\* observer threw or two start()s of the task overlapped.
THEOREM ListHoldsWhatIsInFlight == TaskSpec => []ListIsInFlight
  <1> DEFINE Accounts == EntriesHeld /\ OneRunEach /\ Explained
  <1>1. TaskInit => Accounts BY InitAccounts
  <1>2. IInv /\ Accounts /\ [TaskNext]_taskVars => Accounts'
    BY EntriesStep, OneRunStep, ExplainedStep
  <1>3. Accounts => ListIsInFlight BY DEF EntriesHeld, Explained, ListIsInFlight
  <1> HIDE DEF Accounts
  <1> QED BY <1>1, <1>2, <1>3, Inductive, PTL DEF TaskSpec

=============================================================================
