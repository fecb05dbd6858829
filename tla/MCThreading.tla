---------------------------- MODULE MCThreading -----------------------------
(***************************************************************************)
(* NotificationQueue and ThreadPool for TLC, side by side: a behaviour is  *)
(* one of the component "part" names, and the other stays in its initial   *)
(* state.  Fairness is that of each specification, for the component that  *)
(* runs.                                                                   *)
(*                                                                         *)
(* NotificationQueue: three consumers, so that one was handed a            *)
(* notification, one times out and one is linked at the same time; two     *)
(* notifications, so that an urgent one can overtake.                      *)
(* ThreadPool: one to two threads and a third PooledThread object, for the *)
(* one a join that times out leaves behind; two clients, so that start()   *)
(* overlaps joinAll(); housekeeping at every second start().               *)
(***************************************************************************)
EXTENDS NotificationQueue, ThreadPool

VARIABLE part

\* addCapacity(-1): the capacity can shrink while threads are in use.
Shrink == {-1}

\* The pool's first threads are some of Workers, and it makes no difference which.
MCInit ==
  /\ part \in {"NotificationQueue", "ThreadPool"}
  /\ Init /\ PoolInit
  /\ threads = CHOOSE W \in SUBSET Workers : Cardinality(W) = MinCapacity

MCNext ==
  \/ part = "NotificationQueue" /\ Next /\ UNCHANGED <<part, poolVars>>
  \/ part = "ThreadPool" /\ PoolNext /\ UNCHANGED <<part, vars>>

MCFairness ==
  /\ \A t \in Threads : WF_vars(part = "NotificationQueue" /\ Consume(t))
  /\ WF_poolVars(part = "ThreadPool" /\ Section)
  /\ \A c \in Clients : WF_poolVars(part = "ThreadPool" /\ PooledThread_start(c))
  /\ \A w \in Workers : WF_poolVars(part = "ThreadPool" /\ Run(w))

MCSpec == MCInit /\ [][MCNext]_<<part, vars, poolVars>> /\ MCFairness

=============================================================================
