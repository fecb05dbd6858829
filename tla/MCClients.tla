----------------------------- MODULE MCClients ------------------------------
(***************************************************************************)
(* TimedNotificationQueue, TaskManager and ReplicaSetConnection for TLC,   *)
(* side by side: a behaviour is one of the component "part" names, and the *)
(* others stay in their initial states.  Fairness is that of each          *)
(* specification, for the component that runs.                             *)
(*                                                                         *)
(* TimedNotificationQueue: two ticks to a millisecond, so that rounding    *)
(* shows; times up to 3 with sleeps of at most 2, so that a sleep takes    *)
(* several rounds.                                                         *)
(* TaskManager: one task, two threads that start it, one that cancels it.  *)
(* ReplicaSetConnection: two servers and one client; a server changes      *)
(* once.                                                                   *)
(***************************************************************************)
EXTENDS TimedNotificationQueue, TaskManager, MCReplicaSet

VARIABLE part

\* A timeout that has passed already, none, and one that outlasts a sleep.
AnyTimeout == {-1, 0, 2}

MCInit ==
  /\ part \in {"TimedNotificationQueue", "TaskManager", "ReplicaSetConnection"}
  /\ Init /\ TaskInit /\ ConnInit
  /\ part # "ReplicaSetConnection" => /\ config = CHOOSE k \in Configs : TRUE
                                      /\ \A s \in Servers : role[s] = "down"

MCNext ==
  \/ part = "TimedNotificationQueue" /\ Next /\ UNCHANGED <<part, taskVars, connVars>>
  \/ part = "TaskManager" /\ TaskNext /\ UNCHANGED <<part, vars, connVars>>
  \/ part = "ReplicaSetConnection" /\ ConnNext /\ UNCHANGED <<part, vars, taskVars>>

OfClients == <<place, call, conns, waits>>

MCFairness ==
  /\ WF_vars(part = "TimedNotificationQueue" /\ WaitStep)
  /\ WF_vars(part = "TimedNotificationQueue" /\ Tick)
  /\ \A c \in Clients : WF_connVars(part = "ReplicaSetConnection" /\ ClientStep(c))
  /\ \A t \in Threads : WF_connVars(part = "ReplicaSetConnection" /\ RefreshStep(t))
  /\ WF_connVars(part = "ReplicaSetConnection" /\ MonitorStep /\ UNCHANGED OfClients)
  /\ WF_connVars(/\ part = "ReplicaSetConnection"
                 /\ \/ InitialDiscovery \/ StopWakesMonitor \/ StopJoin
                    \/ ctl = "discovery" /\ startMonitoring
                 /\ UNCHANGED OfClients)

MCSpec == MCInit /\ [][MCNext]_<<part, vars, taskVars, connVars>> /\ MCFairness

=============================================================================
