---------------------------- MODULE MCReplicaSet ----------------------------
(* ReplicaSetConnection for TLC: a seed that leads to the second server, two   *)
(* seeds of different sets, a seed of the wrong set.                           *)
EXTENDS ReplicaSetConnection

CONSTANTS a, b

MCConfigs ==
  {[seeds |-> {a}, foreign |-> {}, setName |-> NoName],
   [seeds |-> {a, b}, foreign |-> {b}, setName |-> NoName],
   [seeds |-> {a}, foreign |-> {a, b}, setName |-> Name]}

=============================================================================
