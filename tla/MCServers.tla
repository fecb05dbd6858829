----------------------------- MODULE MCServers ------------------------------
(***************************************************************************)
(* ActiveThreadPool and TCPServer for TLC, side by side: a behaviour is    *)
(* one of the component "part" names, and the other stays in its initial   *)
(* state.  Fairness is that of each specification, for the component that  *)
(* runs.                                                                   *)
(*                                                                         *)
(* ActiveThreadPool: two callers of joinAll(); capacity two and three      *)
(* targets, so that some are queued; two thread objects, so that one left  *)
(* over from a joinAll() can be exiting while the other is started.        *)
(* TCPServer: three connections for a pool of two threads, of which        *)
(* another user may hold one, and a queue of one: a connection can find a  *)
(* thread idle, leaving or refused, and the queue full.                    *)
(***************************************************************************)
EXTENDS ActiveThreadPool, TCPServer

VARIABLE part

\* Targets are interchangeable, and so are connections: every behaviour is, up to a
\* renaming, one in which they are started or accepted in order.
TargetsInOrder == \A r, q \in Targets : r < q /\ st'[q] # "new" => st'[r] # "new"
ConnectionsInOrder ==
  \A k, l \in Connections : k < l /\ state'[l] # "new" => state'[k] # "new"

MCInit == part \in {"ActiveThreadPool", "TCPServer"} /\ ActiveInit /\ Init

MCNext ==
  \/ /\ part = "ActiveThreadPool" /\ ActiveNext /\ TargetsInOrder
     /\ UNCHANGED <<part, vars>>
  \/ /\ part = "TCPServer" /\ Next /\ ConnectionsInOrder
     /\ UNCHANGED <<part, activeVars>>

MCFairness ==
  /\ \A w \in Threads : /\ WF_activeVars(part = "ActiveThreadPool" /\ RunThread(w))
                        /\ WF_activeVars(part = "ActiveThreadPool" /\ Signal(w))
  /\ \A c \in Clients : WF_activeVars(part = "ActiveThreadPool" /\ Join(c))
  /\ WF_vars(part = "TCPServer" /\ Acceptor)
  /\ \A w \in Workers : WF_vars(part = "TCPServer" /\ Worker(w))
  /\ WF_vars(part = "TCPServer" /\ Stopping)
  /\ WF_vars(part = "TCPServer" /\ OthersReturn)

MCSpec == MCInit /\ [][MCNext]_<<part, activeVars, vars>> /\ MCFairness

=============================================================================
