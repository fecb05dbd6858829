------------------------------ MODULE MCTimers ------------------------------
(***************************************************************************)
(* UtilTimer and Timer for TLC, side by side: a behaviour is one of the    *)
(* component "part" names, and the other stays in its initial state.       *)
(* Fairness is that of each specification, for the component that runs.    *)
(*                                                                         *)
(* UtilTimer: a task that runs once and one that repeats, two calls of     *)
(* cancel(), the destructor; a clock of two values, so that the repeated   *)
(* task is due, executed and due again; beyond it lies UtilTimer's Never.  *)
(* Timer: two threads start, stop, restart and reconfigure a timer with a  *)
(* period of two; a callback can be late by more than two periods.         *)
(***************************************************************************)
EXTENDS UtilTimer, Timer

VARIABLE part

\* Calls of cancel() are interchangeable: every behaviour is one in which they are made
\* in order, up to a renaming.
InOrder == \A c, d \in Cancels : c < d /\ cpc'[d] # "new" => cpc'[c] # "new"

MCInit == part \in {"UtilTimer", "Timer"} /\ Init /\ TimerInit

MCNext ==
  \/ part = "UtilTimer" /\ Next /\ InOrder /\ UNCHANGED <<part, timerVars>>
  \/ part = "Timer" /\ TimerNext /\ UNCHANGED <<part, vars>>

MCFairness ==
  /\ WF_vars(part = "UtilTimer" /\ Run)
  /\ WF_vars(part = "UtilTimer" /\ Tick)
  /\ \A c \in Cancels : WF_vars(part = "UtilTimer" /\ CancelReturns(c))
  /\ WF_timerVars(part = "Timer" /\ TimerRun)
  /\ WF_timerVars(part = "Timer" /\ TimerTick)
  /\ \A c \in Controllers : WF_timerVars(part = "Timer" /\ StopStep(c))

MCSpec == MCInit /\ [][MCNext]_<<part, vars, timerVars>> /\ MCFairness

=============================================================================
