------------------------------ MODULE Activity ------------------------------
(***************************************************************************)
(* Poco::Activity: a method of an object runs in a pooled thread until it  *)
(* returns by itself or sees that it is to stop.  The flag _running and    *)
(* the event _done say when: run() clears the one and sets the other after *)
(* the method, and wait() clears the flag again.  Only start() has a lock. *)
(***************************************************************************)
EXTENDS Naturals

CONSTANTS
  Controllers,  \* threads that start, stop and wait
  MaxStarts     \* bound: how often the activity is started

Runs == 1..MaxStarts

VARIABLES
  stopped, running, done,   \* _stopped, _running, _done
  run,        \* run[r]: where the r-th run() is
  starts,     \* how many there were
  wpc,        \* wpc[c]: where c is in start() or wait()
  overlapped  \* history: a start() overlapped the end of an earlier run(), or of a
              \* wait(), or failed during one

activityVars == <<stopped, running, done, run, starts, wpc, overlapped>>

Init ==
  /\ stopped = TRUE /\ running = FALSE /\ done = FALSE
  /\ run = [r \in Runs |-> "none"] /\ starts = 0
  /\ wpc = [c \in Controllers |-> "out"]
  /\ overlapped = FALSE

Overlap == (\E r \in Runs : run[r] = "cleared") \/ (\E d \in Controllers : wpc[d] = "clear")

\* A defect: the event of the last run is not reset.
startStale(c) ==
  /\ wpc[c] = "out" /\ starts < MaxStarts
  /\ ~running
  /\ \A d \in Controllers : wpc[d] # "starting"
  /\ stopped' = FALSE /\ running' = TRUE
  /\ wpc' = [wpc EXCEPT ![c] = "starting"]
  /\ overlapped' = (overlapped \/ Overlap)
  /\ UNCHANGED <<done, run, starts>>

\* A running activity is not started again.
start(c) ==
  /\ wpc[c] = "out" /\ starts < MaxStarts
  /\ ~running
  /\ \A d \in Controllers : wpc[d] # "starting"
  /\ done' = FALSE /\ stopped' = FALSE /\ running' = TRUE
  /\ wpc' = [wpc EXCEPT ![c] = "starting"]
  /\ overlapped' = (overlapped \/ Overlap)
  /\ UNCHANGED <<run, starts>>

\* The pool has a thread,
StartRuns(c) ==
  /\ wpc[c] = "starting"
  /\ wpc' = [wpc EXCEPT ![c] = "out"]
  /\ starts' = starts + 1
  /\ run' = [run EXCEPT ![starts + 1] = "method"]
  /\ UNCHANGED <<stopped, running, done, overlapped>>

\* or has none, and start() throws.  Whoever has begun to wait is not told.
StartFails(c) ==
  /\ wpc[c] = "starting"
  /\ wpc' = [wpc EXCEPT ![c] = "out"]
  /\ running' = FALSE
  /\ overlapped' = (overlapped \/ \E d \in Controllers : wpc[d] = "wait")
  /\ UNCHANGED <<stopped, done, run, starts>>

stop(c) ==
  /\ wpc[c] = "out"
  /\ stopped' = TRUE
  /\ UNCHANGED <<running, done, run, starts, wpc, overlapped>>

\* wait() returns at once if the activity does not run.
wait(c) ==
  /\ wpc[c] = "out"
  /\ running
  /\ wpc' = [wpc EXCEPT ![c] = "wait"]
  /\ UNCHANGED <<stopped, running, done, run, starts, overlapped>>

WaitDone(c) ==
  /\ wpc[c] = "wait"
  /\ done
  /\ wpc' = [wpc EXCEPT ![c] = "clear"]
  /\ UNCHANGED <<stopped, running, done, run, starts, overlapped>>

\* wait(milliseconds) throws when the time has passed.
WaitTimesOut(c) ==
  /\ wpc[c] = "wait"
  /\ wpc' = [wpc EXCEPT ![c] = "out"]
  /\ UNCHANGED <<stopped, running, done, run, starts, overlapped>>

WaitClears(c) ==
  /\ wpc[c] = "clear"
  /\ running' = FALSE
  /\ wpc' = [wpc EXCEPT ![c] = "out"]
  /\ UNCHANGED <<stopped, done, run, starts, overlapped>>

\* The method returns or throws, because it is to stop or by itself.
MethodEnds(r) ==
  /\ run[r] = "method"
  /\ run' = [run EXCEPT ![r] = "ended"]
  /\ UNCHANGED <<stopped, running, done, starts, wpc, overlapped>>

RunClears(r) ==
  /\ run[r] = "ended"
  /\ running' = FALSE
  /\ run' = [run EXCEPT ![r] = "cleared"]
  /\ UNCHANGED <<stopped, done, starts, wpc, overlapped>>

RunSetsDone(r) ==
  /\ run[r] = "cleared"
  /\ done' = TRUE
  /\ run' = [run EXCEPT ![r] = "none"]
  /\ UNCHANGED <<stopped, running, starts, wpc, overlapped>>

Next ==
  \/ \E c \in Controllers :
       \/ start(c) \/ StartRuns(c) \/ StartFails(c) \/ stop(c)
       \/ wait(c) \/ WaitDone(c) \/ WaitTimesOut(c) \/ WaitClears(c)
  \/ \E r \in Runs : MethodEnds(r) \/ RunClears(r) \/ RunSetsDone(r)

Spec == Init /\ [][Next]_activityVars

-----------------------------------------------------------------------------
(* Properties. *)

\* Unless start() is called between an earlier run()'s two last stores, or between
\* the two last steps of a wait(), or fails while somebody waits, _running says
\* whether the activity runs, at most one runs at a time, nobody leaves wait() while
\* the method runs, and nobody waits for an event that no run() will set (run(),
\* wait(), start()).
RunningIsTrue ==
  LET Starting == \E c \in Controllers : wpc[c] = "starting" IN
  ~overlapped =>
    /\ running = (Starting \/ \E r \in Runs : run[r] \in {"method", "ended"})
    /\ \A q, r \in Runs : run[q] # "none" /\ run[r] # "none" => q = r
    /\ \A c \in Controllers :
         /\ wpc[c] = "clear" => \A r \in Runs : run[r] # "method"
         /\ wpc[c] = "wait" => done \/ Starting \/ \E r \in Runs : run[r] # "none"

=============================================================================
