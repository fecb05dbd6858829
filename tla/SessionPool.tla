---------------------------- MODULE SessionPool -----------------------------
(***************************************************************************)
(* Poco::Data::SessionPool: database sessions are created, lent, taken     *)
(* back, purged when their connection is lost or they were idle for long,  *)
(* and closed when the pool is shut down.                                  *)
(*                                                                         *)
(* get(), putBack() and the janitor look at _shutdown before they have the *)
(* mutex; what they do after that, under the mutex, is one action.         *)
(* A session got with get(name, value) has a setting of its own.           *)
(***************************************************************************)
EXTENDS Naturals, Sequences, FiniteSets

CONSTANTS
  Sessions,     \* sessions the connector can create
  Users,        \* threads that use the pool
  minSessions, maxSessions,
  None

VARIABLES
  hasDefault,     \* the pool has a value for the setting (setFeature(), setProperty())
  idleSessions,   \* _idleSessions
  activeSessions, \* _activeSessions
  nSessions,      \* _nSessions
  shutDown,       \* _shutdown
  isOpen,         \* the sessions that are open
  isGood,         \* those whose connection is alive
  own,            \* those that have a setting other than the pool's
  upc,            \* upc[u]: where u is
  using,          \* using[u]: the session u has got, or None
  janitor,        \* where the janitor's callback is
  spc,            \* where the thread that calls shutdown() is
  late,           \* history: how many get() were past their look at _shutdown
  bugchecks       \* history: putBack() met an unknown session

sessionVars == <<hasDefault, idleSessions, activeSessions, nSessions, shutDown, isOpen, isGood,
                 own, upc, using, janitor, spc, late, bugchecks>>
sessions == <<idleSessions, activeSessions, nSessions, isOpen, isGood, own>>

Idle == {idleSessions[i] : i \in DOMAIN idleSessions}

\* What is left of a list, in its order, when a loop has erased what is not in good:
\* the k-th entry is the one with k good entries up to it.
Keep(seq, good) ==
  LET kept == {i \in DOMAIN seq : seq[i] \in good}
      UpTo(i) == Cardinality({j \in kept : j <= i})
  IN  [k \in 1..Cardinality(kept) |-> seq[CHOOSE i \in kept : UpTo(i) = k]]

Init ==
  /\ hasDefault \in BOOLEAN
  /\ idleSessions = <<>> /\ activeSessions = {} /\ nSessions = 0
  /\ shutDown = FALSE
  /\ isOpen = {} /\ isGood = {} /\ own = {}
  /\ upc = [u \in Users |-> "out"] /\ using = [u \in Users |-> None]
  /\ janitor = "out" /\ spc = "up"
  /\ late = 0 /\ bugchecks = FALSE

-----------------------------------------------------------------------------
(* get() *)

\* After a shutdown it throws.
Get(u) ==
  /\ upc[u] = "out" /\ using[u] = None
  /\ ~shutDown
  /\ upc' = [upc EXCEPT ![u] = "get"]
  /\ UNCHANGED <<hasDefault, sessions, shutDown, using, janitor, spc, late, bugchecks>>

\* purgeDeadSessions() does nothing after a shutdown; a purged session is destroyed
\* with its holder.
Purged == IF shutDown THEN idleSessions ELSE Keep(idleSessions, isGood)

\* The rest, under the mutex.  It throws when the pool is exhausted or no session
\* can be created.
GetLocked(u) ==
  /\ upc[u] = "get"
  /\ upc' = [upc EXCEPT ![u] = "out"]
  /\ LET dead == Len(idleSessions) - Len(Purged)
         gone == Idle \ {Purged[i] : i \in DOMAIN Purged}
         Lend(s) == /\ activeSessions' = activeSessions \cup {s}
                    /\ using' = [using EXCEPT ![u] = s]
                    /\ own' \in {own \ gone, (own \ gone) \cup {s}}
     IN \/ /\ Purged # <<>>
           /\ Lend(Head(Purged))
           /\ idleSessions' = Tail(Purged)
           /\ nSessions' = nSessions - dead
           /\ isOpen' = isOpen \ gone
           /\ isGood' = isGood \ gone
        \/ /\ Purged = <<>> /\ nSessions - dead < maxSessions
           /\ \E s \in Sessions \ (isOpen \cup {using[v] : v \in Users}) :
                /\ Lend(s)
                /\ isOpen' = (isOpen \ gone) \cup {s}
                /\ isGood' = (isGood \ gone) \cup {s}
           /\ idleSessions' = <<>>
           /\ nSessions' = nSessions - dead + 1
        \/ /\ Purged = <<>>
           /\ idleSessions' = <<>>
           /\ nSessions' = nSessions - dead
           /\ isOpen' = isOpen \ gone
           /\ isGood' = isGood \ gone
           /\ own' = own \ gone
           /\ UNCHANGED <<activeSessions, using>>
  /\ UNCHANGED <<hasDefault, shutDown, janitor, spc, late, bugchecks>>

-----------------------------------------------------------------------------
(* PooledSessionImpl::close() and putBack() *)

\* After a shutdown there is nothing to do.
PutBack(u) ==
  /\ upc[u] = "out" /\ using[u] # None
  /\ IF shutDown
     THEN using' = [using EXCEPT ![u] = None] /\ UNCHANGED upc
     ELSE upc' = [upc EXCEPT ![u] = "put back"] /\ UNCHANGED using
  /\ UNCHANGED <<hasDefault, sessions, shutDown, janitor, spc, late, bugchecks>>

\* A defect: a session that is not known any more is kept as well.
PutBackAnything(u) ==
  /\ upc[u] = "put back"
  /\ idleSessions' = Append(idleSessions, using[u])
  /\ activeSessions' = activeSessions \ {using[u]}
  /\ own' = own \ {using[u]}
  /\ using' = [using EXCEPT ![u] = None]
  /\ upc' = [upc EXCEPT ![u] = "out"]
  /\ UNCHANGED <<hasDefault, nSessions, shutDown, isOpen, isGood, janitor, spc, late, bugchecks>>

\* A good session goes to the end of the idle ones, with the pool's settings: the
\* entries made by get(name, value) are under another key (the PooledSessionImpl)
\* and not found.  Otherwise, or if reset() throws, it is dropped.
PutBackLocked(u) ==
  LET s == using[u] IN
  /\ upc[u] = "put back"
  /\ upc' = [upc EXCEPT ![u] = "out"]
  /\ using' = [using EXCEPT ![u] = None]
  /\ activeSessions' = activeSessions \ {s}
  /\ \/ /\ s \in activeSessions \cap isGood
        /\ idleSessions' = Append(idleSessions, s)
        /\ own' = IF hasDefault THEN own \ {s} ELSE own
        /\ UNCHANGED <<nSessions, isOpen, isGood, bugchecks>>
     \/ /\ s \in activeSessions
        /\ nSessions' = nSessions - 1
        /\ isOpen' = isOpen \ {s} /\ isGood' = isGood \ {s} /\ own' = own \ {s}
        /\ UNCHANGED <<idleSessions, bugchecks>>
     \/ /\ s \notin activeSessions
        /\ bugchecks' = TRUE
        /\ UNCHANGED <<idleSessions, nSessions, isOpen, isGood, own>>
  /\ UNCHANGED <<hasDefault, shutDown, janitor, spc, late>>

-----------------------------------------------------------------------------
(* The connection of a session is lost; the janitor; shutdown(). *)

GoesBad(s) ==
  /\ s \in isGood
  /\ isGood' = isGood \ {s}
  /\ UNCHANGED <<hasDefault, idleSessions, activeSessions, nSessions, shutDown, isOpen, own, upc,
                 using, janitor, spc, late, bugchecks>>

\* The timer calls until it is stopped.
Janitor ==
  /\ janitor = "out" /\ spc \notin {"close", "done"}
  /\ ~shutDown
  /\ janitor' = "lock"
  /\ UNCHANGED <<hasDefault, sessions, shutDown, upc, using, spc, late, bugchecks>>

\* Sessions that were idle for too long, and dead ones, are closed, front to back,
\* as long as there are more than minSessions.
JanitorLocked ==
  /\ janitor = "lock"
  /\ janitor' = "out"
  /\ \E old \in SUBSET Idle :
       LET Closed == {s \in Idle : s \in old \/ s \notin isGood}
           most == IF nSessions > minSessions THEN nSessions - minSessions ELSE 0
       IN \E gone \in SUBSET Closed :
            /\ Cardinality(gone) = IF Cardinality(Closed) <= most THEN Cardinality(Closed) ELSE most
            /\ \A i, j \in DOMAIN idleSessions :
                 i < j /\ {idleSessions[i], idleSessions[j]} \subseteq Closed /\ idleSessions[j] \in gone
                   => idleSessions[i] \in gone
            /\ idleSessions' = Keep(idleSessions, Idle \ gone)
            /\ nSessions' = nSessions - Cardinality(gone)
            /\ isOpen' = isOpen \ gone /\ isGood' = isGood \ gone /\ own' = own \ gone
  /\ UNCHANGED <<hasDefault, activeSessions, shutDown, upc, using, spc, late, bugchecks>>

Shutdown ==
  /\ spc = "up"
  /\ shutDown' = TRUE
  /\ late' = Cardinality({u \in Users : upc[u] = "get"})
  /\ spc' = "stop janitor"
  /\ UNCHANGED <<hasDefault, sessions, upc, using, janitor, bugchecks>>

\* _janitorTimer.stop() waits for the callback.
ShutdownStopsJanitor ==
  /\ spc = "stop janitor"
  /\ janitor = "out"
  /\ spc' = "close"
  /\ UNCHANGED <<hasDefault, sessions, shutDown, upc, using, janitor, late, bugchecks>>

\* closeAll() for the idle and for the active sessions.
ShutdownLocked ==
  /\ spc = "close"
  /\ spc' = "done"
  /\ isOpen' = isOpen \ (Idle \cup activeSessions)
  /\ isGood' = isGood \ (Idle \cup activeSessions)
  /\ own' = own \ (Idle \cup activeSessions)
  /\ idleSessions' = <<>> /\ activeSessions' = {}
  /\ nSessions' = LET n == Len(idleSessions) + Cardinality(activeSessions)
                  IN  IF nSessions > n THEN nSessions - n ELSE 0
  /\ UNCHANGED <<hasDefault, shutDown, upc, using, janitor, late, bugchecks>>

Next ==
  \/ \E u \in Users : Get(u) \/ GetLocked(u) \/ PutBack(u) \/ PutBackLocked(u)
  \/ \E s \in Sessions : GoesBad(s)
  \/ Janitor \/ JanitorLocked
  \/ Shutdown \/ ShutdownStopsJanitor \/ ShutdownLocked

Spec == Init /\ [][Next]_sessionVars

-----------------------------------------------------------------------------
(* Properties. *)

\* _nSessions is the number of idle and active sessions, whoever creates, purges
\* and drops them, and at most maxSessions; no session is lent twice; and until
\* shutdown() closes it a lent session is active and open, so that neither the
\* janitor nor a purge can take it away.  An idle session has no setting of an
\* earlier user that the pool has a value for (putBack()).  When shutdown() has
\* returned no session is idle, and those that are still, or again, open are the ones
\* of get() calls that had looked at _shutdown before it was set; putBack() meets an
\* unknown session, which it reports as a bug, only because of a shutdown.
SessionsAccounted ==
  /\ nSessions = Len(idleSessions) + Cardinality(activeSessions)
  /\ Cardinality(Idle) = Len(idleSessions) /\ Idle \cap activeSessions = {}
  /\ nSessions <= maxSessions
  /\ \A u, v \in Users : using[u] = using[v] /\ u # v => using[u] = None
  /\ \A u \in Users : using[u] # None /\ spc # "done" => using[u] \in activeSessions \cap isOpen
  /\ hasDefault => Idle \cap own = {}
  /\ spc = "done" => idleSessions = <<>> /\ Cardinality(isOpen) <= late
  /\ bugchecks => spc = "done"

=============================================================================
