------------------------ MODULE ReplicaSetConnection ------------------------
(***************************************************************************)
(* Poco::MongoDB::ReplicaSetConnection: requests with retry and failover,  *)
(* on a ReplicaSet that several threads use and one thread monitors.       *)
(*                                                                         *)
(* Each client has one ReplicaSetConnection.  A call of sendRequest() is   *)
(* executeWithRetry(): connect if there is no connection, send, and after  *)
(* a retriable error refresh the topology and look for another server.     *)
(***************************************************************************)
EXTENDS ReplicaSet

CONSTANTS
  Modes,        \* the read preferences clients use
  Sick,         \* servers that answer hello but fail every request
  lowExecuteRetryThreshold,
  serverReconnectRetries

ASSUME RetryAssumption ==
  /\ Modes \subseteq {"Primary", "PrimaryPreferred", "Secondary", "SecondaryPreferred", "Nearest"}
  /\ Sick \subseteq Servers
  /\ lowExecuteRetryThreshold \in Nat /\ serverReconnectRetries \in Nat

VARIABLES
  place,        \* place[c]: where client c is in executeWithRetry()
  mode,         \* mode[c]: its read preference
  connection,   \* connection[c]: the server of its _connection, or NoServer
  target,       \* target[c]: the server selected, to which it connects
  tried,        \* tried[c]: triedServers
  attempt, maxAttempts,
  round,        \* round[c]: i in waitForServerAvailability()
  retryMutex,   \* who holds _serverAvailabilityRetryMutex
  refreshed     \* refreshed[c]: a refresh has ended since c captured waitStartTime

call == <<mode, tried, attempt, maxAttempts>>
conns == <<connection, target>>
waits == <<round, retryMutex, refreshed>>
connVars == <<rsvars, place, call, conns, waits>>

Max2(a, b) == IF a >= b THEN a ELSE b
Go(c, where) == place' = [place EXCEPT ![c] = where]

\* executeWithRetry() ends, with a result or an exception.
CallEnds(c) ==
  /\ Go(c, "idle")
  /\ UNCHANGED mode
  /\ tried' = [tried EXCEPT ![c] = {}]
  /\ attempt' = [attempt EXCEPT ![c] = 0]
  /\ maxAttempts' = [maxAttempts EXCEPT ![c] = 0]

ConnInit ==
  /\ RsInit
  /\ place = [c \in Clients |-> "idle"]
  /\ mode \in [Clients -> Modes]
  /\ connection = [c \in Clients |-> NoServer]
  /\ target = [c \in Clients |-> NoServer]
  /\ tried = [c \in Clients |-> {}]
  /\ attempt = [c \in Clients |-> 0] /\ maxAttempts = [c \in Clients |-> 0]
  /\ round = [c \in Clients |-> 0]
  /\ retryMutex = NoServer
  /\ refreshed = [c \in Clients |-> FALSE]

\* The number of attempts is fixed by the number of servers known now.
sendRequest(c) ==
  /\ ctl \notin {"new", "discovery"}
  /\ place[c] = "idle"
  /\ maxAttempts' = [maxAttempts EXCEPT ![c] = Max2(Cardinality(known), lowExecuteRetryThreshold)]
  /\ Go(c, "try")
  /\ UNCHANGED <<rsvars, mode, tried, attempt, conns, waits>>

\* The loop's condition, and ReplicaSet::selectServer() unless there is a
\* connection.  No eligible server is an IOException: retriable.
Try(c) ==
  /\ place[c] = "try"
  /\ IF attempt[c] >= maxAttempts[c]
     THEN CallEnds(c) /\ UNCHANGED conns
     ELSE /\ UNCHANGED <<call, connection>>
          /\ \/ connection[c] # NoServer /\ Go(c, "send") /\ UNCHANGED target
             \/ /\ connection[c] = NoServer /\ selectServers(mode[c]) = {}
                /\ Go(c, "failed") /\ UNCHANGED target
             \/ /\ connection[c] = NoServer
                /\ \E s \in selectServers(mode[c]) : target' = [target EXCEPT ![c] = s]
                /\ Go(c, "connect")
  /\ UNCHANGED <<rsvars, waits>>

\* createConnection() in ensureConnection(); its exception is caught.  That the
\* failure is recorded a little later than it happens makes no difference here:
\* what it records is only that nothing is known.
Connect(c) ==
  /\ place[c] = "connect"
  /\ target' = [target EXCEPT ![c] = NoServer]
  /\ IF role[target[c]] = "down"
     THEN /\ markServerUnknown(target[c], "connection failed")
          /\ Go(c, "failed")
          /\ UNCHANGED connection
     ELSE /\ connection' = [connection EXCEPT ![c] = target[c]]
          /\ Go(c, "send")
          /\ UNCHANGED topology
  /\ UNCHANGED <<env, refresh, monitoring, call, waits>>

\* What a server does with a request: a network error, a retriable MongoDB
\* error, or success.  Only a primary serves the clients of a primary.
Answer(s, m) ==
  IF role[s] = "down" THEN "network error"
  ELSE IF s \in Sick \/ (m = "Primary" /\ role[s] \in RsTypes \ {"RsPrimary"})
       THEN "retriable" ELSE "ok"

\* The operation.  A retriable response makes the operation itself refresh the
\* topology, before executeWithRetry() does so again.
Send(c) ==
  /\ place[c] = "send"
  /\ LET answer == Answer(connection[c], mode[c]) IN
     \/ /\ answer = "ok"
        /\ CallEnds(c)
        /\ UNCHANGED refresh
     \/ /\ answer = "network error"
        /\ tried' = [tried EXCEPT ![c] = @ \cup {connection[c]}]
        /\ Go(c, "failed")
        /\ UNCHANGED <<refresh, mode, attempt, maxAttempts>>
     \/ /\ answer = "retriable"
        /\ tried' = [tried EXCEPT ![c] = @ \cup {connection[c]}]
        /\ RefreshBegin(c)
        /\ Go(c, "refresh in operation")
        /\ UNCHANGED <<mode, attempt, maxAttempts>>
  /\ UNCHANGED <<env, topology, monitoring, conns, waits>>

OperationThrows(c) ==
  /\ place[c] = "refresh in operation" /\ at[c] = "done"
  /\ Go(c, "failed")
  /\ UNCHANGED <<rsvars, call, conns, waits>>

\* markServerFailed(): without a connection there is nothing to refresh.
MarkServerFailed(c) ==
  /\ place[c] = "failed"
  /\ IF connection[c] = NoServer
     THEN Go(c, "reselect") /\ UNCHANGED refresh
     ELSE Go(c, "refresh") /\ RefreshBegin(c)
  /\ UNCHANGED <<env, topology, monitoring, call, conns, waits>>

\* The connection is dropped after the refresh.
DropConnection(c) ==
  /\ place[c] = "refresh" /\ at[c] = "done"
  /\ connection' = [connection EXCEPT ![c] = NoServer]
  /\ Go(c, "reselect")
  /\ UNCHANGED <<rsvars, call, target, waits>>

\* getConnection(), outside the try block.
Reselect(c) ==
  /\ place[c] = "reselect"
  /\ \/ /\ selectServers(mode[c]) = {}
        /\ Go(c, "lock") /\ UNCHANGED target
     \/ /\ \E s \in selectServers(mode[c]) : target' = [target EXCEPT ![c] = s]
        /\ Go(c, "reconnect")
  /\ UNCHANGED <<rsvars, call, connection, waits>>

\* createConnection() for the next attempt: an exception ends the call.  A
\* server that was tried before is not used, and not counted as an attempt.
Reconnect(c) ==
  /\ place[c] = "reconnect"
  /\ target' = [target EXCEPT ![c] = NoServer]
  /\ IF role[target[c]] = "down"
     THEN /\ markServerUnknown(target[c], "connection failed")
          /\ CallEnds(c)
          /\ UNCHANGED connection
     ELSE /\ Go(c, "try")
          /\ IF target[c] \in tried[c]
             THEN UNCHANGED <<connection, attempt>>
             ELSE /\ connection' = [connection EXCEPT ![c] = target[c]]
                  /\ attempt' = [attempt EXCEPT ![c] = @ + 1]
          /\ UNCHANGED <<topology, mode, tried, maxAttempts>>
  /\ UNCHANGED <<env, refresh, monitoring, waits>>

-----------------------------------------------------------------------------
(* ReplicaSet::waitForServerAvailability() *)

\* The lock is taken, and then the time: only a refresh that ends from now on
\* is later than it.
WaitLock(c) ==
  /\ place[c] = "lock"
  /\ retryMutex = NoServer
  /\ retryMutex' = c
  /\ refreshed' = [refreshed EXCEPT ![c] = FALSE]
  /\ Go(c, "compare")
  /\ UNCHANGED <<rsvars, call, conns, round>>

\* If another thread has just refreshed there is one look without a wait.
WaitCompare(c) ==
  /\ place[c] = "compare"
  /\ \/ refreshed[c] /\ round' = [round EXCEPT ![c] = serverReconnectRetries]
                     /\ Go(c, "look")
     \/ ~refreshed[c] /\ round' = [round EXCEPT ![c] = 0] /\ Go(c, "sleep")
  /\ UNCHANGED <<rsvars, call, conns, retryMutex, refreshed>>

\* waitForServerAvailability() returns null or throws, and so ends the call.
GiveUp(c) ==
  /\ CallEnds(c)
  /\ retryMutex' = NoServer
  /\ round' = [round EXCEPT ![c] = 0]
  /\ refreshed' = [refreshed EXCEPT ![c] = FALSE]

\* One round: sleep for the delay, then refresh.
WaitSleep(c) ==
  /\ place[c] = "sleep"
  /\ IF round[c] >= serverReconnectRetries
     THEN GiveUp(c) /\ UNCHANGED refresh
     ELSE /\ RefreshBegin(c)
          /\ Go(c, "refresh in wait")
          /\ UNCHANGED <<call, waits>>
  /\ UNCHANGED <<env, topology, monitoring, conns>>

WaitRefreshed(c) ==
  /\ place[c] = "refresh in wait" /\ at[c] = "done"
  /\ round' = [round EXCEPT ![c] = @ + 1]
  /\ Go(c, "look")
  /\ UNCHANGED <<rsvars, call, conns, retryMutex, refreshed>>

WaitLook(c) ==
  /\ place[c] = "look"
  /\ \/ selectServers(mode[c]) = {} /\ Go(c, "sleep") /\ UNCHANGED target
     \/ /\ \E s \in selectServers(mode[c]) : target' = [target EXCEPT ![c] = s]
        /\ Go(c, "connect in wait")
  /\ UNCHANGED <<rsvars, call, connection, waits>>

\* The servers tried are forgotten after a wait.
WaitConnect(c) ==
  /\ place[c] = "connect in wait"
  /\ target' = [target EXCEPT ![c] = NoServer]
  /\ IF role[target[c]] = "down"
     THEN /\ markServerUnknown(target[c], "connection failed")
          /\ GiveUp(c)
          /\ UNCHANGED connection
     ELSE /\ Go(c, "try")
          /\ connection' = [connection EXCEPT ![c] = target[c]]
          /\ tried' = [tried EXCEPT ![c] = {}]
          /\ attempt' = [attempt EXCEPT ![c] = @ + 1]
          /\ retryMutex' = NoServer
          /\ round' = [round EXCEPT ![c] = 0]
          /\ refreshed' = [refreshed EXCEPT ![c] = FALSE]
          /\ UNCHANGED <<topology, mode, maxAttempts>>
  /\ UNCHANGED <<env, refresh, monitoring>>

-----------------------------------------------------------------------------
ClientStep(c) ==
  \/ Try(c) \/ Connect(c) \/ Send(c) \/ OperationThrows(c) \/ MarkServerFailed(c)
  \/ DropConnection(c) \/ Reselect(c) \/ Reconnect(c)
  \/ WaitLock(c) \/ WaitCompare(c) \/ WaitSleep(c) \/ WaitRefreshed(c) \/ WaitLook(c)
  \/ WaitConnect(c)

\* A step of a refresh.  Its end is what waitStartTime is compared with.
RefreshStep(t) ==
  /\ Refreshing(t)
  /\ refreshed' = [c \in Clients |->
                     refreshed[c] \/ (place[c] = "compare" /\ RefreshEnd(t))]
  /\ UNCHANGED <<place, call, conns, round, retryMutex>>

ReplicaSetStep == MonitorStep \/ MainStep \/ \E s \in Servers : Changing(s)

ConnNext ==
  \/ \E c \in Clients : sendRequest(c) \/ ClientStep(c)
  \/ \E t \in Threads : RefreshStep(t)
  \/ ReplicaSetStep /\ UNCHANGED <<place, call, conns, waits>>

ConnSpec == ConnInit /\ [][ConnNext]_connVars

\* Threads inside the library go on.  Nobody has to send a request, and Main need
\* not stop or restart the monitoring; what it has begun it finishes.
Fairness ==
  /\ \A c \in Clients : WF_connVars(ClientStep(c))
  /\ \A t \in Threads : WF_connVars(RefreshStep(t))
  /\ WF_connVars(MonitorStep /\ UNCHANGED <<place, call, conns, waits>>)
  /\ WF_connVars(/\ \/ InitialDiscovery \/ StopWakesMonitor \/ StopJoin
                    \/ ctl = "discovery" /\ startMonitoring
                 /\ UNCHANGED <<place, call, conns, waits>>)

FairConnSpec == ConnSpec /\ Fairness

-----------------------------------------------------------------------------
(* Properties. *)

\* Whatever answers arrive in whatever order, what the client knows hangs
\* together: a description with a role in a replica set carries the name of
\* this set, so that servers of another set are neither selected nor followed
\* to their hosts (updateServer()); the configuration and the topology have the
\* same name; and the type is that of the servers (updateTopologyType()), also right
\* after the answer of a server of another set: "Do NOT update topology type yet - wait
\* for next refresh", says a comment there (TopologyDescription.cpp:243), and the line
\* below it calls updateTopologyType().
TopologyConsistent ==
  /\ RsTypeOK
  /\ \A s \in known : desc[s].type \in RsTypes => desc[s].setName = setName /\ setName # NoName
  /\ \A s \in Servers \ known : desc[s] = NewDesc
  /\ configName = setName
  /\ \A s \in known \ config.seeds : (s \in config.foreign) = (setName = OtherName)
  /\ topoType = Classify(known, desc, setName)

\* What a server is, as far as it belongs to this set.
Seen(s) ==
  LET name == FromHello(desc[s], s, role[s]).setName
  IN  IF role[s] = "down" \/ (NoName \notin {name, setName} /\ name # setName)
      THEN "Unknown" ELSE role[s]

\* If monitoring is left on, the topology becomes and stays what the servers are,
\* and all members of the set are discovered, although late answers of several
\* threads overwrite newer ones (updateTopologyFromHello()) and clients mark
\* servers they cannot connect to.
Converges ==
  <>[](ctl = "up") =>
    <>[](\A s \in known : /\ desc[s].type = Seen(s)
                          /\ Seen(s) \in RsTypes => HostsOf(s, role[s]) \subseteq known)

\* Threads get out of the library again.  A call of sendRequest() returns or throws,
\* if no server keeps failing requests while it reports to be well, and monitoring
\* (with it every refresh) is not stopped; and stopMonitoring() returns, although its
\* notification can miss the monitor, and the monitor may be anywhere in a refresh.
CallsReturn ==
  /\ \A c \in Clients : (place[c] # "idle") ~> (place[c] = "idle" \/ stopMonitoring)
  /\ (ctl = "notify") ~> (ctl = "stopped")

\* sendRequest() returns or throws, without conditions: "Throws Poco::IOException if
\* all retry attempts fail" (ReplicaSetConnection.h).
RetriesEnd == \A c \in Clients : (place[c] # "idle") ~> (place[c] = "idle")

=============================================================================
