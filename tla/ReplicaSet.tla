----------------------------- MODULE ReplicaSet -----------------------------
(***************************************************************************)
(* Poco::MongoDB::ReplicaSet and TopologyDescription: what a client knows  *)
(* of a replica set, and how it finds out.                                 *)
(*                                                                         *)
(* Threads (the monitor and the clients) refresh the topology: they copy   *)
(* it, ask one server after the other with a hello command and write each  *)
(* answer into the shared topology.  The answer is given by the server     *)
(* before, and applied after, other threads may have written newer ones.   *)
(* Servers change roles, go down and come back at any time.                *)
(*                                                                         *)
(* Retries and failover of requests are in ReplicaSetConnection.           *)
(***************************************************************************)
EXTENDS Naturals, FiniteSets

CONSTANTS
  Servers,      \* addresses
  Configs,      \* what a ReplicaSet may be created for: records of its seeds, its
                \* setName (possibly NoName), and the servers of a foreign set
  Roles,        \* what a reachable server can be: a subset of ServerTypes
  Clients,      \* threads that use the replica set
  Monitor,      \* the monitoring thread
  Main,         \* the thread that creates the ReplicaSet, and starts and stops monitoring
  Name, OtherName, NoName,   \* names of the two sets, and the empty name
  MaxChanges,   \* bound: how often the servers change
  NoServer

RsTypes == {"RsPrimary", "RsSecondary", "RsArbiter", "RsOther", "RsGhost"}
ServerTypes == RsTypes \cup {"Standalone", "Mongos", "Unknown"}
Names == {Name, OtherName, NoName}
Threads == Clients \cup {Monitor, Main}

ASSUME ReplicaSetAssumption ==
  /\ Configs \subseteq [seeds : SUBSET Servers \ {{}}, foreign : SUBSET Servers, setName : {Name, NoName}]
  /\ Roles \subseteq ServerTypes \ {"Unknown"}
  /\ Name # OtherName /\ NoName \notin {Name, OtherName}
  /\ {Monitor, Main} \cap Clients = {} /\ Monitor # Main
  /\ MaxChanges \in Nat
  /\ IsFiniteSet(Servers)
  /\ NoServer \notin Servers \cup Clients

VARIABLES
  config,      \* a member of Configs
  role,        \* role[s]: what server s is now, "down" if it cannot be reached
  changes,     \* how often that has changed
  known,       \* the addresses in _topology._servers
  desc,        \* desc[s]: the ServerDescription of a known server
  setName,     \* _topology._setName
  configName,  \* _config.setName
  topoType,    \* _topology._type
  at,          \* at[t]: where t is in updateTopologyFromAllServers()
  todo,        \* todo[t]: servers it has still to ask
  asked,       \* asked[t]: the server it is asking
  reply,       \* reply[t]: the answer
  stopMonitoring, monitoringActive, \* the flags
  mon,         \* where the monitoring thread is
  ctl          \* where Main is

env == <<config, role, changes>>
topology == <<known, desc, setName, configName, topoType>>
refresh == <<at, todo, asked, reply>>
monitoring == <<stopMonitoring, monitoringActive, mon, ctl>>
rsvars == <<env, topology, refresh, monitoring>>

-----------------------------------------------------------------------------
(* ServerDescription and TopologyDescription. *)

\* A description nothing is known for.
NewDesc == [type |-> "Unknown", setName |-> NoName, error |-> "none"]

Desc == [type : ServerTypes, setName : Names,
         error : {"none", "hello failed", "connection failed", "name mismatch"}]

\* updateTopologyType(): what the server types add up to.
Classify(K, d, name) ==
  LET Count(T) == Cardinality({s \in K : d[s].type \in T})
      members == Count(RsTypes)
      mongos == Count({"Mongos"})
      standalone == Count({"Standalone"})
      incompatible == \/ mongos > 0 /\ members + standalone > 0
                      \/ standalone > 0 /\ members > 0
                      \/ standalone > 1
  IN  IF K = {} \/ incompatible THEN "Unknown"
      ELSE CASE mongos > 0 -> "Sharded"
             [] standalone = 1 /\ Cardinality(K) = 1 -> "Single"
             [] Count({"RsPrimary"}) > 0 -> "ReplicaSetWithPrimary"
             [] OTHER -> IF members > 0 \/ name # NoName
                         THEN "ReplicaSetNoPrimary" ELSE "Unknown"

\* The set a server says it belongs to; a standalone server and a mongos have none.
NameOf(s, r) == IF r \in RsTypes THEN IF s \in config.foreign THEN OtherName ELSE Name ELSE NoName

\* The hosts a server reports: the members of its set.
HostsOf(s, r) == IF r \in RsTypes THEN {h \in Servers : (h \in config.foreign) = (s \in config.foreign)} ELSE {}

\* ServerDescription::updateFromHelloResponse(): the name stays if none is reported.
FromHello(d, s, r) ==
  [type |-> r, error |-> "none",
   setName |-> IF NameOf(s, r) = NoName THEN d.setName ELSE NameOf(s, r)]

\* ServerDescription::markError().
MarkError(d, e) == [d EXCEPT !.type = "Unknown", !.error = e]

\* TopologyDescription::markServerUnknown().
markServerUnknown(s, e) ==
  IF s \in known
  THEN /\ desc' = [desc EXCEPT ![s] = MarkError(@, e)]
       /\ topoType' = Classify(known, desc', setName)
       /\ UNCHANGED <<known, setName, configName>>
  ELSE UNCHANGED topology

\* A defect: the hosts are added before the name is compared.
updateServerTrusting(s, r) ==
  LET d == FromHello(desc[s], s, r)
      mismatch == NoName \notin {d.setName, setName} /\ d.setName # setName
  IN  /\ known' = known \cup {s} \cup HostsOf(s, r)
      /\ desc' = [desc EXCEPT ![s] = IF mismatch THEN MarkError(d, "name mismatch") ELSE d]
      /\ configName' = IF configName = NoName THEN d.setName ELSE configName
      /\ setName' = configName'
      /\ topoType' = Classify(known', desc', setName')

\* TopologyDescription::updateServer() and what updateTopologyFromHello() does
\* after it: a server of a differently named set is marked, and its hosts are
\* ignored; otherwise they are added, and the first name heard is kept.
updateServer(s, r) ==
  LET d == FromHello(desc[s], s, r)
      mismatch == NoName \notin {d.setName, setName} /\ d.setName # setName
      hosts == IF mismatch THEN {} ELSE HostsOf(s, r)
  IN  /\ known' = known \cup {s} \cup hosts
      /\ desc' = [desc EXCEPT ![s] = IF mismatch THEN MarkError(d, "name mismatch") ELSE d]
      /\ configName' = IF configName = NoName THEN d.setName ELSE configName
      /\ setName' = IF NoName \in {setName, configName} /\ d.setName # NoName THEN d.setName ELSE setName
      /\ topoType' = Classify(known', desc', setName')

\* ReadPreference::selectServers() without tags, staleness and latency: the
\* servers that may be picked.  None of them stands for a null connection.
selectServers(mode) ==
  LET P == {s \in known : desc[s].type \in {"RsPrimary", "Standalone"}}
      S == {s \in known : desc[s].type = "RsSecondary"}
  IN  CASE mode = "Primary" -> P
        [] mode = "PrimaryPreferred" -> IF P # {} THEN P ELSE S
        [] mode = "Secondary" -> S
        [] mode = "SecondaryPreferred" -> IF S # {} THEN S ELSE P
        [] mode = "Nearest" -> P \cup S

-----------------------------------------------------------------------------
(* The servers. *)

Changing(s) ==
  /\ changes < MaxChanges
  /\ \E r \in (Roles \cup {"down"}) \ {role[s]} : role' = [role EXCEPT ![s] = r]
  /\ changes' = changes + 1
  /\ UNCHANGED <<config, topology, refresh, monitoring>>

-----------------------------------------------------------------------------
(* updateTopologyFromAllServers(), called by the monitor and by clients. *)

\* A defect: servers in error are not asked again.
RefreshBeginHealthy(t) ==
  /\ todo' = [todo EXCEPT ![t] = {s \in known : desc[s].error = "none"}]
  /\ at' = [at EXCEPT ![t] = "ask"]
  /\ UNCHANGED <<asked, reply>>

\* The servers are copied.
RefreshBegin(t) ==
  /\ todo' = [todo EXCEPT ![t] = known]
  /\ at' = [at EXCEPT ![t] = "ask"]
  /\ UNCHANGED <<asked, reply>>

\* The next server is asked and answers or cannot be reached.
Ask(t) ==
  /\ at[t] = "ask"
  /\ ~stopMonitoring
  /\ \E s \in todo[t] :
       /\ todo' = [todo EXCEPT ![t] = @ \ {s}]
       /\ asked' = [asked EXCEPT ![t] = s]
       /\ reply' = [reply EXCEPT ![t] = role[s]]
  /\ at' = [at EXCEPT ![t] = "apply"]
  /\ UNCHANGED <<env, topology, monitoring>>

\* updateTopologyFromHello() under the mutex.
Apply(t) ==
  /\ at[t] = "apply"
  /\ IF reply[t] = "down"
     THEN markServerUnknown(asked[t], "hello failed")
     ELSE updateServer(asked[t], reply[t])
  /\ asked' = [asked EXCEPT ![t] = NoServer]
  /\ reply' = [reply EXCEPT ![t] = NoServer]
  /\ at' = [at EXCEPT ![t] = "ask"]
  /\ UNCHANGED <<env, todo, monitoring>>

\* All servers were asked, or monitoring is being stopped.
LastAsked(t) == at[t] = "ask" /\ (todo[t] = {} \/ stopMonitoring)

\* The topology is compared with the copy and, if it has changed, a
\* TopologyChangeNotification is posted, which changes nothing here.
RefreshEnd(t) ==
  /\ LastAsked(t)
  /\ at' = [at EXCEPT ![t] = "done"]
  /\ todo' = [todo EXCEPT ![t] = {}]
  /\ UNCHANGED <<env, topology, asked, reply, monitoring>>

Refreshing(t) == Ask(t) \/ Apply(t) \/ RefreshEnd(t)

-----------------------------------------------------------------------------
(* The constructor, startMonitoring(), stopMonitoring(). *)

\* The seeds have been added; the initial discovery begins.
RsInit ==
  /\ config \in Configs
  /\ role \in [Servers -> Roles \cup {"down"}] /\ changes = 0
  /\ known = config.seeds
  /\ desc = [s \in Servers |-> NewDesc]
  /\ setName = config.setName /\ configName = config.setName
  /\ topoType = Classify(known, desc, setName)
  /\ at = [t \in Threads |-> "done"]
  /\ todo = [t \in Threads |-> {}]
  /\ asked = [t \in Threads |-> NoServer]
  /\ reply = [t \in Threads |-> NoServer]
  /\ stopMonitoring = FALSE /\ monitoringActive = FALSE
  /\ mon = "none" /\ ctl = "new"

InitialDiscovery ==
  /\ ctl = "new"
  /\ RefreshBegin(Main)
  /\ ctl' = "discovery"
  /\ UNCHANGED <<env, topology, stopMonitoring, monitoringActive, mon>>

\* At the end of the constructor, or later.  The thread object must be empty.
startMonitoring ==
  /\ \/ ctl = "discovery" /\ at[Main] = "done"
     \/ ctl = "stopped"
  /\ ctl' = "up"
  /\ IF monitoringActive
     THEN UNCHANGED <<stopMonitoring, monitoringActive, mon>>
     ELSE stopMonitoring' = FALSE /\ monitoringActive' = TRUE /\ mon' = "top"
  /\ UNCHANGED <<env, topology, refresh>>

StopRequest ==
  /\ ctl = "up"
  /\ stopMonitoring' = TRUE
  /\ ctl' = "notify"
  /\ UNCHANGED <<env, topology, refresh, monitoringActive, mon>>

\* notify_all() does not take _monitorMutex: it reaches the monitor only if that
\* sleeps already.
StopWakesMonitor ==
  /\ ctl = "notify"
  /\ mon' = IF mon = "asleep" THEN "woken" ELSE mon
  /\ ctl' = "join"
  /\ UNCHANGED <<env, topology, refresh, stopMonitoring, monitoringActive>>

StopJoin ==
  /\ ctl = "join"
  /\ mon = "ended"
  /\ mon' = "none"
  /\ monitoringActive' = FALSE
  /\ ctl' = "stopped"
  /\ UNCHANGED <<env, topology, refresh, stopMonitoring>>

-----------------------------------------------------------------------------
(* monitor() *)

MonitorTop ==
  /\ mon = "top"
  /\ IF stopMonitoring
     THEN mon' = "ended" /\ UNCHANGED refresh
     ELSE mon' = "refresh" /\ RefreshBegin(Monitor)
  /\ UNCHANGED <<env, topology, stopMonitoring, monitoringActive, ctl>>

\* wait_for() looks at the predicate, and then goes to sleep.
MonitorLooks ==
  /\ mon = "refresh" /\ at[Monitor] = "done"
  /\ mon' = IF stopMonitoring THEN "top" ELSE "goes to sleep"
  /\ UNCHANGED <<env, topology, refresh, stopMonitoring, monitoringActive, ctl>>

MonitorSleeps ==
  /\ mon = "goes to sleep"
  /\ mon' = "asleep"
  /\ UNCHANGED <<env, topology, refresh, stopMonitoring, monitoringActive, ctl>>

\* A defect: wait() instead of wait_for().
MonitorWakesNotified ==
  /\ mon = "woken"
  /\ mon' = "top"
  /\ UNCHANGED <<env, topology, refresh, stopMonitoring, monitoringActive, ctl>>

\* It was notified, or the heartbeat interval has passed.
MonitorWakes ==
  /\ mon \in {"asleep", "woken"}
  /\ mon' = "top"
  /\ UNCHANGED <<env, topology, refresh, stopMonitoring, monitoringActive, ctl>>

MonitorStep == MonitorTop \/ MonitorLooks \/ MonitorSleeps \/ MonitorWakes
MainStep == InitialDiscovery \/ startMonitoring \/ StopRequest \/ StopWakesMonitor \/ StopJoin

-----------------------------------------------------------------------------
(* Invariants. *)

RsTypeOK ==
  /\ config \in Configs
  /\ role \in [Servers -> Roles \cup {"down"}]
  /\ changes \in 0..MaxChanges
  /\ known \subseteq Servers
  /\ desc \in [Servers -> Desc]
  /\ setName \in Names /\ configName \in Names
  /\ topoType \in {"Unknown", "Sharded", "Single", "ReplicaSetWithPrimary", "ReplicaSetNoPrimary"}
  /\ at \in [Threads -> {"ask", "apply", "done"}]
  /\ todo \in [Threads -> SUBSET Servers]
  /\ asked \in [Threads -> Servers \cup {NoServer}]
  /\ reply \in [Threads -> Roles \cup {"down", NoServer}]
  /\ stopMonitoring \in BOOLEAN /\ monitoringActive \in BOOLEAN
  /\ mon \in {"none", "top", "refresh", "goes to sleep", "asleep", "woken", "ended"}
  /\ ctl \in {"new", "discovery", "up", "notify", "join", "stopped"}

=============================================================================
