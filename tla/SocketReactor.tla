---------------------------- MODULE SocketReactor ---------------------------
(***************************************************************************)
(* Poco::Net::SocketReactor, SocketNotifier, PollSet and NotificationCenter*)
(* for one socket (sockets share nothing but short locks): clients, which  *)
(* may be event handlers, add and remove observers while the reactor's     *)
(* thread polls and dispatches.                                            *)
(*                                                                         *)
(* addEventHandler() and removeEventHandler() change several structures,   *)
(* one after the other, each under its own lock: the reactor's _handlers,  *)
(* the notifier's observers and its _events, the kernel's epoll set and    *)
(* the poll set's _socketMap.  epoll_ctl() can fail.  The reactor's thread *)
(* works with copies of the observer lists; a removed observer is disabled.*)
(***************************************************************************)
EXTENDS Naturals, FiniteSets

CONSTANTS
  KindOf,       \* KindOf[o]: the notification observer o is for
  Clients,      \* threads that add and remove observers
  Uses,         \* Uses[c]: the observers client c adds and removes
  Removers,     \* the clients that call remove()
  Notifiers,    \* SocketNotifier objects
  CtlFails,     \* whether epoll_ctl() can fail for reasons of the socket's or its own
  MaxAdds,      \* bound: the calls of addEventHandler()
  None

Pollable == {"read", "write", "error"}

VARIABLES
  handler,    \* the notifier _handlers has for the socket, or None
  list,       \* list[n]: the observers (clones) in notifier n
  events,     \* events[n][kind]: how often notifier n's _events has the notification
  adds,       \* how often addEventHandler() was called
  disabled,   \* the clones that are disabled
  epoll,      \* what the kernel watches the socket for, None if it does not
  socketMap,  \* its mode in the poll set's _socketMap, None if it is not there
  kpc,        \* kpc[c]: where client c is
  arg,        \* arg[c]: the observer it adds or removes and, if it adds it, which clone that is
  mine,       \* mine[c]: its pNotifier
  mode,       \* mode[c]: its newMode
  dead,       \* dead[c]: the clones it has unlinked and has to disable
  rpc,        \* where the reactor's thread is
  event,      \* the kind of notification it dispatches
  target,     \* the notifier it dispatches to
  batch,      \* observersToNotify(): the clones it has still to notify
  calling,    \* the clone whose handler it has called last
  gone        \* history: clones whose removal has returned

registry == <<handler, list, events, adds, disabled>>
pollSet == <<epoll, socketMap>>
client == <<kpc, arg, mine, mode, dead, gone>>
reactor == <<rpc, event, target, batch, calling>>
reactorVars == <<registry, pollSet, client, reactor>>

Init ==
  /\ handler = None /\ list = [n \in Notifiers |-> {}]
  /\ events = [n \in Notifiers |-> [k \in Pollable |-> 0]]
  /\ adds = 0 /\ disabled = {}
  /\ epoll = None /\ socketMap = None
  /\ kpc = [c \in Clients |-> "out"] /\ arg = [c \in Clients |-> None]
  /\ mine = [c \in Clients |-> None] /\ mode = [c \in Clients |-> {}]
  /\ dead = [c \in Clients |-> {}]
  /\ rpc = "poll" /\ event = None /\ target = None /\ batch = {} /\ calling = None
  /\ gone = {}

Has(n, o) == \E k \in list[n] : k[1] = o
accepts(n) == {k \in Pollable : events[n][k] > 0}
Mode(m) == IF m = None THEN {} ELSE m

\* Client c goes on to the next step of its call, with a new mode or the one it had,
GoWith(c, m, where) ==
  /\ kpc' = [kpc EXCEPT ![c] = where]
  /\ mode' = [mode EXCEPT ![c] = m]
  /\ UNCHANGED <<arg, mine, dead, gone>>
Go(c, where) == GoWith(c, mode[c], where)

\* or leaves it by a return or an exception; what it has unlinked is gone.
Return(c) ==
  /\ kpc' = [kpc EXCEPT ![c] = "out"]
  /\ arg' = [arg EXCEPT ![c] = None] /\ mine' = [mine EXCEPT ![c] = None]
  /\ mode' = [mode EXCEPT ![c] = {}]
  /\ gone' = gone \cup dead[c]
  /\ dead' = [dead EXCEPT ![c] = {}]

-----------------------------------------------------------------------------
(* addEventHandler() *)

\* getNotifier(socket, true)
addEventHandler(c, o) ==
  /\ kpc[c] = "out"
  /\ adds < MaxAdds
  /\ adds' = adds + 1
  /\ arg' = [arg EXCEPT ![c] = <<o, adds'>>]
  /\ \/ /\ handler # None
        /\ mine' = [mine EXCEPT ![c] = handler]
        /\ UNCHANGED <<handler, list, events>>
     \/ /\ handler = None
        /\ LET n == CHOOSE n \in Notifiers : n \notin {mine[d] : d \in Clients} \cup {target}
           IN  /\ handler' = n
               /\ list' = [list EXCEPT ![n] = {}]
               /\ events' = [events EXCEPT ![n] = [k \in Pollable |-> 0]]
               /\ mine' = [mine EXCEPT ![c] = n]
  /\ kpc' = [kpc EXCEPT ![c] = "has?"]
  /\ UNCHANGED <<disabled, pollSet, mode, dead, gone, reactor>>

\* hasObserver()
AddHas(c) ==
  /\ kpc[c] = "has?"
  /\ Go(c, IF Has(mine[c], arg[c][1]) THEN "mode" ELSE "link")
  /\ UNCHANGED <<registry, pollSet, reactor>>

\* NotificationCenter::addObserver()
AddObserver(c) ==
  /\ kpc[c] = "link"
  /\ list' = [list EXCEPT ![mine[c]] = @ \cup {arg[c]}]
  /\ Go(c, "insert")
  /\ UNCHANGED <<handler, events, adds, disabled, pollSet, reactor>>

AddEvent(c) ==
  LET kind == KindOf[arg[c][1]] IN
  /\ kpc[c] = "insert"
  /\ events' = IF kind \in Pollable THEN [events EXCEPT ![mine[c]][kind] = @ + 1] ELSE events
  /\ Go(c, "mode")
  /\ UNCHANGED <<handler, list, adds, disabled, pollSet, reactor>>

\* What the notifier accepts, and getNewMode(): what _socketMap has already.
AddMode(c) ==
  /\ kpc[c] = "mode"
  /\ \/ /\ accepts(mine[c]) = {}
        /\ Return(c)
     \/ /\ accepts(mine[c]) # {}
        /\ GoWith(c, accepts(mine[c]) \cup Mode(socketMap), "ctl add")
  /\ UNCHANGED <<registry, pollSet, reactor>>

\* EPOLL_CTL_ADD.  A socket that is there is updated, any other error is thrown.
PollAdd(c) ==
  /\ kpc[c] = "ctl add"
  /\ \/ /\ epoll = None
        /\ epoll' = mode[c] \cup Mode(socketMap)
        /\ GoWith(c, epoll', "map")
     \/ epoll # None /\ Go(c, "ctl mod") /\ UNCHANGED epoll
     \/ CtlFails /\ Return(c) /\ UNCHANGED epoll
  /\ UNCHANGED <<registry, socketMap, reactor>>

\* EPOLL_CTL_MOD.  A socket that is not there is an error.
PollMod(c) ==
  /\ kpc[c] = "ctl mod"
  /\ \/ epoll # None /\ epoll' = mode[c] /\ Go(c, "map")
     \/ (epoll = None \/ CtlFails) /\ Return(c) /\ UNCHANGED epoll
  /\ UNCHANGED <<registry, socketMap, reactor>>

socketMapUpdate(c) ==
  /\ kpc[c] = "map"
  /\ socketMap' = mode[c]
  /\ Return(c)
  /\ UNCHANGED <<registry, epoll, reactor>>

-----------------------------------------------------------------------------
(* removeEventHandler() *)

\* getNotifier(socket)
removeEventHandler(c, o) ==
  /\ kpc[c] = "out"
  /\ handler # None
  /\ kpc' = [kpc EXCEPT ![c] = "count"]
  /\ arg' = [arg EXCEPT ![c] = <<o, 0>>] /\ mine' = [mine EXCEPT ![c] = handler]
  /\ UNCHANGED <<registry, pollSet, mode, dead, gone, reactor>>

\* hasObserver() and countObservers(): the last observer takes the notifier with it.
RemoveCounts(c) ==
  /\ kpc[c] = "count"
  /\ \/ ~Has(mine[c], arg[c][1]) /\ Return(c)
     \/ /\ Has(mine[c], arg[c][1])
        /\ Go(c, IF Cardinality(list[mine[c]]) = 1 THEN "erase" ELSE "unlink")
  /\ UNCHANGED <<registry, pollSet, reactor>>

\* Whatever notifier _handlers has by now is erased.
EraseHandler(c) ==
  /\ kpc[c] = "erase"
  /\ handler' = None
  /\ Go(c, "ctl del")
  /\ UNCHANGED <<list, events, adds, disabled, pollSet, reactor>>

\* EPOLL_CTL_DEL.  An error ends removeEventHandler(), and is ignored in remove();
\* _socketMap keeps its entry.
PollRemove(c) ==
  /\ kpc[c] = "ctl del"
  /\ \/ epoll # None /\ epoll' = None /\ Go(c, "map erase")
     \/ /\ epoll = None \/ CtlFails
        /\ IF arg[c] = None THEN Go(c, "take") ELSE Return(c)
        /\ UNCHANGED epoll
  /\ UNCHANGED <<registry, socketMap, reactor>>

socketMapErase(c) ==
  /\ kpc[c] = "map erase"
  /\ socketMap' = None
  /\ Go(c, IF arg[c] = None THEN "take" ELSE "unlink")
  /\ UNCHANGED <<registry, epoll, reactor>>

\* NotificationCenter::removeObserver() unlinks the observer,
Unlink(c) ==
  /\ kpc[c] = "unlink"
  /\ \/ \E k \in list[mine[c]] :
          /\ k[1] = arg[c][1]
          /\ list' = [list EXCEPT ![mine[c]] = @ \ {k}]
          /\ dead' = [dead EXCEPT ![c] = {k}]
     \/ ~Has(mine[c], arg[c][1]) /\ UNCHANGED <<list, dead>>
  /\ kpc' = [kpc EXCEPT ![c] = "disable"]
  /\ UNCHANGED <<handler, events, adds, disabled, pollSet, arg, mine, mode, gone, reactor>>

\* A defect: it is not disabled.
DisableNot(c) ==
  /\ kpc[c] = "disable"
  /\ Go(c, "drop")
  /\ UNCHANGED <<registry, pollSet, reactor>>

\* and disables it.
Disable(c) ==
  /\ kpc[c] = "disable"
  /\ disabled' = disabled \cup dead[c]
  /\ Go(c, "drop")
  /\ UNCHANGED <<handler, list, events, adds, pollSet, reactor>>

\* The event is erased even if the observer had been removed already.
RemoveEvent(c) ==
  LET kind == KindOf[arg[c][1]] IN
  /\ kpc[c] = "drop"
  /\ events' = IF kind \in accepts(mine[c])
                THEN [events EXCEPT ![mine[c]][kind] = @ - 1]
                ELSE events
  /\ Go(c, "update")
  /\ UNCHANGED <<handler, list, adds, disabled, pollSet, reactor>>

\* The mode becomes what the remaining observers need.
PollUpdate(c) ==
  /\ kpc[c] = "update"
  /\ \/ list[mine[c]] = {} /\ Return(c)
     \/ /\ list[mine[c]] # {}
        /\ GoWith(c, accepts(mine[c]), "ctl mod")
  /\ UNCHANGED <<registry, pollSet, reactor>>

-----------------------------------------------------------------------------
(* remove(): first the poll set (above), *)

remove(c) ==
  /\ kpc[c] = "out" /\ c \in Removers
  /\ Go(c, "ctl del")
  /\ UNCHANGED <<registry, pollSet, reactor>>

\* then the notifier,
Take(c) ==
  /\ kpc[c] = "take"
  /\ handler' = None
  /\ \/ handler = None /\ Return(c)
     \/ /\ handler # None
        /\ mine' = [mine EXCEPT ![c] = handler]
        /\ kpc' = [kpc EXCEPT ![c] = "clear"]
        /\ UNCHANGED <<arg, mode, dead, gone>>
  /\ UNCHANGED <<list, events, adds, disabled, pollSet, reactor>>

\* then its observers, which are unlinked and, one by one, disabled.
Clear(c) ==
  /\ kpc[c] = "clear"
  /\ dead' = [dead EXCEPT ![c] = list[mine[c]]]
  /\ list' = [list EXCEPT ![mine[c]] = {}]
  /\ kpc' = [kpc EXCEPT ![c] = "disable all"]
  /\ UNCHANGED <<handler, events, adds, disabled, pollSet, arg, mine, mode, gone, reactor>>

DisableAll(c) ==
  /\ kpc[c] = "disable all"
  /\ \/ /\ \E k \in dead[c] \ disabled : disabled' = disabled \cup {k}
        /\ UNCHANGED client
     \/ /\ dead[c] \subseteq disabled
        /\ Return(c)
        /\ UNCHANGED disabled
  /\ UNCHANGED <<handler, list, events, adds, pollSet, reactor>>

-----------------------------------------------------------------------------
(* run() *)

\* poll() returns an event for the socket, or nothing: a timeout.  The kernel reports
\* a hang-up, which counts as readable, and an error whatever it watches for.
\* Without an observer for a pollable event the thread sleeps instead.
Poll ==
  /\ rpc = "poll"
  /\ socketMap # None
  /\ handler # None /\ accepts(handler) # {}
  /\ \/ event' = "timeout" /\ rpc' = "notifier"
     \/ epoll # None /\ event' \in epoll \cup {"read", "error"} /\ rpc' = "has"
  /\ UNCHANGED <<registry, pollSet, client, target, batch, calling>>

\* dispatch(): a socket removed in the meantime is skipped.  A timeout takes the
\* notifier first, and looks at the poll set after that.
DispatchHas ==
  /\ rpc = "has"
  /\ IF socketMap = None
     THEN rpc' = "poll" /\ target' = None /\ event' = None
     ELSE rpc' = (IF event = "timeout" THEN "copy" ELSE "notifier") /\ UNCHANGED <<target, event>>
  /\ UNCHANGED <<registry, pollSet, client, batch, calling>>

DispatchNotifier ==
  /\ rpc = "notifier"
  /\ target' = handler
  /\ IF handler = None
     THEN rpc' = "poll" /\ event' = None
     ELSE rpc' = (IF event = "timeout" THEN "has" ELSE "copy") /\ UNCHANGED event
  /\ UNCHANGED <<registry, pollSet, client, batch, calling>>

\* observersToNotify()
Copy ==
  /\ rpc = "copy"
  /\ batch' = {k \in list[target] : KindOf[k[1]] = event}
  /\ rpc' = "notify"
  /\ UNCHANGED <<registry, pollSet, client, event, target, calling>>

\* notify() calls the handler unless the observer is disabled.
Notify ==
  /\ rpc = "notify"
  /\ \/ /\ \E k \in batch :
             /\ batch' = batch \ {k}
             /\ calling' = IF k \in disabled THEN None ELSE k
        /\ UNCHANGED <<rpc, event, target>>
     \/ /\ batch = {}
        /\ rpc' = "poll"
        /\ event' = None /\ target' = None /\ calling' = None
        /\ UNCHANGED batch
  /\ UNCHANGED <<registry, pollSet, client>>

Next ==
  \/ \E c \in Clients :
       \/ \E o \in Uses[c] : addEventHandler(c, o) \/ removeEventHandler(c, o)
       \/ AddHas(c) \/ AddObserver(c) \/ AddEvent(c) \/ AddMode(c)
       \/ PollAdd(c) \/ PollMod(c) \/ socketMapUpdate(c)
       \/ RemoveCounts(c) \/ EraseHandler(c) \/ PollRemove(c) \/ socketMapErase(c)
       \/ Unlink(c) \/ Disable(c) \/ RemoveEvent(c) \/ PollUpdate(c)
       \/ remove(c) \/ Take(c) \/ Clear(c) \/ DisableAll(c)
  \/ Poll \/ DispatchHas \/ DispatchNotifier \/ Copy \/ Notify

Spec == Init /\ [][Next]_reactorVars

-----------------------------------------------------------------------------
(* Properties. *)

\* Whatever the reactor's thread has copied, however many clients are at work and
\* whatever the kernel refuses, no call begins for an observer whose removal has
\* returned (NotificationCenter::removeObserver(), clear(), Observer::notify()).  A
\* call begins with the look at _pObject; one that has begun may outlive the removal.
NoLateCall ==
  [][calling' # calling /\ calling' # None => calling' \notin gone]_reactorVars

\* What the class comment's "It is safe to call addEventHandler() and
\* removeEventHandler() from another thread while the SocketReactor is running"
\* promises the caller of addEventHandler(): once nobody is at work, every observer
\* that was added and not removed is in the notifier the reactor has for the socket,
\* and the kernel watches for its event.  The code does not keep it when two clients
\* are at work.
RegisteredIsPolled ==
  (\A c \in Clients : kpc[c] = "out") =>
    \A n \in Notifiers : \A k \in list[n] :
      n = handler /\ (KindOf[k[1]] \in Pollable => KindOf[k[1]] \in Mode(epoll))

=============================================================================
