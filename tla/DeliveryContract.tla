-------------------------- MODULE DeliveryContract --------------------------
(***************************************************************************)
(* What a notification queue promises its clients, whatever threads wait   *)
(* and however they are woken: pending notifications leave in order and    *)
(* once; a notification goes past the queue to a waiting consumer only     *)
(* when nothing is pending; a consumer that was given one receives it.     *)
(***************************************************************************)
EXTENDS Naturals, Sequences

CONSTANTS Consumers, Items, None

VARIABLES
  pending,  \* the notifications in the queue, the next one to leave first
  given,    \* given[c]: the notification a waiting consumer has been given
  delivered \* the notification that most recently reached a caller

cvars == <<pending, given, delivered>>

Init ==
  /\ pending = <<>>
  /\ given = [c \in Consumers |-> None]
  /\ delivered = None

\* The notification is nowhere in the queue's hands.
Fresh(n) ==
  /\ \A i \in 1..Len(pending) : pending[i] # n
  /\ \A c \in Consumers : given[c] # n

Put(n) ==
  /\ Fresh(n)
  /\ pending' = Append(pending, n)
  /\ UNCHANGED <<given, delivered>>

PutUrgent(n) ==
  /\ Fresh(n)
  /\ pending' = <<n>> \o pending
  /\ UNCHANGED <<given, delivered>>

Give(c, n) ==
  /\ Fresh(n)
  /\ pending = <<>>
  /\ given[c] = None
  /\ given' = [given EXCEPT ![c] = n]
  /\ UNCHANGED <<pending, delivered>>

Take ==
  /\ pending # <<>>
  /\ pending' = Tail(pending)
  /\ delivered' = Head(pending)
  /\ UNCHANGED given

Receive(c) ==
  /\ given[c] # None
  /\ given' = [given EXCEPT ![c] = None]
  /\ delivered' = given[c]
  /\ UNCHANGED pending

DiscardAll ==
  /\ pending' = <<>>
  /\ UNCHANGED <<given, delivered>>

\* The oldest leave for somewhere else.
DiscardFirst ==
  /\ \E k \in 1..Len(pending) : pending' = SubSeq(pending, k + 1, Len(pending))
  /\ UNCHANGED <<given, delivered>>

Discard(n) ==
  /\ \E k \in 1..Len(pending) :
        /\ pending[k] = n
        /\ pending' = [i \in 1..(Len(pending) - 1) |->
                         IF i < k THEN pending[i] ELSE pending[i + 1]]
  /\ UNCHANGED <<given, delivered>>

Next ==
  \/ \E n \in Items : Put(n) \/ PutUrgent(n) \/ Discard(n)
  \/ \E c \in Consumers, n \in Items : Give(c, n)
  \/ \E c \in Consumers : Receive(c)
  \/ Take
  \/ DiscardAll
  \/ DiscardFirst

Spec == Init /\ [][Next]_cvars

=============================================================================
