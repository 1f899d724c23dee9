------------------------------- MODULE Outbox -------------------------------
(* What a client of Firestore promises of the writes of its users: each waits *)
(* in the outbox of its user until the server has had it or refuses it for    *)
(* good, and the server never has a write before the earlier ones that still  *)
(* wait.  Connections, retries, sessions and processes are not mentioned.     *)
EXTENDS Naturals

CONSTANTS Users,
          Numbers,  \* of the writes, in the order in which they were made
          Refused   \* the writes the server refuses, whenever it is asked

VARIABLES outbox,     \* of each user, the writes that wait
          delivered   \* of each user, the writes the server has had

Init == outbox = [u \in Users |-> {}] /\ delivered = [u \in Users |-> {}]

Least(u, n) == n \in outbox[u] /\ \A m \in outbox[u] : n <= m

\* A new write comes after all others of its user.
Put(u, n) ==
    /\ n \notin delivered[u]
    /\ \A m \in outbox[u] : n > m
    /\ outbox' = [outbox EXCEPT ![u] = @ \cup {n}]
    /\ UNCHANGED delivered

\* The earlier writes of the outbox have been delivered, if only just before.
Deliver(u, n) ==
    /\ n \in outbox[u] \ Refused
    /\ \A m \in outbox[u] : m < n => m \in delivered[u]
    /\ delivered' = [delivered EXCEPT ![u] = @ \cup {n}]
    /\ UNCHANGED outbox

\* The first write leaves once it is delivered, or because it is refused.
Settle(u, n) ==
    /\ Least(u, n)
    /\ n \in delivered[u] \cup Refused
    /\ outbox' = [outbox EXCEPT ![u] = @ \ {n}]
    /\ UNCHANGED delivered

Next == \E u \in Users, n \in Numbers : Put(u, n) \/ Deliver(u, n) \/ Settle(u, n)

Spec == Init /\ [][Next]_<<outbox, delivered>>
=============================================================================
