----------------------------- MODULE StoryBoard -----------------------------
(* What SnapChatClone promises of its stories, told without phones, requests *)
(* or answers: a story is posted by an owner at an hour, keeps both, and     *)
(* leaves when it has lived for TTL hours, not before.                       *)
EXTENDS Naturals

CONSTANTS Ids, Owners, Absent, TTL

VARIABLES now, board     \* board: id -> the story's owner and date, or Absent

vars == <<now, board>>

Init == now = 0 /\ board = [i \in Ids |-> Absent]

Post(i, n) ==
    /\ board[i] = Absent
    /\ board' = [board EXCEPT ![i] = [owner |-> n, date |-> now]]
    /\ UNCHANGED now

Expire(i) ==
    /\ board[i] # Absent
    /\ now >= board[i].date + TTL
    /\ board' = [board EXCEPT ![i] = Absent]
    /\ UNCHANGED now

Tick == now' = now + 1 /\ UNCHANGED board

Next ==
    \/ \E i \in Ids : Expire(i) \/ \E n \in Owners : Post(i, n)
    \/ Tick

Spec == Init /\ [][Next]_vars
=============================================================================
