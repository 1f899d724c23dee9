----------------------------- MODULE MCSnapFeed -----------------------------
(* An instance of SnapFeed for TLC: one phone, two accounts, two uploads.   *)
EXTENDS SnapFeed

CONSTANTS d1, p1, p2, u1, u2, ann

OnePhone  == {d1}
TwoUsers  == {u1, u2}
Usernames == {Blank, ann}
TwoPhotos == {p1, p2}
AllOnOne  == [p \in Photos |-> d1]
=============================================================================
