--------------------------- MODULE MCSnapStories ---------------------------
(* Instances of SnapStories for TLC.                                        *)
EXTENDS SnapStories

CONSTANTS d1, d2, p1, p2, u1, u2, ann, bob

OnePhone  == {d1}
TwoPhones == {d1, d2}
TwoUsers  == {u1, u2}
Usernames == {Blank, ann, bob}
TwoPhotos == {p1, p2}

\* Every upload on the one phone, or one on each of two.
AllOnOne  == [p \in Photos |-> d1]
OneApiece == [p \in Photos |-> IF p = p1 THEN d1 ELSE d2]
=============================================================================
