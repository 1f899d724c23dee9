---------------------------- MODULE MCInstaLikes ----------------------------
(* An instance of InstaLikes for TLC: two phones, two posts, two authors.   *)
EXTENDS InstaLikes, TLC

CONSTANTS d1, d2, p1, p2, ann, bob

TwoPhones == {d1, d2}
TwoPosts  == {p1, p2}
TwoUsers  == {ann, bob}
OneEach   == p1 :> ann @@ p2 :> bob
=============================================================================
