------------------------------ MODULE SnapFeed ------------------------------
(* SnapChatClone: the screen of FeedVC, and the SnapVC that a tap on a row   *)
(* opens, on top of the stories, listeners and sessions of SnapStories.      *)
EXTENDS SnapStories, Integers

VARIABLES
    rows,      \* phone -> snapArr, the documents of the last snapshot
    timeLeft   \* phone -> the one timeLeft of the FeedVC

screen == <<rows, timeLeft>>
feedVars == <<vars, screen>>

\* A row.  "left" is history: the hours its own story had left at the reading.
Row(i) == [id |-> i, left |-> TTL - Difference(i)]
Rows   == [id : Photos, left : Int]

FeedTypeOK ==
    /\ TypeOK
    /\ rows \in [Phones -> SUBSET Rows]
    /\ \A d \in Phones : \A r, s \in rows[d] : r.id = s.id => r = s
    /\ timeLeft \in [Phones -> Int]
    /\ \A d \in Phones : timeLeft[d] <= TTL

FeedInit ==
    /\ Init
    /\ rows = [d \in Phones |-> {}]
    /\ timeLeft = [d \in Phones |-> 0]

\* A new FeedVC is on the screen, after signing up or in or after a launch.
NewFeed(d) ==
    /\ rows' = [rows EXCEPT ![d] = {}]
    /\ timeLeft' = [timeLeft EXCEPT ![d] = 0]

Entered(d) ==
    /\ \/ \E u \in Users : SignIn(d, u) \/ \E n \in Names : SignUp(d, u, n)
       \/ Launch(d)
    /\ NewFeed(d)

\* Variant: the other order.
FirstOf(seen) == CHOOSE i \in seen : \A j \in seen : snaps[i].date >= snaps[j].date

\* order(by: "date", descending: true): the loop ends with the oldest.
LastOf(seen) == CHOOSE i \in seen : \A j \in seen : snaps[i].date <= snaps[j].date

\* snapArr.removeAll, then append
Reloaded(d, seen) == {Row(i) : i \in seen}

\* The listener's handler: a snapshot that is not empty replaces the rows, an
\* empty one leaves them; timeLeft is assigned once for every document.
ShowSnapshot(d) ==
    /\ SnapshotArrives(d)
    /\ LET seen == {i \in Photos : Story(i)}
       IN  \/ /\ seen # {}
              /\ rows' = [rows EXCEPT ![d] = Reloaded(d, seen)]
              /\ timeLeft' = [timeLeft EXCEPT ![d] = TTL - Difference(LastOf(seen))]
           \/ seen = {} /\ UNCHANGED screen

\* didSelectRowAt, prepare(for:) and SnapVC.viewDidLoad: the time SnapVC shows
\* for whichever row is tapped.  Opening it changes nothing else.
LabelFor(d, r) == timeLeft[d]

\* Every step of SnapStories that FeedVC's screen has no part in.
Elsewhere ==
    /\ \/ \E p \in Photos : UploadNext(p) \/ DeleteApplied(p) \/ DeleteFails(p)
       \/ \E d \in Phones : \/ ListenerFails(d) \/ Logout(d) \/ Kill(d)
                            \/ \E u \in Users : UserInfoArrives(d, u) \/ UserInfoMissing(d, u)
       \/ Tick
    /\ UNCHANGED screen

FeedNext ==
    \/ \E d \in Phones : Entered(d) \/ ShowSnapshot(d)
    \/ Elsewhere

FeedSpec == FeedInit /\ [][FeedNext]_feedVars

-----------------------------------------------------------------------------
\* A listener that has handled its last event leaves the whole collection on
\* the screen, whatever was added, merged or deleted meanwhile -- unless the
\* collection is empty, when FeedVC.swift 36 leaves the old rows.
FeedIsCurrent ==
    \A d \in Phones :
        (listen[d] = "idle" /\ \E i \in Photos : Story(i))
            => {r.id : r \in rows[d]} = {i \in Photos : Story(i)}

\* Whichever row is tapped, SnapVC never promises more hours than the snap had
\* when the feed was read: timeLeft is that of the oldest (FeedVC.swift 32, 53).
TimeNeverOverstated ==
    \A d \in Phones : \A r \in rows[d] : LabelFor(d, r) <= r.left

\* FeedVC.swift 52 says "TimeLeft -> SnapVC": the time SnapVC shows is the time
\* the chosen snap had left.
TimeIsOfTheSnap ==
    \A d \in Phones : \A r \in rows[d] : LabelFor(d, r) = r.left
=============================================================================
