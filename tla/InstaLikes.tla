----------------------------- MODULE InstaLikes -----------------------------
(* InstaCloneFirebase: posts, the feeds that list them, the like button, and *)
(* the push notifications a like sends (FeedViewController.swift,            *)
(* FeedCell.swift, the last step of UploadViewController.swift).  A like     *)
(* writes the number on the cell plus one; requests to Firestore take effect *)
(* in any order.                                                             *)
EXTENDS Integers, FiniteSets

CONSTANTS Phones,    \* phones with the feed open
          Posts,     \* documents of the collection Posts
          Users,     \* e-mail addresses
          AuthorOf,  \* "postedBy" of each post
          MaxTaps    \* bound: taps on like buttons

ASSUME LikesAssumption ==
    AuthorOf \in [Posts -> Users] /\ MaxTaps \in Nat

VARIABLES likes,    \* post -> its field "likes", NoPost before it is added
          cells,    \* phone -> post -> likeArr as of its last snapshot, or NoPost
          due,      \* phones whose listener has a snapshot to handle
          writes,   \* setData requests on their way
          waves,    \* taps whose query of all posts is unanswered
          lookups,  \* queries of player ids, one for every post there was
          registered, \* users with a document in the collection PlayerId
          patient,  \* whether every tap waits for the last to be on every feed
          faulty,   \* whether a request ever fails
          taps,     \* history: the taps on like buttons, numbered
          pushed    \* history: the notifications sent, with the tap they are for
                    \* and the post whose author they are sent to

ways == <<patient, faulty>>
vars == <<likes, cells, due, writes, waves, lookups, registered, ways, taps, pushed>>

NoPost == -1
Added  == {p \in Posts : likes[p] # NoPost}
Tapped == [post : Posts, tap : 1 .. MaxTaps]
Notice == [post : Posts, tap : 1 .. MaxTaps, from : Posts]

TapsOn(p) == Cardinality({t \in taps : t.post = p})

TypeOK ==
    /\ likes \in [Posts -> {NoPost} \cup 0 .. MaxTaps]
    /\ cells \in [Phones -> [Posts -> {NoPost} \cup 0 .. MaxTaps]]
    /\ due \in SUBSET Phones
    /\ writes \in SUBSET [post : Posts, tap : 1 .. MaxTaps, likes : 1 .. MaxTaps]
    /\ waves \in SUBSET Tapped
    /\ lookups \in SUBSET Notice /\ registered \in SUBSET Users
    /\ patient \in BOOLEAN /\ faulty \in BOOLEAN
    /\ taps \in SUBSET Tapped
    /\ pushed \in SUBSET Notice

Init ==
    /\ likes = [p \in Posts |-> NoPost]
    /\ cells = [d \in Phones |-> [p \in Posts |-> NoPost]]
    /\ due = Phones
    /\ writes = {} /\ waves = {} /\ lookups = {} /\ registered = {}
    /\ patient \in BOOLEAN /\ faulty \in BOOLEAN
    /\ taps = {}
    /\ pushed = {}

\* uploadClicked, its last request: a new post has no likes.
PostAdded(p) ==
    /\ p \notin Added
    /\ likes' = [likes EXCEPT ![p] = 0]
    /\ due' = Phones
    /\ UNCHANGED <<cells, writes, waves, lookups, registered, taps, pushed, ways>>

\* Variant: without likeArr.removeAll() the old numbers stay in front.
SnapshotAppended(d) ==
    /\ d \in due
    /\ due' = due \ {d}
    /\ cells' = [cells EXCEPT ![d] =
         [p \in Posts |-> IF @[p] = NoPost THEN likes[p] ELSE @[p]]]
    /\ UNCHANGED <<likes, writes, waves, lookups, registered, taps, pushed, ways>>

\* getDataFromFirestore: the arrays are emptied and filled, unless there is no
\* post at all.
SnapshotArrives(d) ==
    /\ d \in due
    /\ due' = due \ {d}
    /\ cells' = IF Added = {} THEN cells ELSE [cells EXCEPT ![d] = likes]
    /\ UNCHANGED <<likes, writes, waves, lookups, registered, taps, pushed, ways>>

Quiet == due = {} /\ writes = {} /\ waves = {} /\ lookups = {}

\* Variant: a like counts twice.
NewCountTwice(d, p) == cells[d][p] + 2

\* ["likes" : count + 1], count being the text of the cell's label
NewCount(d, p) == cells[d][p] + 1

LikeButtonClicked(d, p) ==
    /\ cells[d][p] # NoPost
    /\ patient => Quiet
    /\ Cardinality(taps) < MaxTaps
    /\ LET n == Cardinality(taps) + 1 IN
       /\ writes' = writes \cup {[post |-> p, tap |-> n, likes |-> NewCount(d, p)]}
       /\ waves' = waves \cup {[post |-> p, tap |-> n]}
       /\ taps' = taps \cup {[post |-> p, tap |-> n]}
    /\ UNCHANGED <<likes, cells, due, lookups, registered, pushed, ways>>

LikeApplied(w) ==
    /\ w \in writes
    /\ writes' = writes \ {w}
    /\ likes' = [likes EXCEPT ![w.post] = w.likes]
    /\ due' = Phones
    /\ UNCHANGED <<cells, waves, lookups, registered, taps, pushed, ways>>

\* A user's phones register and unregister as InstaPlayers says; here it matters
\* whether any of them is registered.
PlayersChange(u) ==
    /\ registered' \in {registered \cup {u}, registered \ {u}} \ {registered}
    /\ UNCHANGED <<likes, cells, due, writes, waves, lookups, taps, pushed, ways>>

\* Variant: the first of the posts only.
FirstPost(q) == {CHOOSE p \in Added : TRUE}

\* The documents for which a tap has player ids looked up, each on its own: all
\* the posts there are.  An author is looked up once for each of his posts.
Documents(q) == Added

PostsAnswered(q) ==
    /\ q \in waves
    /\ waves' = waves \ {q}
    /\ lookups' = lookups \cup
         {[post |-> q.post, tap |-> q.tap, from |-> p] : p \in Documents(q)}
    /\ UNCHANGED <<likes, cells, due, writes, registered, taps, pushed, ways>>

\* OneSignal.postNotification to the player ids of the author, if he has any.
PlayersAnswered(l) ==
    /\ l \in lookups
    /\ lookups' = lookups \ {l}
    /\ pushed' = IF AuthorOf[l.from] \in registered THEN pushed \cup {l} ELSE pushed
    /\ UNCHANGED <<likes, cells, due, writes, waves, registered, taps, ways>>

\* No error of these requests is told to anyone.
RequestFails ==
    /\ faulty
    /\ \/ \E w \in writes : writes' = writes \ {w} /\ UNCHANGED <<waves, lookups>>
       \/ \E q \in waves : waves' = waves \ {q} /\ UNCHANGED <<writes, lookups>>
       \/ \E l \in lookups : lookups' = lookups \ {l} /\ UNCHANGED <<writes, waves>>
    /\ UNCHANGED <<likes, cells, due, registered, taps, pushed, ways>>

Next ==
    \/ \E p \in Posts : PostAdded(p) \/ \E d \in Phones : LikeButtonClicked(d, p)
    \/ \E d \in Phones : SnapshotArrives(d)
    \/ \E w \in writes : LikeApplied(w)
    \/ \E q \in waves : PostsAnswered(q)
    \/ \E l \in lookups : PlayersAnswered(l)
    \/ \E u \in Users : PlayersChange(u)
    \/ RequestFails

Spec == Init /\ [][Next]_vars

Fairness ==
    /\ \A d \in Phones : WF_vars(SnapshotArrives(d))
    /\ WF_vars(\E w \in writes : LikeApplied(w))
    /\ \A q \in Tapped : WF_vars(PostsAnswered(q))
    /\ \A l \in Notice : WF_vars(PlayersAnswered(l))

FairSpec == Spec /\ Fairness

-----------------------------------------------------------------------------
\* A post never has more likes than its button has been tapped, whichever stale
\* counts the phones write over one another (FeedCell.swift 35-37).
LikesNeverExceedTaps == \A p \in Posts : likes[p] <= TapsOn(p)

\* When every tap waits until the last one is on every feed, and no request
\* fails, no like is lost.
NoLikeLost == patient /\ ~faulty /\ Quiet => \A p \in Added : likes[p] = TapsOn(p)

\* The author of a post hears of every tap on its button, unless no phone of his
\* is registered meanwhile, whatever posts are added and whoever registers or
\* logs out (FeedCell.swift 39-68).
AuthorIsTold == ~faulty =>
    \A q \in Tapped :
        q \in waves ~> \/ [post |-> q.post, tap |-> q.tap, from |-> q.post] \in pushed
                       \/ AuthorOf[q.post] \notin registered

\* The notification says "Someone likes your post!" (FeedCell.swift 55): whoever
\* receives it is the author of the post that was liked.
OnlyTheAuthorIsTold == \A x \in pushed : AuthorOf[x.from] = AuthorOf[x.post]
=============================================================================
