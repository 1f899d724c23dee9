--------------------------- MODULE InstaLikesProofs ---------------------------
(* The likes of InstaClone for any number of phones, posts and taps: however  *)
(* stale the cells, likes never exceed taps, and where every tap waits and     *)
(* nothing fails they are the taps.  A notice is lost on its way only where its  *)
(* author is not registered.                                                     *)
EXTENDS InstaLikes, FiniteSetTheorems, TLAPS

\* The taps are numbered, and no number is above how many there are.
Numbered ==
    /\ IsFiniteSet(taps) /\ Cardinality(taps) \in 0 .. MaxTaps
    /\ \A t \in taps : t.tap \in 1 .. Cardinality(taps)

\* A count, wherever it is, was no more than the taps when it was taken, and
\* there are no taps on a post that is not there.
Bounded ==
    /\ LikesNeverExceedTaps
    /\ \A d \in Phones, p \in Posts : cells[d][p] <= TapsOn(p)
    /\ \A w \in writes : w.likes <= TapsOn(w.post)
    /\ \A d \in Phones, p \in Posts : cells[d][p] # NoPost => p \in Added
    /\ \A t \in taps : t.post \in Added
    /\ \A w \in writes : w.post \in Added

\* For users who wait, with requests that succeed: one write at a time, of the
\* right number; the other numbers are right, and on every feed that is not due.
InStep == patient /\ ~faulty =>
    /\ \A v, w \in writes : v = w
    /\ \A w \in writes : w.likes = TapsOn(w.post)
    /\ \A p \in Added : (\A w \in writes : w.post # p) => likes[p] = TapsOn(p)
    /\ \A d \in Phones \ due : cells[d] = likes

IInv == TypeOK /\ Numbered /\ Bounded /\ InStep

-----------------------------------------------------------------------------
(* Counting                                                                  *)

\* The taps on one post are some of the taps.
LEMMA CountType ==
    ASSUME Numbered, NEW p \in Posts
    PROVE  /\ IsFiniteSet({t \in taps : t.post = p})
           /\ TapsOn(p) \in Nat /\ TapsOn(p) <= Cardinality(taps)
  <1>1. IsFiniteSet(taps)
    BY DEF Numbered
  <1>2. {t \in taps : t.post = p} \subseteq taps
    OBVIOUS
  <1>3. IsFiniteSet({t \in taps : t.post = p})
        /\ Cardinality({t \in taps : t.post = p}) <= Cardinality(taps)
    BY <1>1, <1>2, FS_Subset
  <1> QED  BY <1>3, FS_CardinalityType DEF TapsOn

\* A post without taps counts none.
LEMMA NoTaps ==
    ASSUME NEW p \in Posts, \A t \in taps : t.post # p
    PROVE  TapsOn(p) = 0
  <1>1. {t \in taps : t.post = p} = {}
    OBVIOUS
  <1> QED  BY <1>1, FS_EmptySet DEF TapsOn

\* A new tap on a post is one more for that post, and none for the others.
LEMMA OneMoreTap ==
    ASSUME Numbered, NEW p \in Posts, Cardinality(taps) < MaxTaps,
           taps' = taps \cup {[post |-> p, tap |-> Cardinality(taps) + 1]}
    PROVE  /\ Numbered'
           /\ TapsOn(p)' = TapsOn(p) + 1
           /\ \A q \in Posts \ {p} : TapsOn(q)' = TapsOn(q)
  <1> DEFINE new == [post |-> p, tap |-> Cardinality(taps) + 1]
  <1>1. IsFiniteSet(taps) /\ Cardinality(taps) \in Nat
        /\ \A t \in taps : t.tap \in 1 .. Cardinality(taps)
    BY DEF Numbered
  <1>2. new \notin taps /\ new.post = p /\ new.tap = Cardinality(taps) + 1
    BY <1>1
  <1> HIDE DEF new
  <1>3. taps' = taps \cup {new}
    BY DEF new
  <1>4. IsFiniteSet(taps') /\ Cardinality(taps') = Cardinality(taps) + 1
    BY <1>1, <1>2, <1>3, FS_AddElement
  <1>5. Numbered'
    <2> DEFINE k == Cardinality(taps)
    <2>1. k \in Nat /\ k + 1 \in 0 .. MaxTaps
      BY <1>1, LikesAssumption DEF LikesAssumption
    <2>2. \A x \in taps : x.tap \in 1 .. k
      BY <1>1
    <2>3. new.tap = k + 1 /\ Cardinality(taps') = k + 1
      BY <1>2, <1>4
    <2> HIDE DEF k
    <2>4. \A x \in taps' : x.tap \in 1 .. k + 1
      BY <1>3, <2>1, <2>2, <2>3
    <2> QED  BY <1>4, <2>1, <2>3, <2>4 DEF Numbered
  <1>6. TapsOn(p)' = TapsOn(p) + 1
    <2>1. {t \in taps' : t.post = p} = {t \in taps : t.post = p} \cup {new}
      BY <1>2, <1>3
    <2>2. new \notin {t \in taps : t.post = p}
      BY <1>2
    <2>3. IsFiniteSet({t \in taps : t.post = p})
      BY CountType
    <2>4. Cardinality({t \in taps : t.post = p} \cup {new})
             = Cardinality({t \in taps : t.post = p}) + 1
      BY <2>2, <2>3, FS_AddElement
    <2> QED  BY <2>1, <2>4 DEF TapsOn
  <1>7. ASSUME NEW q \in Posts \ {p} PROVE TapsOn(q)' = TapsOn(q)
    <2>1. {t \in taps' : t.post = q} = {t \in taps : t.post = q}
      BY <1>2, <1>3
    <2> QED  BY <2>1 DEF TapsOn
  <1> QED  BY <1>5, <1>6, <1>7

-----------------------------------------------------------------------------
(* The steps                                                                 *)

LEMMA InitIInv == Init => IInv
  <1> SUFFICES ASSUME Init PROVE IInv
    OBVIOUS
  <1>1. MaxTaps \in Nat /\ 0 \in 0 .. MaxTaps
    BY LikesAssumption DEF LikesAssumption
  <1>2. TypeOK
    BY DEF Init, TypeOK
  <1>3. Numbered
    BY <1>1, FS_EmptySet DEF Init, Numbered
  <1>4. \A p \in Posts : TapsOn(p) = 0 /\ p \notin Added
    BY NoTaps DEF Init, Added
  <1>5. Bounded
    BY <1>4 DEF Init, Bounded, LikesNeverExceedTaps, NoPost, Added
  <1>6. InStep
    BY <1>4 DEF Init, InStep, Added
  <1> QED  BY <1>2, <1>3, <1>5, <1>6 DEF IInv

\* Where no tap is made the counts of taps stay.
LEMMA SameTaps ==
    ASSUME UNCHANGED taps
    PROVE  /\ \A p \in Posts : TapsOn(p)' = TapsOn(p)
           /\ Numbered => Numbered'
  BY DEF TapsOn, Numbered

LEMMA AddedSteps == ASSUME IInv, NEW p \in Posts, PostAdded(p) PROVE IInv'
  <1>1. /\ TypeOK /\ p \notin Added /\ likes' = [likes EXCEPT ![p] = 0] /\ due' = Phones
        /\ UNCHANGED <<cells, writes, waves, lookups, registered, taps, pushed, patient, faulty>>
    BY DEF PostAdded, IInv, ways
  <1>2. likes \in [Posts -> {NoPost} \cup 0 .. MaxTaps] /\ MaxTaps \in Nat
    BY <1>1, LikesAssumption DEF TypeOK, LikesAssumption
  <1>3. /\ likes'[p] = 0 /\ \A q \in Posts \ {p} : likes'[q] = likes[q]
        /\ likes' \in [Posts -> {NoPost} \cup 0 .. MaxTaps]
    BY <1>1, <1>2
  <1>4. Added' = Added \cup {p}
    BY <1>2, <1>3 DEF Added, NoPost
  <1>5. \A q \in Posts : TapsOn(q)' = TapsOn(q)
    BY <1>1, SameTaps
  <1>6. TapsOn(p) = 0
    BY <1>1, NoTaps DEF IInv, Bounded
  <1>7. TypeOK'
    BY <1>1, <1>3 DEF TypeOK
  <1>8. Bounded'
    BY <1>1, <1>3, <1>4, <1>5, <1>6 DEF IInv, Bounded, LikesNeverExceedTaps, TypeOK
  <1>9. InStep'
    <2> SUFFICES ASSUME patient, ~faulty
                 PROVE  /\ \A v, w \in writes : v = w
                        /\ \A w \in writes : w.likes = TapsOn(w.post)'
                        /\ \A q \in Added' : (\A w \in writes : w.post # q) => likes'[q] = TapsOn(q)'
                        /\ \A d \in Phones \ due' : cells'[d] = likes'
      BY <1>1 DEF InStep
    <2>1. \A w \in writes : w.post \in Posts
      BY <1>1 DEF TypeOK
    <2>2. \A q \in Added : q \in Posts \ {p}
      BY <1>1 DEF Added
    <2> QED  BY <1>1, <1>3, <1>4, <1>5, <1>6, <2>1, <2>2 DEF IInv, InStep
  <1> QED  BY <1>1, <1>7, <1>8, <1>9, SameTaps DEF IInv

LEMMA SnapshotSteps == ASSUME IInv, NEW d \in Phones, SnapshotArrives(d) PROVE IInv'
  <1>1. /\ TypeOK /\ d \in due /\ due' = due \ {d}
        /\ cells' = IF Added = {} THEN cells ELSE [cells EXCEPT ![d] = likes]
        /\ UNCHANGED <<likes, writes, waves, lookups, registered, taps, pushed, patient, faulty>>
    BY DEF SnapshotArrives, IInv, ways
  <1>2. /\ likes \in [Posts -> {NoPost} \cup 0 .. MaxTaps]
        /\ cells \in [Phones -> [Posts -> {NoPost} \cup 0 .. MaxTaps]]
    BY <1>1 DEF TypeOK
  <1>3. cells'[d] = likes /\ \A e \in Phones \ {d} : cells'[e] = cells[e]
    <2>1. CASE Added = {}
      <3>1. \A p \in Posts : likes[p] = NoPost /\ cells[d][p] = NoPost
        BY <2>1 DEF IInv, Bounded, Added
      <3>2. cells[d] = likes
        BY <1>2, <3>1
      <3> QED  BY <1>1, <2>1, <3>2
    <2>2. CASE Added # {}
      BY <1>1, <1>2, <2>2
    <2> QED  BY <2>1, <2>2
  <1>4. cells' \in [Phones -> [Posts -> {NoPost} \cup 0 .. MaxTaps]]
    BY <1>1, <1>2
  <1>5. Added' = Added /\ \A p \in Posts : TapsOn(p)' = TapsOn(p)
    BY <1>1, SameTaps DEF Added
  <1>6. TypeOK'
    BY <1>1, <1>4 DEF TypeOK
  <1>7. Bounded'
    <2>1. \A w \in writes : w.post \in Posts
      BY <1>1 DEF TypeOK
    <2>2. ASSUME NEW e \in Phones, NEW p \in Posts
          PROVE  cells'[e][p] <= TapsOn(p) /\ (cells'[e][p] # NoPost => p \in Added)
      <3>1. CASE e = d
        BY <1>3, <3>1 DEF IInv, Bounded, LikesNeverExceedTaps, Added
      <3>2. CASE e # d
        BY <1>3, <3>2 DEF IInv, Bounded
      <3> QED  BY <3>1, <3>2
    <2> QED  BY <1>1, <1>5, <2>1, <2>2 DEF IInv, Bounded, LikesNeverExceedTaps
  <1>8. InStep'
    <2>1. \A w \in writes : w.post \in Posts
      BY <1>1 DEF TypeOK
    <2>2. Added \subseteq Posts
      BY DEF Added
    <2> QED  BY <1>1, <1>3, <1>5, <2>1, <2>2 DEF IInv, InStep
  <1> QED  BY <1>1, <1>6, <1>7, <1>8, SameTaps DEF IInv

\* A tap, from a cell that may be stale.
LEMMA TapSteps ==
    ASSUME IInv, NEW d \in Phones, NEW p \in Posts, LikeButtonClicked(d, p)
    PROVE  IInv'
  <1> DEFINE n == Cardinality(taps) + 1
             c == cells[d][p]
             w == [post |-> p, tap |-> n, likes |-> c + 1]
             t == [post |-> p, tap |-> n]
  <1>1. /\ TypeOK /\ Numbered /\ c # NoPost /\ (patient => Quiet) /\ Cardinality(taps) < MaxTaps
        /\ writes' = writes \cup {w} /\ waves' = waves \cup {t} /\ taps' = taps \cup {t}
        /\ UNCHANGED <<likes, cells, due, lookups, registered, pushed, patient, faulty>>
    BY DEF LikeButtonClicked, NewCount, IInv, ways
  <1>2. /\ Numbered' /\ TapsOn(p)' = TapsOn(p) + 1
        /\ \A q \in Posts \ {p} : TapsOn(q)' = TapsOn(q)
    BY <1>1, OneMoreTap
  <1>3. \A q \in Posts : TapsOn(q) \in Nat /\ TapsOn(q) <= Cardinality(taps)
    BY <1>1, CountType
  <1>4. c \in Nat /\ c <= TapsOn(p) /\ p \in Added
    BY <1>1 DEF TypeOK, IInv, Bounded
  <1>5. n \in 1 .. MaxTaps /\ c + 1 \in 1 .. MaxTaps /\ MaxTaps \in Nat
    BY <1>1, <1>3, <1>4, LikesAssumption DEF Numbered, LikesAssumption
  <1>6. TypeOK'
    <2>1. w \in [post : Posts, tap : 1 .. MaxTaps, likes : 1 .. MaxTaps] /\ t \in Tapped
      BY <1>5 DEF Tapped
    <2> HIDE DEF w, t, n, c
    <2> QED  BY <1>1, <2>1 DEF TypeOK
  <1>7. w.post = p /\ w.likes = c + 1 /\ t.post = p
    OBVIOUS
  <1> HIDE DEF n, w, t
  <1>8. Added' = Added
    BY <1>1 DEF Added
  <1>9. \A v \in writes : v.post \in Posts /\ v.likes \in Nat
    BY <1>1 DEF TypeOK
  <1>10. \A q \in Posts : likes[q] \in Int /\ \A e \in Phones : cells[e][q] \in Int
    BY <1>1, LikesAssumption DEF TypeOK, NoPost, LikesAssumption
  <1>11. \A q \in Posts : TapsOn(q) <= TapsOn(q)' /\ TapsOn(q)' \in Nat
    BY <1>2, <1>3
  <1>12. Bounded'
    <2>1. LikesNeverExceedTaps'
      BY <1>1, <1>3, <1>10, <1>11 DEF IInv, Bounded, LikesNeverExceedTaps
    <2>2. \A e \in Phones, q \in Posts : cells'[e][q] <= TapsOn(q)' /\ (cells'[e][q] # NoPost => q \in Added')
      BY <1>1, <1>3, <1>8, <1>10, <1>11 DEF IInv, Bounded
    <2>3. \A v \in writes' : v.likes <= TapsOn(v.post)' /\ v.post \in Added'
      <3>1. ASSUME NEW v, v = w PROVE v.likes <= TapsOn(v.post)' /\ v.post \in Added'
        <4>1. v.post = p /\ v.likes <= TapsOn(p)'
          BY <1>2, <1>3, <1>4, <1>7, <3>1
        <4> QED  BY <1>4, <1>8, <4>1
      <3>2. ASSUME NEW v \in writes PROVE v.likes <= TapsOn(v.post)' /\ v.post \in Added'
        BY <1>3, <1>8, <1>9, <1>11 DEF IInv, Bounded
      <3> QED  BY <1>1, <3>1, <3>2
    <2>4. \A x \in taps' : x.post \in Added'
      BY <1>1, <1>4, <1>7, <1>8 DEF IInv, Bounded
    <2> QED  BY <2>1, <2>2, <2>3, <2>4 DEF Bounded
  <1>13. InStep'
    <2> SUFFICES ASSUME patient, ~faulty
                 PROVE  /\ \A u, v \in writes' : u = v
                        /\ \A v \in writes' : v.likes = TapsOn(v.post)'
                        /\ \A q \in Added' : (\A v \in writes' : v.post # q) => likes'[q] = TapsOn(q)'
                        /\ \A e \in Phones \ due' : cells'[e] = likes'
      BY <1>1 DEF InStep
    <2>1. writes = {} /\ due = {} /\ writes' = {w}
      BY <1>1 DEF Quiet
    <2>2. /\ \A q \in Added : likes[q] = TapsOn(q)
          /\ \A e \in Phones : cells[e] = likes
      BY <2>1 DEF IInv, InStep
    <2>3. c = TapsOn(p)
      BY <1>4, <2>2
    <2>4. Added \subseteq Posts
      BY DEF Added
    <2> QED  BY <1>1, <1>2, <1>3, <1>7, <1>8, <2>1, <2>2, <2>3, <2>4
  <1> QED  BY <1>2, <1>6, <1>12, <1>13 DEF IInv

LEMMA LikeSteps == ASSUME IInv, NEW w \in writes, LikeApplied(w) PROVE IInv'
  <1>1. /\ TypeOK /\ writes' = writes \ {w} /\ likes' = [likes EXCEPT ![w.post] = w.likes]
        /\ due' = Phones
        /\ UNCHANGED <<cells, waves, lookups, registered, taps, pushed, patient, faulty>>
    BY DEF LikeApplied, IInv, ways
  <1>2. w.post \in Posts /\ w.likes \in 1 .. MaxTaps /\ w.post \in Added /\ MaxTaps \in Nat
    BY <1>1, LikesAssumption DEF TypeOK, IInv, Bounded, LikesAssumption
  <1>3. /\ likes'[w.post] = w.likes /\ \A q \in Posts \ {w.post} : likes'[q] = likes[q]
        /\ likes' \in [Posts -> {NoPost} \cup 0 .. MaxTaps]
    BY <1>1, <1>2 DEF TypeOK
  <1>4. Added' = Added
    BY <1>2, <1>3 DEF Added, NoPost
  <1>5. \A q \in Posts : TapsOn(q)' = TapsOn(q)
    BY <1>1, SameTaps
  <1>6. TypeOK'
    BY <1>1, <1>3 DEF TypeOK
  <1>7. \A v \in writes : v.post \in Posts
    BY <1>1 DEF TypeOK
  <1>8. Bounded'
    BY <1>1, <1>2, <1>3, <1>4, <1>5, <1>7 DEF IInv, Bounded, LikesNeverExceedTaps
  <1>9. InStep'
    <2> SUFFICES ASSUME patient, ~faulty
                 PROVE  /\ \A u, v \in writes' : u = v
                        /\ \A v \in writes' : v.likes = TapsOn(v.post)'
                        /\ \A q \in Added' : (\A v \in writes' : v.post # q) => likes'[q] = TapsOn(q)'
                        /\ \A e \in Phones \ due' : cells'[e] = likes'
      BY <1>1 DEF InStep
    <2>1. writes = {w} /\ writes' = {} /\ w.likes = TapsOn(w.post)
      BY <1>1 DEF IInv, InStep
    <2>2. \A q \in Added \ {w.post} : likes[q] = TapsOn(q)
      BY <2>1 DEF IInv, InStep
    <2>3. Added \subseteq Posts
      BY DEF Added
    <2> QED  BY <1>1, <1>2, <1>3, <1>4, <1>5, <2>1, <2>2, <2>3
  <1> QED  BY <1>1, <1>6, <1>8, <1>9, SameTaps DEF IInv

\* The requests of a notification, and those that fail where any may.
LEMMA OtherSteps ==
    ASSUME IInv, TypeOK', writes' \subseteq writes, writes' = writes \/ faulty,
           UNCHANGED <<likes, cells, due, taps, patient, faulty>>
    PROVE  IInv'
  <1>1. Added' = Added /\ \A q \in Posts : TapsOn(q)' = TapsOn(q)
    BY SameTaps DEF Added
  <1>2. \A v \in writes : v.post \in Posts
    BY DEF IInv, TypeOK
  <1>3. Bounded'
    BY <1>1, <1>2 DEF IInv, Bounded, LikesNeverExceedTaps
  <1>4. InStep'
    <2>1. Added \subseteq Posts
      BY DEF Added
    <2>2. CASE faulty
      BY <2>2 DEF InStep
    <2>3. CASE writes' = writes
      BY <1>1, <1>2, <2>1, <2>3 DEF IInv, InStep
    <2> QED  BY <2>2, <2>3
  <1> QED  BY <1>3, <1>4, SameTaps DEF IInv

LEMMA NextIInv == IInv /\ [Next]_vars => IInv'
  <1> SUFFICES ASSUME IInv, [Next]_vars PROVE IInv'
    OBVIOUS
  <1>1. ASSUME NEW q \in waves, PostsAnswered(q) PROVE IInv'
    <2>1. Documents(q) \subseteq Posts
      BY DEF Documents, Added
    <2>2. q.post \in Posts /\ q.tap \in 1 .. MaxTaps
      BY DEF IInv, TypeOK, Tapped
    <2>3. {[post |-> q.post, tap |-> q.tap, from |-> p] : p \in Documents(q)} \subseteq Notice
      BY <2>1, <2>2 DEF Notice
    <2>4. TypeOK'
      BY <1>1, <2>3 DEF PostsAnswered, IInv, TypeOK, ways
    <2> QED  BY <1>1, <2>4, OtherSteps DEF PostsAnswered, ways
  <1>2. ASSUME NEW l \in lookups, PlayersAnswered(l) PROVE IInv'
    <2>1. TypeOK'
      BY <1>2 DEF PlayersAnswered, IInv, TypeOK, ways
    <2> QED  BY <1>2, <2>1, OtherSteps DEF PlayersAnswered, ways
  <1>3. CASE RequestFails
    <2>1. TypeOK'
      BY <1>3 DEF RequestFails, IInv, TypeOK, ways
    <2> QED  BY <1>3, <2>1, OtherSteps DEF RequestFails, ways
  <1>4. CASE UNCHANGED vars
    <2>1. TypeOK'
      BY <1>4 DEF IInv, TypeOK, vars, ways
    <2> QED  BY <1>4, <2>1, OtherSteps DEF vars, ways
  <1>5. ASSUME NEW u \in Users, PlayersChange(u) PROVE IInv'
    <2>1. TypeOK'
      BY <1>5 DEF PlayersChange, IInv, TypeOK, ways
    <2> QED  BY <1>5, <2>1, OtherSteps DEF PlayersChange, ways
  <1> QED  BY <1>1, <1>2, <1>3, <1>4, <1>5, AddedSteps, SnapshotSteps, TapSteps, LikeSteps DEF Next

LEMMA Invariance == Spec => []IInv
  BY InitIInv, NextIInv, PTL DEF Spec

-----------------------------------------------------------------------------
\* Every variable keeps its type; no count passes the number of taps.
THEOREM TypeCorrect == Spec => []TypeOK
  BY Invariance, PTL DEF IInv

\* However many phones overwrite one another's counts with stale ones, a post
\* has no more likes than taps (FeedCell.swift 35-37).
THEOREM NeverTooMany == Spec => []LikesNeverExceedTaps
  <1>1. IInv => LikesNeverExceedTaps  BY DEF IInv, Bounded
  <1> QED  BY <1>1, Invariance, PTL

\* Where every tap waits until the last one is on every feed, and no request
\* fails, the likes are the taps, for any number of phones, posts and taps.
THEOREM NoneLost == Spec => []NoLikeLost
  <1>1. IInv => NoLikeLost  BY DEF IInv, InStep, NoLikeLost, Quiet
  <1> QED  BY <1>1, Invariance, PTL

-----------------------------------------------------------------------------
(* The notifications: what of AuthorIsTold is safety.                        *)

NoticeOf(q) == [post |-> q.post, tap |-> q.tap, from |-> q.post]

\* Where no request fails, the notice to the author of a post that was tapped is
\* on its way until it is sent: a step that answers the query of the posts starts
\* the look-up of his player ids, and one that takes the look-up away sends the
\* notice, unless at that moment none of his phones is registered.
GoesOn == ~faulty =>
    /\ \A q \in waves : q \in waves' \/ NoticeOf(q) \in lookups'
    /\ \A l \in lookups : l \in lookups' \/ l \in pushed' \/ AuthorOf[l.from] \notin registered
    /\ pushed \subseteq pushed'

NoticeGoesOn == [][GoesOn]_vars

\* A tap is asked about only once it was made.
Asked == waves \subseteq taps

\* The query of a tap's posts finds the post that was tapped among them.
LEMMA LikedIsThere == IInv /\ Asked => \A q \in waves : q.post \in Documents(q)
  BY DEF IInv, Bounded, Documents, Asked

LEMMA AskedStep == Asked /\ [Next]_vars => Asked'
  BY DEF Asked, Next, vars, ways, PostAdded, SnapshotArrives, LikeButtonClicked, LikeApplied, PostsAnswered,
     PlayersAnswered, PlayersChange, RequestFails

\* For any number of phones, posts, authors and taps, the notice of a like goes on
\* until it is sent or finds no phone of the author registered, whatever posts are
\* added and whoever registers or logs out meanwhile (FeedCell.swift 39-68).
THEOREM NoticesAreNotLost == Spec => NoticeGoesOn
  <1>1. Init => Asked
    BY DEF Init, Asked
  <1>2. IInv /\ Asked /\ [Next]_vars => [GoesOn]_vars
    <2> SUFFICES ASSUME IInv, Asked, [Next]_vars, ~faulty
                 PROVE  /\ \A q \in waves : q \in waves' \/ NoticeOf(q) \in lookups'
                        /\ \A l \in lookups : \/ l \in lookups' \/ l \in pushed'
                                              \/ AuthorOf[l.from] \notin registered
                        /\ pushed \subseteq pushed'
      BY DEF GoesOn
    <2>1. ASSUME NEW q \in waves, PostsAnswered(q) PROVE NoticeOf(q) \in lookups'
      BY <2>1, LikedIsThere DEF PostsAnswered, NoticeOf
    <2>2. ASSUME NEW q \in waves, PostsAnswered(q)
          PROVE  waves' = waves \ {q} /\ lookups \subseteq lookups' /\ pushed' = pushed
      BY <2>2 DEF PostsAnswered
    <2>3. ASSUME NEW l \in lookups, PlayersAnswered(l)
          PROVE  /\ lookups' = lookups \ {l} /\ waves' = waves /\ pushed \subseteq pushed'
                 /\ l \in pushed' \/ AuthorOf[l.from] \notin registered
      BY <2>3 DEF PlayersAnswered
    <2>4. CASE ~\E q \in waves : PostsAnswered(q)
      <3>1. CASE ~\E l \in lookups : PlayersAnswered(l)
        <4>1. waves \subseteq waves' /\ lookups \subseteq lookups' /\ pushed' = pushed
          BY <2>4, <3>1 DEF Next, vars, PostAdded, SnapshotArrives, LikeButtonClicked, LikeApplied,
             PlayersChange, RequestFails
        <4> QED  BY <4>1
      <3>2. CASE \E l \in lookups : PlayersAnswered(l)
        <4>1. PICK l \in lookups : PlayersAnswered(l)
          BY <3>2
        <4>2. /\ lookups' = lookups \ {l} /\ waves' = waves /\ pushed \subseteq pushed'
              /\ l \in pushed' \/ AuthorOf[l.from] \notin registered
          BY <2>3, <4>1
        <4> QED  BY <4>2
      <3> QED  BY <3>1, <3>2
    <2>5. CASE \E q \in waves : PostsAnswered(q)
      <3>1. PICK q \in waves : PostsAnswered(q)
        BY <2>5
      <3> QED  BY <2>1, <2>2, <3>1
    <2> QED  BY <2>4, <2>5
  <1> QED  BY <1>1, <1>2, AskedStep, Invariance, PTL DEF Spec, NoticeGoesOn
=============================================================================
