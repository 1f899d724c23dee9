------------------------ MODULE FoursquarePlacesProofs ------------------------
(* FoursquarePlaces for any users, places and number of taps: its types, the   *)
(* pages that open, the lists that have the new place, and the sign-in behind  *)
(* the lists.  Most of it is about the requests under way, which every new     *)
(* screen leaves behind: none of them acts on a screen that did not ask, and    *)
(* no save is lost.                                                            *)
EXTENDS FoursquarePlaces, TLAPS

\* Requests R while the collection is P: no two of a tap or for one new place,
\* a session for a user, and a place still to be saved with its location.
Sound(R, P) ==
    /\ R \subseteq Session \cup Saving
    /\ \A r, s \in R : r.tag = s.tag => r = s
    /\ \A r, s \in R \cap Saving : r.id = s.id => r = s
    /\ \A r \in R : r.kind \in {"login", "signup"} => r.user \in Users
    /\ \A r \in R \cap Saving : P[r.id] = None /\ (careful => r.spot # Empty)

Located == careful =>
    /\ chosen => placeModel # Empty
    /\ \A i \in Ids : places[i] # Empty

Listed ==
    /\ mine # None => places[mine] # None
    /\ NewPlaceIsListed

\* A user who waits has one request at most, and stays where it was sent.
Patience == patient =>
    /\ \A r, s \in requests : r = s
    /\ \A r \in requests : r.kind = "logout" => r.here /\ screen = "places"
    /\ \A r \in requests : r.kind = "save" /\ r.here => screen = "map"
    /\ SignedInBehindTheList

\* The types of all other variables.
Typed ==
    /\ patient \in BOOLEAN /\ careful \in BOOLEAN /\ faulty \in BOOLEAN
    /\ current \in Users \cup {None}
    /\ screen \in {"off", "sign", "places", "add", "map", "detail"}
    /\ placeModel \in Location /\ chosen \in BOOLEAN
    /\ places \in [Ids -> Location \cup {None}]
    /\ listing \in {"none", "asked", "answered", "failed"}
    /\ rows \subseteq Saved
    /\ mine \in Ids \cup {None} /\ detail \in Ids \cup {None}
    /\ reads \subseteq [id : Ids, here : BOOLEAN]

Core == Typed /\ Sound(requests, places) /\ Located /\ Listed

-----------------------------------------------------------------------------
(* Requests that go away, are fewer, or are answered                         *)

LEMMA Kinds ==
    ASSUME NEW r \in Session \cup Saving
    PROVE  /\ r \in Saving <=> r.kind = "save"
           /\ r \in Session <=> r.kind # "save"
           /\ r \in Saving => r.id \in Ids /\ r.spot \in Location
  BY DEF Session, Saving

Gone(r) == [r EXCEPT !.here = FALSE]

LEMMA OneAway ==
    ASSUME NEW r \in Session \cup Saving
    PROVE  LET q == Gone(r)
           IN  /\ q \in Session \cup Saving /\ q.tag = r.tag /\ q.kind = r.kind /\ q.here = FALSE
               /\ q \in Saving <=> r \in Saving
               /\ r \in Saving => q.id = r.id /\ q.spot = r.spot
               /\ r \in Session => q.user = r.user
  <1> DEFINE q == Gone(r)
  <1>1. CASE r \in Session
    <2>1. q \in Session /\ q.tag = r.tag /\ q.kind = r.kind /\ q.user = r.user /\ q.here = FALSE
      BY <1>1 DEF Session, Gone
    <2>2. r \notin Saving /\ q \notin Saving
      BY <1>1, <2>1, Kinds
    <2> QED  BY <1>1, <2>1, <2>2
  <1>2. CASE r \in Saving
    <2>1. /\ q \in Saving /\ q.tag = r.tag /\ q.kind = r.kind /\ q.id = r.id /\ q.spot = r.spot
          /\ q.here = FALSE
      BY <1>2 DEF Saving, Gone
    <2>2. r \notin Session
      BY <1>2, Kinds
    <2> QED  BY <1>2, <2>1, <2>2
  <1> QED  BY <1>1, <1>2

\* Of R, those of A go away.
LEMMA SomeAway ==
    ASSUME NEW R, NEW P, NEW A \in SUBSET R, Sound(R, P)
    PROVE  Sound(Away(A) \cup (R \ A), P)
  <1> DEFINE B == Away(A) \cup (R \ A)
  <1>1. \A q \in B : \E r \in R : (r \in A /\ q = Gone(r)) \/ (r \notin A /\ q = r)
    BY DEF Away, Gone
  <1> HIDE DEF B
  <1>2. ASSUME NEW q \in B, NEW r \in R,
               (r \in A /\ q = Gone(r)) \/ (r \notin A /\ q = r)
        PROVE  /\ q \in Session \cup Saving /\ q.tag = r.tag /\ q.kind = r.kind
               /\ q \in Saving <=> r \in Saving
               /\ r \in Saving => q.id = r.id /\ q.spot = r.spot
               /\ r \in Session => q.user = r.user
    <2>1. r \in Session \cup Saving
      BY DEF Sound
    <2>2. CASE q = r
      BY <2>1, <2>2
    <2>3. CASE q = Gone(r)
      BY <2>1, <2>3, OneAway
    <2> QED  BY <1>2, <2>2, <2>3
  <1>3. B \subseteq Session \cup Saving
    BY <1>1, <1>2
  <1>4. ASSUME NEW p \in B, NEW q \in B, p.tag = q.tag \/ (p \in Saving /\ q \in Saving /\ p.id = q.id)
        PROVE  p = q
    <2>1. PICK r \in R : (r \in A /\ p = Gone(r)) \/ (r \notin A /\ p = r)
      BY <1>1
    <2>2. PICK s \in R : (s \in A /\ q = Gone(s)) \/ (s \notin A /\ q = s)
      BY <1>1
    <2>3. r.tag = s.tag \/ (r \in Saving /\ s \in Saving /\ r.id = s.id)
      BY <1>2, <1>4, <2>1, <2>2
    <2>4. r = s
      BY <2>3 DEF Sound
    <2> QED  BY <2>1, <2>2, <2>4
  <1>5. \A q \in B : q.kind \in {"login", "signup"} => q.user \in Users
    <2> SUFFICES ASSUME NEW q \in B, q.kind \in {"login", "signup"} PROVE q.user \in Users
      OBVIOUS
    <2>1. PICK r \in R : (r \in A /\ q = Gone(r)) \/ (r \notin A /\ q = r)
      BY <1>1
    <2>2. r.kind = q.kind /\ (r \in Session => q.user = r.user)
      BY <1>2, <2>1
    <2>3. r \in Session
      BY <2>2, Kinds DEF Sound
    <2> QED  BY <2>2, <2>3 DEF Sound
  <1>6. \A q \in B \cap Saving : P[q.id] = None /\ (careful => q.spot # Empty)
    <2> SUFFICES ASSUME NEW q \in B \cap Saving PROVE P[q.id] = None /\ (careful => q.spot # Empty)
      OBVIOUS
    <2>1. PICK r \in R : (r \in A /\ q = Gone(r)) \/ (r \notin A /\ q = r)
      BY <1>1
    <2>2. r \in Saving /\ q.id = r.id /\ q.spot = r.spot
      BY <1>2, <2>1
    <2> QED  BY <2>2 DEF Sound
  <1>7. Sound(B, P)
    BY <1>3, <1>4, <1>5, <1>6 DEF Sound
  <1> QED  BY <1>7 DEF B

LEMMA AllAway == ASSUME NEW R, NEW P, Sound(R, P) PROVE Sound(Away(R), P)
  <1>1. Sound(Away(R) \cup (R \ R), P)
    BY SomeAway
  <1>2. Away(R) \cup (R \ R) = Away(R)
    OBVIOUS
  <1> QED  BY <1>1, <1>2

LEMMA Fewer == ASSUME NEW R, NEW P, NEW S \in SUBSET R, Sound(R, P) PROVE Sound(S, P)
  BY DEF Sound

\* A place is stored: those still to be saved are other places.
LEMMA OneStored ==
    ASSUME NEW R, NEW r \in R, r \in Saving, Sound(R, places), Typed, Located
    PROVE  LET P == [places EXCEPT ![r.id] = r.spot]
           IN  /\ Sound(R \ {r}, P) /\ P \in [Ids -> Location \cup {None}]
               /\ P[r.id] # None /\ r.id \in Ids
               /\ \A i \in Ids : places[i] # None => P[i] # None
               /\ careful => \A i \in Ids : P[i] # Empty
  <1> DEFINE P == [places EXCEPT ![r.id] = r.spot]
  <1>1. r.id \in Ids /\ r.spot \in Location /\ None \notin Location
    BY PlacesAssumption DEF Saving, Location, PlacesAssumption
  <1>2. P \in [Ids -> Location \cup {None}] /\ P[r.id] = r.spot
        /\ \A i \in Ids : i # r.id => P[i] = places[i]
    BY <1>1 DEF Typed
  <1> HIDE DEF P
  <1>3. \A s \in (R \ {r}) \cap Saving : s.id \in Ids /\ s.id # r.id
    BY Kinds DEF Sound
  <1>4. Sound(R \ {r}, P)
    BY <1>2, <1>3 DEF Sound
  <1>5. careful => \A i \in Ids : P[i] # Empty
    BY <1>2 DEF Sound, Located
  <1>6. P[r.id] # None /\ \A i \in Ids : places[i] # None => P[i] # None
    BY <1>1, <1>2
  <1> QED  BY <1>1, <1>2, <1>4, <1>5, <1>6 DEF P

\* A session is asked for.
LEMMA AsksSession ==
    ASSUME Sound(requests, places), NEW r \in Session, Send(r),
           r.kind \in {"login", "signup"} => r.user \in Users
    PROVE  Sound(requests', places)
  <1>1. r \notin Saving
    BY Kinds
  <1> QED  BY <1>1 DEF Sound, Send

\* The queries of pages that are left.
LEMMA ReadsAway == ASSUME Typed PROVE Away(reads) \subseteq [id : Ids, here : BOOLEAN]
  BY DEF Typed, Away

-----------------------------------------------------------------------------
(* Types, requests, locations and lists, through every action                *)

LEMMA InitCore == Init => Core
  <1> SUFFICES ASSUME Init PROVE Core
    OBVIOUS
  <1>1. Typed
    BY DEF Init, Typed, Saved, Location
  <1>2. Sound(requests, places)
    BY DEF Init, Sound
  <1>3. Located
    BY PlacesAssumption DEF Init, Located, PlacesAssumption
  <1>4. Listed
    BY DEF Init, Listed, NewPlaceIsListed
  <1> QED  BY <1>1, <1>2, <1>3, <1>4 DEF Core

\* A new list, or the first screen, when the collection is P from now on.
LEMMA Arrives ==
    ASSUME Core, NEW left, Sound(left, places'), NEW saved \in Ids \cup {None},
           saved # None => places'[saved] # None,
           \/ ShowPlaces(left, saved) /\ UNCHANGED looking
           \/ ShowSignIn(left),
           current' \in Users \cup {None}, places' \in [Ids -> Location \cup {None}],
           careful => \A i \in Ids : places'[i] # Empty,
           UNCHANGED <<ways, adding>>
    PROVE  Core'
  <1>1. Sound(Away(left), places') /\ requests' = Away(left)
    BY AllAway DEF ShowPlaces, ShowSignIn
  <1>2. Sound(requests, places)'
    BY <1>1 DEF Sound, ways
  <1>3. Typed'
    BY ReadsAway DEF Core, Typed, Saved, ShowPlaces, ShowSignIn, ways, adding, looking
  <1>4. Located'
    BY DEF Core, Located, ways, adding
  <1>5. Listed'
    BY DEF Listed, NewPlaceIsListed, ShowPlaces, ShowSignIn
  <1> QED  BY <1>2, <1>3, <1>4, <1>5 DEF Core

LEMMA DieCore == ASSUME Core, Die PROVE Core'
  <1>1. Sound(Away(requests \cap Saving), places)
    BY AllAway, Fewer DEF Core
  <1>2. Sound(requests', places)
    BY <1>1, Fewer DEF Die
  <1>3. Sound(requests, places)'
    BY <1>2 DEF Sound, Die, ways
  <1>4. Typed'
    BY DEF Core, Typed, Saved, Die, ways, Location
  <1>5. Located' /\ Listed'
    BY DEF Core, Located, Listed, NewPlaceIsListed, Die, ways
  <1> QED  BY <1>3, <1>4, <1>5 DEF Core

\* Steps that leave the collection and the lists alone.
LEMMA Elsewhere ==
    ASSUME Core, Typed', UNCHANGED <<careful, places, mine, rows, listing>>,
           Sound(requests', places), chosen' => (chosen /\ placeModel' = placeModel) \/ placeModel' # Empty
    PROVE  Core'
  <1>1. Sound(requests, places)'
    BY DEF Sound
  <1>2. Located' /\ Listed'
    BY DEF Core, Located, Listed, NewPlaceIsListed
  <1> QED  BY <1>1, <1>2 DEF Core

LEMMA LaunchCore == ASSUME Core, Launch PROVE Core'
  <1>1. /\ UNCHANGED <<ways, current, adding, places>>
        /\ (ShowPlaces(requests, None) /\ UNCHANGED looking) \/ ShowSignIn(requests)
    BY DEF Launch
  <1> QED  BY <1>1, Arrives DEF Core, Typed, Saved, Located

LEMMA SessionClickedCore ==
    ASSUME Core,
           \/ \E t \in Tags, u \in Users : SignInClicked(t, u) \/ SignUpClicked(t, u)
           \/ \E t \in Tags : LogoutClicked(t)
    PROVE  Core'
  <1>1. UNCHANGED <<ways, current, screen, adding, places, table, looking>>
    BY DEF SignInClicked, SignUpClicked, LogoutClicked
  <1>2. \E r \in Session : Send(r) /\ (r.kind \in {"login", "signup"} => r.user \in Users)
    <2> DEFINE S(k, t, u) == [kind |-> k, tag |-> t, user |-> u, here |-> TRUE]
    <2>1. \A k \in {"login", "signup"}, t \in Tags, u \in Users :
             S(k, t, u) \in Session /\ S(k, t, u).user \in Users
      BY DEF Session
    <2>2. \A t \in Tags : S("logout", t, None) \in Session /\ S("logout", t, None).kind = "logout"
      BY DEF Session
    <2>3. \/ \E k \in {"login", "signup"}, t \in Tags, u \in Users : Send(S(k, t, u))
          \/ \E t \in Tags : Send(S("logout", t, None))
      BY DEF SignInClicked, SignUpClicked, LogoutClicked
    <2> HIDE DEF S
    <2> QED  BY <2>1, <2>2, <2>3
  <1>3. Sound(requests', places)
    BY <1>2, AsksSession DEF Core
  <1>4. Typed'
    BY <1>1 DEF Core, Typed, Saved, ways, adding, table, looking
  <1> QED  BY <1>1, <1>3, <1>4, Elsewhere DEF ways, adding, table

LEMMA SessionAnsweredCore ==
    ASSUME Core, NEW r \in requests, UserAnswered(r) \/ LogoutAnswered(r) \/ SessionFails(r)
    PROVE  Core'
  <1>1. Sound(requests \ {r}, places)
    BY Fewer DEF Core
  <1>2. UNCHANGED <<ways, adding, places>>
    BY DEF UserAnswered, LogoutAnswered, SessionFails
  <1>3. current' \in Users \cup {None}
    BY DEF UserAnswered, LogoutAnswered, SessionFails, Core, Sound, Typed
  <1>4. CASE (ShowPlaces(requests \ {r}, None) /\ UNCHANGED looking) \/ ShowSignIn(requests \ {r})
    BY <1>1, <1>2, <1>3, <1>4, Arrives DEF Core, Typed, Saved, Located
  <1>5. CASE requests' = requests \ {r} /\ UNCHANGED <<screen, table, looking>>
    <2>1. Typed'
      BY <1>2, <1>3, <1>5 DEF Core, Typed, Saved, ways, adding, table, looking
    <2> QED  BY <1>1, <1>2, <1>5, <2>1, Elsewhere DEF ways, adding, table
  <1> QED  BY <1>4, <1>5 DEF UserAnswered, LogoutAnswered, SessionFails

LEMMA ScreensCore ==
    ASSUME Core, \/ AddButtonClicked \/ EntrySaved \/ BackToList
                 \/ \E s \in Spots : ChooseLocation(s)
                 \/ \E i \in rows : DidSelectRow(i)
    PROVE  Core'
  <1>1. UNCHANGED <<ways, current, requests, places, table>>
    BY DEF AddButtonClicked, EntrySaved, ChooseLocation, DidSelectRow, BackToList
  <1>2. screen' \in {"places", "add", "map", "detail"}
    BY DEF AddButtonClicked, EntrySaved, ChooseLocation, DidSelectRow, BackToList, On
  <1>3. placeModel' \in Location /\ chosen' \in BOOLEAN
        /\ (chosen' => (chosen /\ placeModel' = placeModel) \/ placeModel' # Empty)
    <2>1. CASE UNCHANGED adding
      BY <2>1 DEF adding, Core, Typed
    <2>2. CASE EntrySaved
      <3>1. chosen' = FALSE /\ placeModel' = placeModel
        BY <2>2 DEF EntrySaved
      <3> QED  BY <3>1 DEF Core, Typed
    <2>3. ASSUME NEW s \in Spots, ChooseLocation(s)
          PROVE  placeModel' \in Location /\ chosen' \in BOOLEAN /\ placeModel' # Empty
      <3>1. chosen' = TRUE /\ placeModel' = s
        BY <2>3 DEF ChooseLocation, WithSpot
      <3> QED  BY <3>1, PlacesAssumption DEF Location, PlacesAssumption
    <2> QED  BY <2>1, <2>2, <2>3 DEF AddButtonClicked, DidSelectRow, BackToList
  <1>4. detail' \in Ids \cup {None} /\ reads' \subseteq [id : Ids, here : BOOLEAN]
    <2>1. CASE BackToList
      BY <2>1, ReadsAway DEF BackToList, Core
    <2>2. ASSUME NEW i \in rows, DidSelectRow(i)
          PROVE  detail' \in Ids \cup {None} /\ reads' \subseteq [id : Ids, here : BOOLEAN]
      <3>1. i \in Ids /\ TRUE \in BOOLEAN
        BY DEF Core, Typed, Saved
      <3>2. [id |-> i, here |-> TRUE] \in [id : Ids, here : BOOLEAN]
        BY <3>1
      <3> QED  BY <2>2, <3>1, <3>2 DEF DidSelectRow, Core, Typed
    <2>3. CASE UNCHANGED looking
      BY <2>3 DEF looking, Core, Typed
    <2> QED  BY <2>1, <2>2, <2>3 DEF AddButtonClicked, EntrySaved, ChooseLocation
  <1>5. Typed'
    BY <1>1, <1>2, <1>3, <1>4 DEF Core, Typed, Saved, ways, table
  <1> QED  BY <1>1, <1>3, <1>5, Elsewhere DEF Core, ways, table

LEMMA SaveClickedCore ==
    ASSUME Core, NEW t \in Tags, NEW i \in Ids, SaveClicked(t, i) PROVE Core'
  <1> DEFINE r == [kind |-> "save", tag |-> t, id |-> i, spot |-> placeModel, here |-> TRUE]
  <1>1. r \in Saving /\ r.tag = t /\ r.id = i /\ r.spot = placeModel /\ r.kind = "save"
    BY DEF Core, Typed, Saved, Saving
  <1>2. /\ requests' = requests \cup {r} /\ \A s \in requests : s.tag # r.tag
        /\ places[i] = None /\ \A s \in requests \cap Saving : s.id # i
        /\ careful => chosen
        /\ UNCHANGED <<ways, current, screen, adding, places, table, looking>>
    BY DEF SaveClicked, Send
  <1> HIDE DEF r
  <1>3. careful => r.spot # Empty
    BY <1>1, <1>2 DEF Core, Located
  <1>4. Sound(requests', places)
    BY <1>1, <1>2, <1>3 DEF Core, Sound
  <1>5. Typed'
    BY <1>2 DEF Core, Typed, Saved, ways, adding, table, looking
  <1> QED  BY <1>2, <1>4, <1>5, Elsewhere DEF ways, adding, table

LEMMA SaveAnsweredCore ==
    ASSUME Core, NEW r \in requests, SaveAnswered(r) \/ SaveFails(r) PROVE Core'
  <1>1. r \in Saving
    BY Kinds DEF SaveAnswered, SaveFails, Core, Sound
  <1>2. CASE Stored(r)
    <2>1. /\ Sound(requests \ {r}, places') /\ places' \in [Ids -> Location \cup {None}]
          /\ places'[r.id] # None /\ r.id \in Ids
          /\ \A i \in Ids : places[i] # None => places'[i] # None
          /\ careful => \A i \in Ids : places'[i] # Empty
      BY <1>1, <1>2, OneStored DEF Core, Stored
    <2>2. UNCHANGED <<ways, current, adding, looking>>
      BY DEF SaveAnswered, SaveFails
    <2>3. CASE ShowPlaces(requests \ {r}, r.id)
      BY <2>1, <2>2, <2>3, Arrives DEF Core, Typed
    <2>4. CASE requests' = requests \ {r} /\ UNCHANGED <<screen, table>>
      <3>1. Sound(requests, places)'
        BY <2>1, <2>2, <2>4 DEF Sound, ways
      <3>2. Typed'
        BY <2>1, <2>2, <2>4 DEF Core, Typed, Saved, ways, adding, table, looking
      <3>3. Located' /\ Listed'
        BY <2>1, <2>2, <2>4
           DEF Core, Typed, Saved, Located, Listed, NewPlaceIsListed, ways, adding, table
      <3> QED  BY <3>1, <3>2, <3>3 DEF Core
    <2> QED  BY <2>3, <2>4 DEF SaveAnswered, SaveFails
  <1>3. CASE ~Stored(r)
    <2>1. requests' = requests \ {r} /\ UNCHANGED <<ways, current, screen, adding, table, looking, places>>
      BY <1>3 DEF SaveAnswered, SaveFails
    <2>2. Sound(requests', places)
      BY <2>1, Fewer DEF Core
    <2>3. Typed'
      BY <2>1 DEF Core, Typed, Saved, ways, adding, table, looking
    <2> QED  BY <2>1, <2>2, <2>3, Elsewhere DEF ways, adding, table
  <1> QED  BY <1>2, <1>3

LEMMA BackFromMapCore == ASSUME Core, BackFromMap PROVE Core'
  <1> DEFINE A == requests \cap Saving
  <1>1. requests' = Away(A) \cup (requests \ A)
    BY DEF BackFromMap
  <1>2. Sound(requests', places)
    BY <1>1, SomeAway DEF Core
  <1>3. Typed'
    BY DEF BackFromMap, Core, Typed, Saved, ways, adding, table, looking
  <1> QED  BY <1>2, <1>3, Elsewhere DEF BackFromMap, ways, adding, table

\* What is returned is there, and an object it lacks is lacking from a full list.
LEMMA WhatIsReturned ==
    ASSUME NEW ids, NEW list \in Returned(ids)
    PROVE  list \subseteq ids /\ (list = ids \/ Cardinality(list) = Limit)
  BY DEF Returned

LEMMA AnswersCore == ASSUME Core, ListAnswered \/ \E r \in reads : ReadAnswered(r) PROVE Core'
  <1>1. CASE ListAnswered
    <2>0. \/ rows' = rows /\ listing' = "failed"
          \/ rows' \subseteq Saved /\ (rows' = Saved \/ Cardinality(rows') = Limit)
      BY <1>1, WhatIsReturned DEF ListAnswered
    <2>1. Typed'
      BY <1>1, <2>0 DEF ListAnswered, Core, Typed, Saved, ways, adding, table, looking
    <2>2. Sound(requests, places)'
      BY <1>1 DEF ListAnswered, Core, Sound, ways
    <2>3. Located' /\ Listed'
      BY <1>1, <2>0 DEF ListAnswered, Core, Typed, Saved, Located, Listed, NewPlaceIsListed, ways, adding
    <2> QED  BY <2>1, <2>2, <2>3 DEF Core
  <1>2. ASSUME NEW r \in reads, ReadAnswered(r), ~Die PROVE Core'
    <2>1. Typed'
      BY <1>2 DEF ReadAnswered, Core, Typed, Saved, ways, adding, table
    <2> QED  BY <1>2, <2>1, Elsewhere DEF Core, ReadAnswered, ways, adding, table
  <1> QED  BY <1>1, <1>2, DieCore

LEMMA NextCore == Core /\ [Next]_vars => Core'
  <1> SUFFICES ASSUME Core, [Next]_vars PROVE Core'
    OBVIOUS
  <1>1. CASE UNCHANGED vars
    BY <1>1 DEF Core, Typed, Saved, Sound, Located, Listed, NewPlaceIsListed, vars, ways, adding, table, looking
  <1>2. CASE Next
    BY <1>2, LaunchCore, DieCore, SessionClickedCore, SessionAnsweredCore, ScreensCore,
       SaveClickedCore, SaveAnsweredCore, BackFromMapCore, AnswersCore DEF Next, Kill
  <1> QED  BY <1>1, <1>2

LEMMA CoreAlways == Spec => []Core
  BY InitCore, NextCore, PTL DEF Spec

-----------------------------------------------------------------------------
(* A user who waits                                                          *)

LEMMA AwayOnes ==
    ASSUME NEW R, R \subseteq Session \cup Saving, \A r, s \in R : r = s
    PROVE  /\ \A p, q \in Away(R) : p = q
           /\ \A q \in Away(R) : q.here = FALSE /\ \E r \in R : q.kind = r.kind
  <1>1. \A q \in Away(R) : \E r \in R : q = Gone(r)
    BY DEF Away, Gone
  <1>2. \A p, q \in Away(R) : p = q
    BY <1>1
  <1>3. \A r \in R : Gone(r).here = FALSE /\ Gone(r).kind = r.kind
    BY OneAway
  <1> QED  BY <1>1, <1>2, <1>3

\* Nothing is under way any more, or nothing was, and a user is signed in where
\* one must be.
LEMMA Rest ==
    ASSUME requests' = {},
           patient /\ ~faulty => screen' \in {"off", "sign"} \/ current' # None,
           UNCHANGED ways
    PROVE  Patience'
  BY DEF Patience, SignedInBehindTheList, ways

LEMMA ProcessWaits == ASSUME Core, Patience, patient, Launch \/ Die PROVE Patience'
  <1>1. requests \subseteq Session \cup Saving
    BY DEF Core, Sound
  <1>2. CASE Launch
    <2>1. requests' = Away(requests) /\ screen = "off" /\ UNCHANGED <<ways, current>>
      BY <1>2 DEF Launch, ShowPlaces, ShowSignIn
    <2>2. /\ \A p, q \in requests' : p = q
          /\ \A q \in requests' : q.here = FALSE /\ \E r \in requests : q.kind = r.kind
      BY <1>1, <2>1, AwayOnes DEF Patience
    <2>3. \A r \in requests : r.kind # "logout"
      BY <2>1 DEF Patience
    <2>4. screen' = "sign" \/ current' # None
      BY <1>2 DEF Launch, ShowPlaces, ShowSignIn
    <2> QED  BY <2>1, <2>2, <2>3, <2>4 DEF Patience, SignedInBehindTheList, ways
  <1>3. CASE Die
    <2> DEFINE R == requests \cap Saving
    <2>1. requests' \subseteq Away(R) /\ screen' = "off" /\ UNCHANGED ways
      BY <1>3 DEF Die
    <2>2. R \subseteq Session \cup Saving /\ \A r, s \in R : r = s
      BY DEF Patience
    <2>3. \A r \in R : r.kind = "save"
      BY Kinds
    <2> HIDE DEF R
    <2>4. /\ \A p, q \in requests' : p = q
          /\ \A q \in requests' : q.here = FALSE /\ \E r \in R : q.kind = r.kind
      BY <2>1, <2>2, AwayOnes
    <2> QED  BY <2>1, <2>3, <2>4 DEF Patience, SignedInBehindTheList, ways
  <1> QED  BY <1>2, <1>3

LEMMA ClicksWait ==
    ASSUME Core, Patience, patient,
           \/ \E t \in Tags, u \in Users : SignInClicked(t, u) \/ SignUpClicked(t, u)
           \/ \E t \in Tags : LogoutClicked(t)
           \/ \E t \in Tags, i \in Ids : SaveClicked(t, i)
    PROVE  Patience'
  <1> DEFINE S(k, t, u) == [kind |-> k, tag |-> t, user |-> u, here |-> TRUE]
             V(t, i) == [kind |-> "save", tag |-> t, id |-> i, spot |-> placeModel, here |-> TRUE]
  <1>1. UNCHANGED <<ways, current, screen>> /\ requests = {}
    BY DEF SignInClicked, SignUpClicked, LogoutClicked, SaveClicked, On, Waiting
  <1>2. ASSUME NEW t \in Tags, NEW u \in Users, SignInClicked(t, u) \/ SignUpClicked(t, u)
        PROVE  \E r : requests' = {r} /\ r.kind \in {"login", "signup"}
    <2>1. Send(S("login", t, u)) \/ Send(S("signup", t, u))
      BY <1>2 DEF SignInClicked, SignUpClicked
    <2>2. S("login", t, u).kind = "login" /\ S("signup", t, u).kind = "signup"
      OBVIOUS
    <2> HIDE DEF S
    <2> QED  BY <1>1, <2>1, <2>2 DEF Send
  <1>3. ASSUME NEW t \in Tags, LogoutClicked(t)
        PROVE  \E r : requests' = {r} /\ r.kind = "logout" /\ r.here /\ screen = "places"
    <2>1. Send(S("logout", t, None)) /\ screen = "places"
      BY <1>3 DEF LogoutClicked, On
    <2>2. S("logout", t, None).kind = "logout" /\ S("logout", t, None).here
      OBVIOUS
    <2> HIDE DEF S
    <2> QED  BY <1>1, <2>1, <2>2 DEF Send
  <1>4. ASSUME NEW t \in Tags, NEW i \in Ids, SaveClicked(t, i)
        PROVE  \E r : requests' = {r} /\ r.kind = "save" /\ screen = "map"
    <2>1. Send(V(t, i)) /\ screen = "map"
      BY <1>4 DEF SaveClicked, On
    <2>2. V(t, i).kind = "save"
      OBVIOUS
    <2> HIDE DEF V
    <2> QED  BY <1>1, <2>1, <2>2 DEF Send
  <1>5. \E r : /\ requests' = {r}
               /\ r.kind = "logout" => r.here /\ screen = "places"
               /\ r.kind = "save" => screen = "map"
    BY <1>2, <1>3, <1>4
  <1> QED  BY <1>1, <1>5 DEF Patience, SignedInBehindTheList, ways

LEMMA SessionWaits ==
    ASSUME Core, Patience, patient, NEW r \in requests,
           UserAnswered(r) \/ LogoutAnswered(r) \/ SessionFails(r)
    PROVE  Patience'
  <1>1. requests \ {r} = {} /\ Away({}) = {}
    BY DEF Patience, Away
  <1>2. requests' = {} /\ UNCHANGED ways
    BY <1>1 DEF UserAnswered, LogoutAnswered, SessionFails, ShowPlaces, ShowSignIn
  <1>3. ASSUME ~faulty PROVE screen' \in {"off", "sign"} \/ current' # None
    <2>1. CASE UserAnswered(r)
      <3>1. current' \in Users
        BY <2>1 DEF UserAnswered, Core, Sound
      <3> QED  BY <3>1, PlacesAssumption DEF PlacesAssumption
    <2>2. CASE LogoutAnswered(r)
      BY <2>2 DEF LogoutAnswered, ShowSignIn, Patience
    <2>3. CASE SessionFails(r)
      BY <1>3, <2>3 DEF SessionFails, Patience, SignedInBehindTheList
    <2> QED  BY <2>1, <2>2, <2>3
  <1> QED  BY <1>2, <1>3, Rest

LEMMA SavesWait ==
    ASSUME Core, Patience, patient, NEW r \in requests, SaveAnswered(r) \/ SaveFails(r)
    PROVE  Patience'
  <1>1. requests \ {r} = {} /\ Away({}) = {}
    BY DEF Patience, Away
  <1>2. requests' = {} /\ UNCHANGED <<ways, current>>
    BY <1>1 DEF SaveAnswered, SaveFails, ShowPlaces
  <1>3. r.here => screen = "map"
    BY DEF Patience, SaveAnswered, SaveFails
  <1>4. screen' = screen \/ r.here
    BY DEF SaveAnswered, SaveFails
  <1> QED  BY <1>2, <1>3, <1>4, Rest DEF Patience, SignedInBehindTheList

LEMMA ScreensWait ==
    ASSUME Core, Patience, patient,
           \/ AddButtonClicked \/ EntrySaved \/ BackToList \/ BackFromMap
           \/ \E s \in Spots : ChooseLocation(s)
           \/ \E i \in rows : DidSelectRow(i)
    PROVE  Patience'
  <1>1. requests = {} /\ screen \in {"places", "add", "map", "detail"} /\ UNCHANGED <<ways, current>>
    BY DEF AddButtonClicked, EntrySaved, BackToList, BackFromMap, ChooseLocation, DidSelectRow,
           On, Waiting
  <1>2. Away({} \cap Saving) \cup ({} \ Saving) = {}
    BY DEF Away
  <1>3. requests' = {}
    BY <1>1, <1>2 DEF AddButtonClicked, EntrySaved, BackToList, BackFromMap, ChooseLocation,
                      DidSelectRow
  <1> QED  BY <1>1, <1>3, Rest DEF Patience, SignedInBehindTheList

LEMMA NextPatience == Core /\ Patience /\ [Next]_vars => Patience'
  <1> SUFFICES ASSUME Core, Patience, [Next]_vars PROVE Patience'
    OBVIOUS
  <1>1. patient' = patient
    BY DEF Next, vars, ways, Launch, Kill, Die, SignInClicked, SignUpClicked, LogoutClicked,
           UserAnswered, LogoutAnswered, SessionFails, SaveAnswered, SaveFails, AddButtonClicked,
           EntrySaved, ChooseLocation, SaveClicked, BackFromMap, BackToList, ListAnswered,
           DidSelectRow, ReadAnswered
  <1>2. CASE ~patient
    BY <1>1, <1>2 DEF Patience
  <1>3. CASE patient
    <2>1. CASE UNCHANGED <<ways, current, screen, requests>>
      BY <2>1 DEF Patience, SignedInBehindTheList, ways
    <2>2. CASE Next
      BY <1>3, <2>1, <2>2, ProcessWaits, ClicksWait, SessionWaits, SavesWait, ScreensWait
         DEF Next, Kill, ListAnswered, ReadAnswered
    <2> QED  BY <2>1, <2>2 DEF vars
  <1> QED  BY <1>2, <1>3

LEMMA PatienceAlways == Spec => []Patience
  <1>1. Init => Patience
    BY DEF Init, Patience, SignedInBehindTheList
  <1> QED  BY <1>1, CoreAlways, NextPatience, PTL DEF Spec

-----------------------------------------------------------------------------
\* Every variable keeps its type; taps that are under way are told apart, a new
\* place is saved by one of them, and a list has places of the collection only
\* (PlaceModel.swift 11-22, MapVC.swift 58-77, PlacesVC.swift 20-54).
THEOREM TypeCorrect == Spec => []TypeOK
  <1>1. Core => TypeOK
    BY DEF Core, Typed, Saved, Sound, TypeOK
  <1> QED  BY <1>1, CoreAlways, PTL

\* Whatever the one PlaceModel held before, the pages of users who choose a
\* location can be opened (DetailVC.swift 48, 51).
THEOREM PagesOpen == Spec => []DetailCanOpen
  <1>1. Core => DetailCanOpen
    BY DEF Core, Typed, Saved, Located, DetailCanOpen
  <1> QED  BY <1>1, CoreAlways, PTL

\* The list that follows a save has the place unless it is full, however many users,
\* places and taps there are, and whatever the limit of a query (MapVC.swift 70-75,
\* PlacesVC.swift 30-35).
THEOREM AlwaysListed == Spec => []NewPlaceIsListed
  <1>1. Core => NewPlaceIsListed
    BY DEF Core, Listed
  <1> QED  BY <1>1, CoreAlways, PTL

\* For a user who waits, and requests that succeed, no list is shown without a
\* user (SceneDelegate.swift 16-28, PlacesVC.swift 72-80).
THEOREM NobodyIsBehindTheList == Spec => []SignedInBehindTheList
  <1>1. Patience => SignedInBehindTheList
    BY DEF Patience, SignedInBehindTheList
  <1> QED  BY <1>1, PatienceAlways, PTL

-----------------------------------------------------------------------------
(* Which screen an answer finds, and what becomes of a save: the safety half  *)
(* of SaveLeavesMap.                                                         *)

\* The screens on which a view controller that sent a request can be returned to.
Home(r) ==
    IF r.kind = "save" THEN {"map"}
    ELSE IF r.kind = "logout" THEN {"places", "add", "map", "detail"}
    ELSE {"sign"}

\* An answer that may still act on its view controller finds the screen that
\* asked, and a query of a page finds that very page, however many screens came
\* and went meanwhile (ViewController.swift 23-28, MapVC.swift 70-74,
\* DetailVC.swift 29-32).
AnswersFindTheirScreen ==
    /\ \A r \in requests : r.here => screen \in Home(r)
    /\ \A r \in reads : r.here => screen = "detail" /\ detail = r.id
    /\ screen = "off" => reads = {}

\* Where requests succeed a save is on its way until the place is in the
\* collection, with the location that was sent; answered to its map it leads to
\* the list of that place, and until then the map is only left by the user or
\* for an answer to another request (MapVC.swift 58-76).  Only the end of the
\* process loses saves.
EverySaveArrives == [][
    ~faulty /\ (screen' = "off" => screen = "off") =>
        \A r \in requests \cap Saving :
            \/ places'[r.id] = r.spot /\ (r.here => screen' = "places" /\ mine' = r.id)
            \/ \E s \in requests' \cap Saving :
                  s.id = r.id /\ s.spot = r.spot /\ (s.here = r.here \/ screen' # "map")]_vars

\* A place in the collection is never saved over: it stays as it was sent.
PlacesAreKept == [][\A i \in Ids : places[i] # None => places'[i] = places[i]]_vars

LEMMA NoneHere ==
    ASSUME NEW R, R \subseteq Session \cup Saving
    PROVE  \A q \in Away(R) : q.here = FALSE
  <1>1. \A q \in Away(R) : \E r \in R : q = Gone(r)
    BY DEF Away, Gone
  <1>2. \A r \in R : Gone(r).here = FALSE
    BY OneAway
  <1> QED  BY <1>1, <1>2

LEMMA NoReadHere == ASSUME Typed PROVE \A q \in Away(reads) : q.here = FALSE
  BY DEF Typed, Away

\* Under a new list, or the first screen, nothing asks that can be returned to.
LEMMA NewScreenFinds ==
    ASSUME Core, NEW left \in SUBSET requests,
           \/ ShowSignIn(left)
           \/ \E saved : ShowPlaces(left, saved) /\ UNCHANGED reads /\ \A r \in reads : ~r.here
    PROVE  AnswersFindTheirScreen'
  <1>1. requests' = Away(left) /\ left \subseteq Session \cup Saving
    BY DEF ShowSignIn, ShowPlaces, Core, Sound
  <1>2. \A q \in requests' : q.here = FALSE
    BY <1>1, NoneHere
  <1>3. \A q \in reads' : ~q.here
    BY NoReadHere DEF ShowSignIn, Core
  <1>4. screen' # "off"
    BY DEF ShowSignIn, ShowPlaces
  <1> QED  BY <1>2, <1>3, <1>4 DEF AnswersFindTheirScreen

\* Fewer requests and queries, on the same screen.
LEMMA SameScreenFinds ==
    ASSUME AnswersFindTheirScreen, requests' \subseteq requests, reads' \subseteq reads,
           UNCHANGED <<screen, detail>>
    PROVE  AnswersFindTheirScreen'
  BY DEF AnswersFindTheirScreen, Home

LEMMA DieFinds == ASSUME Core, Die PROVE AnswersFindTheirScreen'
  <1>1. requests \cap Saving \subseteq Session \cup Saving
    OBVIOUS
  <1>2. \A q \in requests' : q.here = FALSE
    BY <1>1, NoneHere DEF Die
  <1> QED  BY <1>2 DEF Die, AnswersFindTheirScreen

\* A tap that sends a request, from its screen.
LEMMA ClickFinds ==
    ASSUME AnswersFindTheirScreen, NEW r, Send(r), screen \in Home(r), UNCHANGED <<screen, detail, reads>>
    PROVE  AnswersFindTheirScreen'
  BY DEF AnswersFindTheirScreen, Send, Home

LEMMA ClicksFind ==
    ASSUME AnswersFindTheirScreen,
           \/ \E t \in Tags, u \in Users : SignInClicked(t, u) \/ SignUpClicked(t, u)
           \/ \E t \in Tags : LogoutClicked(t)
           \/ \E t \in Tags, i \in Ids : SaveClicked(t, i)
    PROVE  AnswersFindTheirScreen'
  <1>1. UNCHANGED <<screen, detail, reads>>
    BY DEF SignInClicked, SignUpClicked, LogoutClicked, SaveClicked, looking
  <1>2. ASSUME NEW t \in Tags, NEW u \in Users, SignInClicked(t, u) \/ SignUpClicked(t, u)
        PROVE  \E r : Send(r) /\ screen \in Home(r)
    <2> DEFINE r(k) == [kind |-> k, tag |-> t, user |-> u, here |-> TRUE]
    <2>1. \A k \in {"login", "signup"} : r(k).kind = k
      OBVIOUS
    <2>2. screen = "sign" /\ \E k \in {"login", "signup"} : Send(r(k))
      BY <1>2 DEF SignInClicked, SignUpClicked, On
    <2> HIDE DEF r
    <2> QED  BY <2>1, <2>2 DEF Home
  <1>3. ASSUME NEW t \in Tags, LogoutClicked(t) PROVE \E r : Send(r) /\ screen \in Home(r)
    <2> DEFINE r == [kind |-> "logout", tag |-> t, user |-> None, here |-> TRUE]
    <2>1. r.kind = "logout" /\ Send(r) /\ screen = "places"
      BY <1>3 DEF LogoutClicked, On
    <2> HIDE DEF r
    <2> QED  BY <2>1 DEF Home
  <1>4. ASSUME NEW t \in Tags, NEW i \in Ids, SaveClicked(t, i) PROVE \E r : Send(r) /\ screen \in Home(r)
    <2> DEFINE r == [kind |-> "save", tag |-> t, id |-> i, spot |-> placeModel, here |-> TRUE]
    <2>1. r.kind = "save" /\ Send(r) /\ screen = "map"
      BY <1>4 DEF SaveClicked, On
    <2> HIDE DEF r
    <2> QED  BY <2>1 DEF Home
  <1> QED  BY <1>1, <1>2, <1>3, <1>4, ClickFinds

\* Screens that open and close.
LEMMA ScreensFind ==
    ASSUME Core, AnswersFindTheirScreen,
           \/ AddButtonClicked \/ EntrySaved \/ BackToList \/ BackFromMap
           \/ \E s \in Spots : ChooseLocation(s)
           \/ \E i \in rows : DidSelectRow(i)
    PROVE  AnswersFindTheirScreen'
  <1>0. requests \subseteq Session \cup Saving /\ screen' # "off"
    BY DEF Core, Sound, AddButtonClicked, EntrySaved, BackToList, BackFromMap, ChooseLocation,
           DidSelectRow, On
  <1>1. CASE AddButtonClicked \/ EntrySaved
    <2>1. /\ screen \in {"places", "add"} /\ screen' \in {"add", "map"}
          /\ UNCHANGED <<requests, reads>>
      BY <1>1 DEF AddButtonClicked, EntrySaved, On, looking
    <2> QED  BY <2>1 DEF AnswersFindTheirScreen, Home
  <1>2. CASE BackToList
    <2>1. /\ screen \in {"add", "detail"} /\ screen' = "places"
          /\ UNCHANGED requests /\ reads' = Away(reads)
      BY <1>2 DEF BackToList, On
    <2>2. \A q \in reads' : q.here = FALSE
      BY <2>1, NoReadHere DEF Core
    <2> QED  BY <2>1, <2>2 DEF AnswersFindTheirScreen, Home
  <1>3. CASE BackFromMap
    <2>1. /\ screen = "map" /\ screen' = "add" /\ UNCHANGED reads
          /\ requests' = Away(requests \cap Saving) \cup (requests \ Saving)
      BY <1>3 DEF BackFromMap, On, looking
    <2>2. \A q \in Away(requests \cap Saving) : q.here = FALSE
      BY NoneHere
    <2>3. \A q \in requests \ Saving : q.here => q.kind = "logout"
      BY <1>0, <2>1, Kinds DEF AnswersFindTheirScreen, Home
    <2> QED  BY <2>1, <2>2, <2>3 DEF AnswersFindTheirScreen, Home
  <1>4. ASSUME NEW s \in Spots, ChooseLocation(s) PROVE AnswersFindTheirScreen'
    BY <1>4, SameScreenFinds DEF ChooseLocation, looking
  <1>5. ASSUME NEW i \in rows, DidSelectRow(i) PROVE AnswersFindTheirScreen'
    <2> DEFINE q == [id |-> i, here |-> TRUE]
    <2>1. q.id = i
      OBVIOUS
    <2>2. /\ screen = "places" /\ screen' = "detail" /\ detail' = i /\ reads' = reads \cup {q}
          /\ UNCHANGED requests
      BY <1>5 DEF DidSelectRow, On
    <2> HIDE DEF q
    <2> QED  BY <2>1, <2>2 DEF AnswersFindTheirScreen, Home
  <1> QED  BY <1>1, <1>2, <1>3, <1>4, <1>5

LEMMA NextFinds == Core /\ AnswersFindTheirScreen /\ [Next]_vars => AnswersFindTheirScreen'
  <1> SUFFICES ASSUME Core, AnswersFindTheirScreen, [Next]_vars PROVE AnswersFindTheirScreen'
    OBVIOUS
  <1> USE DEF looking
  <1>1. CASE Launch
    <2>1. \A r \in reads : ~r.here
      BY <1>1 DEF Launch, AnswersFindTheirScreen
    <2> QED  BY <1>1, <2>1, NewScreenFinds DEF Launch
  <1>2. ASSUME NEW r \in requests,
               \/ UserAnswered(r) \/ LogoutAnswered(r) \/ SessionFails(r)
               \/ SaveAnswered(r) \/ SaveFails(r)
        PROVE  AnswersFindTheirScreen'
    <2>1. CASE requests' = requests \ {r} /\ UNCHANGED <<screen, looking>>
      BY <2>1, SameScreenFinds
    <2>2. CASE ShowSignIn(requests \ {r})
      BY <2>2, NewScreenFinds
    <2>3. ASSUME NEW saved, ShowPlaces(requests \ {r}, saved), UNCHANGED looking,
                 r.here, r.kind \in {"login", "save"}
          PROVE  AnswersFindTheirScreen'
      <3>1. screen \in {"sign", "map"}
        BY <2>3 DEF AnswersFindTheirScreen, Home
      <3>2. \A q \in reads : ~q.here
        BY <3>1 DEF AnswersFindTheirScreen
      <3> QED  BY <2>3, <3>2, NewScreenFinds
    <2> QED  BY <1>2, <2>1, <2>2, <2>3
             DEF UserAnswered, LogoutAnswered, SessionFails, SaveAnswered, SaveFails
  <1>3. CASE ListAnswered
    BY <1>3, SameScreenFinds DEF ListAnswered
  <1>4. ASSUME NEW r \in reads, ReadAnswered(r) PROVE AnswersFindTheirScreen'
    BY <1>4, DieFinds, SameScreenFinds DEF ReadAnswered
  <1>5. CASE UNCHANGED vars
    BY <1>5, SameScreenFinds DEF vars
  <1> QED  BY <1>1, <1>2, <1>3, <1>4, <1>5, DieFinds, ClicksFind, ScreensFind DEF Next, Kill

\* No answer acts on a screen that did not ask (ViewController.swift 23-28,
\* MapVC.swift 70-74, DetailVC.swift 29-32).
THEOREM AnswersAreForTheirScreen == Spec => []AnswersFindTheirScreen
  <1>1. Init => AnswersFindTheirScreen
    BY DEF Init, AnswersFindTheirScreen
  <1> QED  BY <1>1, NextFinds, CoreAlways, PTL DEF Spec

\* A save r that is still under way, or only answered later on.
StillSaved(r) == \E s \in requests' \cap Saving :
    s.id = r.id /\ s.spot = r.spot /\ (s.here = r.here \/ screen' # "map")

\* It stays as it is, or goes away when the map is left.
LEMMA StillThere ==
    ASSUME NEW r \in Saving, r \in requests' PROVE StillSaved(r)
  BY DEF StillSaved

LEMMA GoneFromMap ==
    ASSUME NEW S, NEW r \in S \cap Saving, Away(S) \subseteq requests', screen' # "map"
    PROVE  StillSaved(r)
  <1>1. Gone(r) \in requests'
    BY DEF Away, Gone
  <1>2. Gone(r) \in Saving /\ Gone(r).id = r.id /\ Gone(r).spot = r.spot
    BY OneAway
  <1> QED  BY <1>1, <1>2 DEF StillSaved

\* For any number of taps and places: where requests succeed no save is lost
\* (MapVC.swift 58-76).
THEOREM SavesArrive == Spec => EverySaveArrives
  <1> DEFINE Arrived(r) == places'[r.id] = r.spot /\ (r.here => screen' = "places" /\ mine' = r.id)
  <1>1. ASSUME Core, AnswersFindTheirScreen, [Next]_vars, ~faulty, screen' = "off" => screen = "off",
               NEW r \in requests \cap Saving
        PROVE  Arrived(r) \/ StillSaved(r)
    <2>0. r.kind = "save" /\ r.id \in Ids /\ places \in [Ids -> Location \cup {None}]
      BY <1>1, Kinds DEF Core, Typed
    <2>1. CASE requests \subseteq requests'
      BY <2>1, StillThere
    <2>2. ASSUME NEW left, r \in left, ShowSignIn(left) \/ \E saved : ShowPlaces(left, saved)
          PROVE  StillSaved(r)
      <3>1. requests' = Away(left) /\ screen' # "map"
        BY <2>2 DEF ShowSignIn, ShowPlaces
      <3> QED  BY <2>2, <3>1, GoneFromMap
    <2>3. CASE Launch
      BY <2>2, <2>3 DEF Launch
    <2>4. Die => screen = "off" /\ reads = {}
      BY <1>1 DEF Die, AnswersFindTheirScreen
    <2>5. ASSUME NEW q \in requests, UserAnswered(q) \/ LogoutAnswered(q) \/ SessionFails(q)
          PROVE  StillSaved(r)
      <3>1. r \in requests \ {q}
        BY <2>0, <2>5 DEF UserAnswered, LogoutAnswered, SessionFails
      <3> QED  BY <2>2, <2>5, <3>1, StillThere DEF UserAnswered, LogoutAnswered, SessionFails
    <2>6. ASSUME NEW q \in requests, SaveAnswered(q)
          PROVE  Arrived(r) \/ StillSaved(r)
      <3>1. CASE q = r
        BY <2>0, <2>6, <3>1 DEF SaveAnswered, Stored, ShowPlaces
      <3>2. CASE q # r
        BY <2>2, <2>6, <3>2, StillThere DEF SaveAnswered
      <3> QED  BY <3>1, <3>2
    <2>7. CASE BackFromMap
      BY <2>7, GoneFromMap DEF BackFromMap
    <2>8. \/ requests \subseteq requests' \/ Launch \/ BackFromMap
          \/ \E q \in requests : UserAnswered(q) \/ LogoutAnswered(q) \/ SessionFails(q) \/ SaveAnswered(q)
      <3>1. CASE UNCHANGED vars
        BY <3>1 DEF vars
      <3>2. ASSUME NEW q \in requests, SaveFails(q) PROVE FALSE
        BY <1>1, <3>2 DEF SaveFails
      <3>3. ASSUME NEW q \in reads, ReadAnswered(q) PROVE requests \subseteq requests'
        BY <2>4, <3>3 DEF ReadAnswered
      <3>4. ASSUME \/ \E t \in Tags, u \in Users : SignInClicked(t, u) \/ SignUpClicked(t, u)
                   \/ \E t \in Tags : LogoutClicked(t)
                   \/ \E t \in Tags, i \in Ids : SaveClicked(t, i)
            PROVE  requests \subseteq requests'
        BY <3>4 DEF SignInClicked, SignUpClicked, LogoutClicked, SaveClicked, Send
      <3>5. ASSUME \/ AddButtonClicked \/ EntrySaved \/ BackToList \/ ListAnswered
                   \/ \E s \in Spots : ChooseLocation(s)
                   \/ \E i \in rows : DidSelectRow(i)
            PROVE  requests \subseteq requests'
        BY <3>5 DEF AddButtonClicked, EntrySaved, BackToList, ListAnswered, ChooseLocation, DidSelectRow
      <3> QED  BY <1>1, <2>4, <3>1, <3>2, <3>3, <3>4, <3>5 DEF Next, Kill
    <2> QED  BY <2>1, <2>3, <2>5, <2>6, <2>7, <2>8
  <1>2. Core /\ AnswersFindTheirScreen /\ [Next]_vars =>
          [~faulty /\ (screen' = "off" => screen = "off") =>
             \A r \in requests \cap Saving :
                \/ places'[r.id] = r.spot /\ (r.here => screen' = "places" /\ mine' = r.id)
                \/ \E s \in requests' \cap Saving :
                      s.id = r.id /\ s.spot = r.spot /\ (s.here = r.here \/ screen' # "map")]_vars
    BY <1>1 DEF StillSaved
  <1> QED  BY <1>2, CoreAlways, AnswersAreForTheirScreen, PTL DEF Spec, EverySaveArrives

\* Whatever answers late, the collection only grows (MapVC.swift 58-69).
THEOREM OnlyNewPlaces == Spec => PlacesAreKept
  <1>1. ASSUME Core, [Next]_vars, NEW i \in Ids, places[i] # None
        PROVE  places'[i] = places[i]
    <2>1. ASSUME NEW r \in requests, SaveAnswered(r) \/ SaveFails(r) PROVE places'[i] = places[i]
      <3>1. r \in Saving
        BY <1>1, <2>1, Kinds DEF SaveAnswered, SaveFails, Core, Sound
      <3>2. r.id # i
        BY <1>1, <3>1 DEF Core, Sound
      <3> QED  BY <1>1, <2>1, <3>2 DEF SaveAnswered, SaveFails, Stored, Core, Typed
    <2>2. \/ UNCHANGED places
          \/ \E r \in requests : SaveAnswered(r) \/ SaveFails(r)
      BY <1>1 DEF Next, vars, Launch, Kill, Die, SignInClicked, SignUpClicked, LogoutClicked, UserAnswered,
         LogoutAnswered, SessionFails, AddButtonClicked, EntrySaved, ChooseLocation, SaveClicked,
         BackFromMap, BackToList, ListAnswered, DidSelectRow, ReadAnswered
    <2> QED  BY <2>1, <2>2
  <1>2. Core /\ [Next]_vars => [\A i \in Ids : places[i] # None => places'[i] = places[i]]_vars
    BY <1>1
  <1> QED  BY <1>2, CoreAlways, PTL DEF Spec, PlacesAreKept
=============================================================================
