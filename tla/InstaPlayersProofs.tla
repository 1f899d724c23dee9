-------------------------- MODULE InstaPlayersProofs --------------------------
(* The registrations of InstaPlayers for any phones, users and number of feeds: *)
(* they go by a log-out on their phone only, and for users who wait and requests *)
(* that succeed a phone at rest is registered once, for its user.              *)
EXTENDS InstaPlayers, FiniteSetTheorems, TLAPS

\* What is to be deleted, or is asked for to be deleted, is of a user who left.
Leaving ==
    /\ \A r \in removals : r.email \in left[r.player]
    /\ \A x \in deletes : x.email \in left[x.player]

\* One phone's registration, for users who wait and requests that succeed.
OneEach ==    \* a phone has one at most, stored or on its way
    /\ \A x, y \in docs \cup adds : x.player = y.player => x = y
    /\ \A c, e \in checks : c.player = e.player => c = e
Justified ==  \* it is of the user of the phone, or is being removed
    \A x \in docs \cup adds :
        \/ auth[x.player] = x.email
        \/ [email |-> x.email, player |-> x.player] \in removals
        \/ x \in deletes
Present ==    \* a user of a phone has one there, or it is being looked for
    \A d \in Phones : auth[d] # NoUser =>
        \/ \E x \in docs \cup adds : x.player = d /\ x.email = auth[d]
        \/ \E c \in checks : c.player = d
InTurn ==     \* signing in, looking, adding and removing do not overlap on a phone
    /\ \A c \in checks : auth[c.player] = c.email
    /\ \A c \in checks, x \in adds \cup removals \cup deletes : c.player # x.player
    /\ \A x \in removals \cup deletes :
          auth[x.player] = NoUser /\ \A y \in adds : x.player # y.player
    /\ \A x \in checks \cup adds \cup removals \cup deletes : x.player \in running
Entering ==   \* a sign-in is asked for where nothing else is, from the page in front
    /\ behind = {} /\ \A d \in signPage : auth[d] = NoUser
    /\ \A s, t \in signIns : s.player = t.player => s = t
    /\ \A s \in signIns : s.player \in running \cap signPage
    /\ \A s \in signIns, x \in checks \cup adds \cup removals \cup deletes : s.player # x.player

InOrder == patient /\ ~faulty => OneEach /\ Justified /\ Present /\ InTurn /\ Entering

-----------------------------------------------------------------------------
(* Types                                                                     *)

LEMMA InitTyped == Init => TypeOK
  <1>1. 0 \in 0 .. MaxAsked
    BY PlayersAssumption DEF PlayersAssumption
  <1> QED  BY <1>1, Zenon DEF Init, TypeOK

\* What is asked for next has a new tag.
LEMMA NewTag ==
    ASSUME TypeOK, NEW d \in Phones, NEW u \in Users, asked < MaxAsked
    PROVE  /\ asked + 1 \in 0 .. MaxAsked
           /\ [email |-> u, player |-> d, n |-> asked + 1] \in Tag
  BY PlayersAssumption DEF TypeOK, Tag, PlayersAssumption

LEMMA DiesTyped == ASSUME TypeOK, NEW d \in Phones, Die(d) PROVE TypeOK'
  BY DEF Die, TypeOK, collection, ways

LEMMA NextTyped == TypeOK /\ [Next]_vars => TypeOK'
  <1> SUFFICES ASSUME TypeOK, [Next]_vars PROVE TypeOK'
    OBVIOUS
  <1>1. ASSUME NEW d \in Phones, NEW u \in Users, SignInClicked(d, u) PROVE TypeOK'
    <2>1. asked' \in 0 .. MaxAsked /\ signIns' \in SUBSET Tag
      BY <1>1, NewTag DEF SignInClicked, TypeOK
    <2> QED  BY <1>1, <2>1 DEF SignInClicked, TypeOK, collection, ways
  <1>2. ASSUME NEW d \in Phones, Launch(d) PROVE TypeOK'
    <2>1. running' \in SUBSET Phones /\ signPage' \in SUBSET Phones
      BY <1>2 DEF Launch, TypeOK
    <2>2. asked' \in 0 .. MaxAsked /\ checks' \in SUBSET Tag
      <3>1. CASE auth[d] = NoUser
        BY <1>2, <3>1 DEF Launch, TypeOK
      <3>2. CASE auth[d] # NoUser
        <4> DEFINE u == auth[d]
        <4>1. u \in Users /\ asked < MaxAsked /\ asked' = asked + 1
              /\ checks' = checks \cup {[email |-> u, player |-> d, n |-> asked + 1]}
          BY <1>2, <3>2 DEF Launch, TypeOK
        <4> HIDE DEF u
        <4> QED  BY <4>1, NewTag DEF TypeOK
      <3> QED  BY <3>1, <3>2
    <2> QED  BY <1>2, <2>1, <2>2 DEF Launch, TypeOK, collection, ways
  <1>11. ASSUME NEW s \in signIns, SignInAnswered(s) PROVE TypeOK'
    <2>1. s \in Tag /\ s.player \in Phones /\ s.email \in Users
      BY DEF TypeOK, Tag
    <2>2. auth' \in [Phones -> Users \cup {NoUser}]
      BY <1>11, <2>1 DEF SignInAnswered, TypeOK
    <2>3. /\ signIns' \in SUBSET Tag /\ checks' \in SUBSET Tag
          /\ behind' \in SUBSET Tag /\ signPage' \in SUBSET Phones
      BY <1>11, <2>1 DEF SignInAnswered, TypeOK
    <2> QED  BY <1>11, <2>2, <2>3 DEF SignInAnswered, TypeOK, collection, ways
  <1>3. ASSUME NEW d \in Phones, Kill(d) PROVE TypeOK'
    BY <1>3, DiesTyped DEF Kill
  <1>4. ASSUME NEW d \in Phones, LogOutClicked(d) PROVE TypeOK'
    <2>1. auth[d] \in Users
      BY <1>4 DEF LogOutClicked, TypeOK
    <2>2. removals' \in SUBSET [email : Users, player : Phones]
      BY <1>4, <2>1 DEF LogOutClicked, TypeOK
    <2>3. auth' \in [Phones -> Users \cup {NoUser}] /\ left' \in [Phones -> SUBSET Users]
      BY <1>4, <2>1 DEF LogOutClicked, TypeOK
    <2> QED  BY <1>4, <2>2, <2>3 DEF LogOutClicked, TypeOK, collection, ways
  <1>5. ASSUME NEW c \in checks, CheckAnswered(c) PROVE TypeOK'
    <2>1. c \in Tag /\ c.player \in Phones
      BY DEF TypeOK, Tag
    <2>2. CASE Die(c.player)
      BY <2>1, <2>2, DiesTyped
    <2>3. CASE Registered(c.email, c.player) /\ ~Die(c.player)
      BY <1>5, <2>3 DEF CheckAnswered, TypeOK, collection, ways, entry
    <2>4. CASE ~Registered(c.email, c.player) /\ ~Die(c.player)
      <3>1. auth[c.player] \in Users
        BY <1>5, <2>1, <2>4 DEF CheckAnswered, TypeOK
      <3>2. [c EXCEPT !.email = auth[c.player]] \in Tag
        BY <2>1, <3>1 DEF Tag
      <3> QED  BY <1>5, <2>4, <3>2 DEF CheckAnswered, TypeOK, ways, entry
    <2> QED  BY <2>2, <2>3, <2>4
  <1>6. ASSUME NEW x \in adds, AddApplied(x) PROVE TypeOK'
    BY <1>6 DEF AddApplied, TypeOK, ways, entry
  <1>7. ASSUME NEW r \in removals, RemovalAnswered(r) PROVE TypeOK'
    BY <1>7 DEF RemovalAnswered, ToDelete, TypeOK, ways, entry
  <1>8. ASSUME NEW x \in deletes, DeleteApplied(x) PROVE TypeOK'
    BY <1>8 DEF DeleteApplied, TypeOK, ways, entry
  <1>9. CASE RequestFails
    BY <1>9 DEF RequestFails, TypeOK, ways
  <1>10. CASE UNCHANGED vars
    BY <1>10 DEF TypeOK, vars, ways
  <1> QED  BY <1>1, <1>2, <1>3, <1>4, <1>5, <1>6, <1>7, <1>8, <1>9, <1>10, <1>11 DEF Next

LEMMA TypedAlways == Spec => []TypeOK
  BY InitTyped, NextTyped, PTL DEF Spec

-----------------------------------------------------------------------------
(* Who is removed                                                            *)

LEMMA NextLeaving == TypeOK /\ Leaving /\ [Next]_vars => Leaving'
  <1> SUFFICES ASSUME TypeOK, Leaving, [Next]_vars PROVE Leaving'
    OBVIOUS
  <1> USE DEF Leaving
  <1>1. ASSUME NEW d \in Phones, Die(d) PROVE Leaving'
    BY <1>1 DEF Die, collection
  <1>2. ASSUME NEW d \in Phones, LogOutClicked(d) PROVE Leaving'
    <2>1. /\ removals' = removals \cup {[email |-> auth[d], player |-> d]}
          /\ left' = [left EXCEPT ![d] = @ \cup {auth[d]}] /\ deletes' = deletes
      BY <1>2 DEF LogOutClicked, collection
    <2>2. \A e \in Phones : left[e] \subseteq left'[e]
      BY <2>1 DEF TypeOK
    <2>3. auth[d] \in left'[d]
      BY <2>1 DEF TypeOK
    <2>4. \A r \in removals : r.player \in Phones
      BY DEF TypeOK
    <2>5. \A x \in deletes : x.player \in Phones
      BY DEF TypeOK, Tag
    <2> QED  BY <2>1, <2>2, <2>3, <2>4, <2>5
  <1>3. ASSUME NEW r \in removals, RemovalAnswered(r) PROVE Leaving'
    BY <1>3 DEF RemovalAnswered, ToDelete
  <1>4. ASSUME UNCHANGED left, removals' \subseteq removals, deletes' \subseteq deletes PROVE Leaving'
    BY <1>4
  <1>5. \/ \E d \in Phones : Die(d) \/ LogOutClicked(d)
        \/ \E r \in removals : RemovalAnswered(r)
        \/ UNCHANGED left /\ removals' \subseteq removals /\ deletes' \subseteq deletes
    <2>1. \A c \in checks : c.player \in Phones
      BY DEF TypeOK, Tag
    <2> QED  BY <2>1 DEF Next, SignInClicked, SignInAnswered, Launch, Kill, CheckAnswered, AddApplied, DeleteApplied,
                         RequestFails, vars, collection
  <1> QED  BY <1>1, <1>2, <1>3, <1>4, <1>5

LEMMA LeavingAlways == Spec => []Leaving
  <1>1. Init => Leaving
    BY DEF Init, Leaving
  <1> QED  BY <1>1, TypedAlways, NextLeaving, PTL DEF Spec

\* The types, for any phones and users (FeedViewController.swift 25-71,
\* SettingsViewController.swift 21-54, ViewController.swift 22-48).
THEOREM TypeCorrect == Spec => []TypeOK
  BY TypedAlways, PTL

\* Logging out on one phone never silences another, whatever is answered late
\* (SettingsViewController.swift 30-42).
THEOREM OnlyByLogOutHere == Spec => RemovedByLogOutHere
  <1>1. Leaving /\ [Next]_vars => [\A x \in docs \ docs' : x.email \in left[x.player]]_vars
    <2> SUFFICES ASSUME Leaving, Next, NEW x \in docs \ docs' PROVE x.email \in left[x.player]
      OBVIOUS
    <2>1. \E y \in deletes : DeleteApplied(y)
      BY DEF Next, SignInClicked, SignInAnswered, Launch, Kill, Die, LogOutClicked, CheckAnswered, AddApplied,
             RemovalAnswered, RequestFails, collection
    <2>2. x \in deletes
      BY <2>1 DEF DeleteApplied
    <2> QED  BY <2>2 DEF Leaving
  <1> QED  BY <1>1, LeavingAlways, PTL DEF Spec, RemovedByLogOutHere

-----------------------------------------------------------------------------
(* Registered for the user                                                   *)

\* A user asks to be signed in when all is answered.
LEMMA AsksInOrder ==
    ASSUME TypeOK, InOrder, patient, ~faulty,
           NEW d \in Phones, NEW u \in Users, SignInClicked(d, u)
    PROVE  InOrder'
  <1> USE DEF InOrder
  <1>1. PICK s : s.player = d /\ signIns' = signIns \cup {s}
    BY Zenon DEF SignInClicked
  <1>2. /\ signIns = {} /\ checks = {} /\ adds = {} /\ removals = {} /\ deletes = {}
        /\ d \in running \cap signPage
        /\ UNCHANGED <<running, auth, signPage, behind, docs, checks, adds, deletes, removals,
                       patient, faulty>>
    BY DEF SignInClicked, UserFree, Quiet, collection, ways
  <1>3. OneEach' /\ Justified' /\ Present' /\ InTurn'
    BY <1>2 DEF OneEach, Justified, Present, InTurn
  <1>4. Entering'
    BY <1>1, <1>2 DEF Entering
  <1> QED  BY <1>3, <1>4

\* The user is signed in, on a phone where all is answered and nobody is registered.
LEMMA SignsInOrder ==
    ASSUME TypeOK, InOrder, patient, ~faulty, NEW s \in signIns, SignInAnswered(s)
    PROVE  InOrder'
  <1> USE DEF InOrder
  <1> DEFINE d == s.player
  <1>1. s \in Tag /\ d \in Phones /\ s.email \in Users
    BY DEF TypeOK, Tag
  <1>2. /\ s \notin behind /\ auth[d] = NoUser /\ d \in running
        /\ \A t \in signIns \ {s} : t.player # d
        /\ \A x \in checks \cup adds \cup removals \cup deletes : x.player # d
    BY DEF Entering
  <1>3. /\ signIns' = signIns \ {s} /\ auth' = [auth EXCEPT ![d] = s.email]
        /\ checks' = checks \cup {s} /\ signPage' = signPage \ {d} /\ behind' = {}
        /\ UNCHANGED <<running, docs, adds, deletes, removals, patient, faulty>>
    BY <1>2 DEF SignInAnswered, Entering, collection, ways
  <1>4. auth'[d] = s.email /\ \A e \in Phones \ {d} : auth'[e] = auth[e]
    BY <1>1, <1>3 DEF TypeOK
  <1>5. \A x \in docs \cup adds : x.player \in Phones /\ x.email \in Users
    BY DEF TypeOK, Tag
  <1>6. ASSUME NEW x \in docs, x.player = d PROVE FALSE
    <2>1. [email |-> x.email, player |-> x.player] \notin removals /\ x \notin deletes
      BY <1>2, <1>6
    <2>2. auth[x.player] = x.email
      BY <2>1 DEF Justified
    <2> QED  BY <1>2, <1>5, <1>6, <2>2, PlayersAssumption DEF PlayersAssumption
  <1>7. \A x \in docs \cup adds \cup checks \cup removals \cup deletes : x.player \in Phones
    BY DEF TypeOK, Tag
  <1> HIDE DEF d
  <1>8. OneEach'
    BY <1>2, <1>3 DEF OneEach, d
  <1>9. Justified'
    BY <1>2, <1>3, <1>4, <1>5, <1>6 DEF Justified
  <1>10. Present'
    BY <1>3, <1>4 DEF Present, d
  <1>11. InTurn'
    <2>1. \A c \in checks' : auth'[c.player] = c.email
      BY <1>2, <1>3, <1>4, <1>7 DEF InTurn, d
    <2>2. \A x \in removals' \cup deletes' :
             auth'[x.player] = NoUser /\ \A y \in adds' : x.player # y.player
      BY <1>2, <1>3, <1>4, <1>7 DEF InTurn
    <2>3. /\ \A c \in checks', x \in adds' \cup removals' \cup deletes' : c.player # x.player
          /\ \A x \in checks' \cup adds' \cup removals' \cup deletes' : x.player \in running'
      BY <1>2, <1>3 DEF InTurn, d
    <2> QED  BY <2>1, <2>2, <2>3 DEF InTurn
  <1>12. Entering'
    <2>1. \A e \in signPage' : auth'[e] = NoUser
      BY <1>3, <1>4 DEF Entering, TypeOK
    <2>2. \A t \in signIns' : /\ t.player \in running' \cap signPage'
                              /\ \A x \in checks' \cup adds' \cup removals' \cup deletes' :
                                    t.player # x.player
      BY <1>2, <1>3 DEF Entering, d
    <2>3. \A t, z \in signIns' : t.player = z.player => t = z
      BY <1>3 DEF Entering
    <2> QED  BY <1>3, <2>1, <2>2, <2>3 DEF Entering
  <1> QED  BY <1>8, <1>9, <1>10, <1>11, <1>12

\* A phone that is launched has nothing under way.
LEMMA LaunchesInOrder ==
    ASSUME TypeOK, InOrder, patient, ~faulty, NEW d \in Phones, Launch(d)
    PROVE  InOrder'
  <1> USE DEF InOrder
  <1>1. /\ UNCHANGED <<auth, signIns, behind, docs, adds, deletes, removals, patient, faulty>>
        /\ running' = running \cup {d} /\ d \notin running
    BY DEF Launch, collection, ways
  <1>2. CASE auth[d] = NoUser
    <2>1. checks' = checks /\ signPage' = signPage \cup {d}
      BY <1>2 DEF Launch
    <2>2. OneEach' /\ Justified' /\ Present' /\ InTurn'
      BY <1>1, <2>1 DEF OneEach, Justified, Present, InTurn
    <2>3. Entering'
      BY <1>1, <1>2, <2>1 DEF Entering
    <2> QED  BY <2>2, <2>3
  <1>3. CASE auth[d] # NoUser
    <2>1. PICK c : c.email = auth[d] /\ c.player = d /\ checks' = checks \cup {c}
      BY <1>3, Zenon DEF Launch
    <2>2. signPage' = signPage
      BY <1>3 DEF Launch
    <2>3. \A x \in checks \cup adds \cup removals \cup deletes : x.player # d
      BY <1>1 DEF InTurn
    <2>4. OneEach' /\ Justified' /\ Present'
      BY <1>1, <2>1, <2>3 DEF OneEach, Justified, Present
    <2>5. InTurn'
      BY <1>1, <2>1, <2>3 DEF InTurn
    <2>6. \A s \in signIns : s.player # d
      BY <1>1 DEF Entering
    <2>7. Entering'
      BY <1>1, <2>1, <2>2, <2>6 DEF Entering
    <2> QED  BY <2>4, <2>5, <2>7
  <1> QED  BY <1>2, <1>3

\* The user leaves a phone when all is answered: by ending the process, or by
\* logging out, which asks for the registration that is there.
LEMMA LeavesInOrder ==
    ASSUME TypeOK, InOrder, patient, ~faulty, NEW d \in Phones, Kill(d) \/ LogOutClicked(d)
    PROVE  InOrder'
  <1> USE DEF InOrder
  <1>1. signIns = {} /\ checks = {} /\ adds = {} /\ removals = {} /\ deletes = {}
    BY DEF Kill, LogOutClicked, UserFree, Quiet
  <1>2. CASE Kill(d)
    <2>1. /\ checks' = {} /\ removals' = {} /\ signIns' = {} /\ behind' = {}
          /\ signPage' = signPage \ {d}
          /\ UNCHANGED <<auth, docs, adds, deletes, patient, faulty>>
      BY <1>1, <1>2 DEF Kill, Die, Entering, collection, ways
    <2> QED  BY <1>1, <2>1 DEF OneEach, Justified, Present, InTurn, Entering
  <1>3. CASE LogOutClicked(d)
    <2>1. /\ removals' = {[email |-> auth[d], player |-> d]}
          /\ auth' = [auth EXCEPT ![d] = NoUser] /\ d \in running
          /\ signPage' = signPage \cup {d}
          /\ UNCHANGED <<running, signIns, behind, docs, adds, deletes, checks, patient, faulty>>
      BY <1>1, <1>3 DEF LogOutClicked, collection, ways
    <2>2. auth'[d] = NoUser /\ \A e \in Phones \ {d} : auth'[e] = auth[e]
      BY <2>1 DEF TypeOK
    <2>3. \A x \in docs : x.player \in Phones
      BY DEF TypeOK, Tag
    <2>4. Justified'
      <3> SUFFICES ASSUME NEW x \in docs
                   PROVE  \/ auth'[x.player] = x.email
                          \/ [email |-> x.email, player |-> x.player] \in removals'
        BY <1>1, <2>1 DEF Justified
      <3>1. auth[x.player] = x.email
        BY <1>1 DEF Justified
      <3> QED  BY <2>1, <2>2, <2>3, <3>1
    <2>5. OneEach' /\ Present'
      BY <1>1, <2>1, <2>2 DEF OneEach, Present
    <2>6. InTurn'
      BY <1>1, <2>1, <2>2 DEF InTurn
    <2>7. Entering'
      BY <1>1, <2>1, <2>2 DEF Entering, TypeOK
    <2> QED  BY <2>4, <2>5, <2>6, <2>7
  <1> QED  BY <1>2, <1>3

\* The registration is there, or is sent.
LEMMA ChecksInOrder ==
    ASSUME TypeOK, InOrder, patient, ~faulty, NEW c \in checks, CheckAnswered(c)
    PROVE  InOrder'
  <1> USE DEF InOrder
  <1>1. c \in Tag /\ c.player \in Phones /\ c.email \in Users
    BY DEF TypeOK, Tag
  <1>2. auth[c.player] = c.email /\ c.email # NoUser
    BY <1>1, PlayersAssumption DEF InTurn, PlayersAssumption
  <1>3. \A e \in checks : e # c => e.player # c.player
    BY DEF OneEach
  <1>4. CASE Registered(c.email, c.player)
    <2>1. /\ checks' = checks \ {c}
          /\ UNCHANGED <<running, auth, signPage, signIns, behind, docs, adds, deletes, removals, patient, faulty>>
      BY <1>4 DEF CheckAnswered, collection, ways, entry
    <2>2. PICK x \in docs : x.email = c.email /\ x.player = c.player
      BY <1>4 DEF Registered
    <2>3. OneEach' /\ Justified' /\ InTurn' /\ Entering'
      BY <2>1 DEF OneEach, Justified, InTurn, Entering
    <2>4. Present'
      BY <1>2, <2>1, <2>2 DEF Present
    <2> QED  BY <2>3, <2>4
  <1>5. CASE ~Registered(c.email, c.player)
    <2>1. [c EXCEPT !.email = auth[c.player]] = c
      BY <1>1, <1>2 DEF Tag
    <2>2. /\ checks' = checks \ {c} /\ adds' = adds \cup {c}
          /\ UNCHANGED <<running, auth, signPage, signIns, behind, docs, deletes, removals, patient, faulty>>
      BY <1>2, <1>5, <2>1 DEF CheckAnswered, ways, entry
    <2>3. \A x \in docs \cup adds : x.player # c.player
      <3> SUFFICES ASSUME NEW x \in docs \cup adds, x.player = c.player PROVE FALSE
        OBVIOUS
      <3>1. x \notin adds /\ x \notin deletes
        BY DEF InTurn
      <3>2. \A r \in removals : r.player # c.player
        BY DEF InTurn
      <3>3. x.email = c.email
        BY <1>2, <3>1, <3>2 DEF Justified
      <3> QED  BY <1>5, <3>1, <3>3 DEF Registered
    <2>4. OneEach'
      BY <2>2, <2>3 DEF OneEach
    <2>5. Justified' /\ Present'
      BY <1>2, <2>2 DEF Justified, Present
    <2>6. InTurn'
      BY <1>2, <1>3, <2>2 DEF InTurn
    <2>7. Entering'
      BY <2>2 DEF Entering
    <2> QED  BY <2>4, <2>5, <2>6, <2>7
  <1> QED  BY <1>4, <1>5

\* Requests take effect.
LEMMA AppliesInOrder ==
    ASSUME TypeOK, InOrder, patient, ~faulty,
           \/ \E x \in adds : AddApplied(x)
           \/ \E r \in removals : RemovalAnswered(r)
           \/ \E x \in deletes : DeleteApplied(x)
    PROVE  InOrder'
  <1> USE DEF InOrder
  <1>1. ASSUME NEW x \in adds, AddApplied(x) PROVE InOrder'
    <2>1. /\ adds' = adds \ {x} /\ docs' = docs \cup {x}
          /\ UNCHANGED <<running, auth, signPage, signIns, behind, checks, removals, deletes, patient, faulty>>
      BY <1>1 DEF AddApplied, ways, entry
    <2>2. docs' \cup adds' = docs \cup adds
      BY <2>1
    <2> QED  BY <2>1, <2>2 DEF OneEach, Justified, Present, InTurn, Entering
  <1>2. ASSUME NEW r \in removals, RemovalAnswered(r) PROVE InOrder'
    <2>1. /\ removals' = removals \ {r} /\ deletes' = deletes \cup ToDelete(r)
          /\ UNCHANGED <<running, auth, signPage, signIns, behind, docs, adds, checks, patient, faulty>>
      BY <1>2 DEF RemovalAnswered, ways, entry
    <2>2. r.email \in Users /\ r = [email |-> r.email, player |-> r.player]
      BY DEF TypeOK
    <2>3. Justified'
      <3> SUFFICES ASSUME NEW x \in docs \cup adds
                   PROVE  \/ auth[x.player] = x.email
                          \/ [email |-> x.email, player |-> x.player] \in removals'
                          \/ x \in deletes'
        BY <2>1 DEF Justified
      <3>1. CASE [email |-> x.email, player |-> x.player] = r
        <4>1. x.email = r.email /\ x.player = r.player
          BY <3>1
        <4>2. x \notin adds
          BY <4>1 DEF InTurn
        <4> QED  BY <2>1, <4>1, <4>2 DEF ToDelete
      <3>2. CASE [email |-> x.email, player |-> x.player] # r
        BY <2>1, <3>2 DEF Justified
      <3> QED  BY <3>1, <3>2
    <2>4. \A x \in ToDelete(r) : x.player = r.player
      BY DEF ToDelete
    <2>5. InTurn'
      BY <2>1, <2>4 DEF InTurn
    <2>6. Entering'
      BY <2>1, <2>4 DEF Entering
    <2> QED  BY <2>1, <2>3, <2>5, <2>6 DEF OneEach, Present
  <1>3. ASSUME NEW x \in deletes, DeleteApplied(x) PROVE InOrder'
    <2>1. /\ deletes' = deletes \ {x} /\ docs' = docs \ {x}
          /\ UNCHANGED <<running, auth, signPage, signIns, behind, adds, checks, removals, patient, faulty>>
      BY <1>3 DEF DeleteApplied, ways, entry
    <2>2. x \notin adds /\ auth[x.player] = NoUser
      BY DEF InTurn
    <2>3. Justified' /\ OneEach' /\ InTurn' /\ Entering'
      BY <2>1, <2>2 DEF Justified, OneEach, InTurn, Entering
    <2>4. Present'
      BY <2>1, <2>2 DEF Present
    <2> QED  BY <2>3, <2>4
  <1> QED  BY <1>1, <1>2, <1>3

LEMMA NextInOrder == TypeOK /\ InOrder /\ [Next]_vars => InOrder'
  <1> SUFFICES ASSUME TypeOK, InOrder, [Next]_vars PROVE InOrder'
    OBVIOUS
  <1>1. patient' = patient /\ faulty' = faulty
    BY DEF Next, SignInClicked, SignInAnswered, Launch, Kill, Die, LogOutClicked, CheckAnswered, AddApplied,
           RemovalAnswered, DeleteApplied, RequestFails, vars, ways
  <1>2. CASE ~(patient /\ ~faulty)
    BY <1>1, <1>2 DEF InOrder
  <1>3. CASE patient /\ ~faulty
    <2>1. ASSUME Next PROVE InOrder'
      <3>1. ~RequestFails
        BY <1>3 DEF RequestFails
      <3> QED  BY <1>3, <2>1, <3>1, AsksInOrder, SignsInOrder, LaunchesInOrder, LeavesInOrder, ChecksInOrder,
                  AppliesInOrder DEF Next
    <2>2. CASE UNCHANGED vars
      BY <2>2 DEF InOrder, OneEach, Justified, Present, InTurn, Entering, vars, ways
    <2> QED  BY <2>1, <2>2
  <1> QED  BY <1>2, <1>3

LEMMA InOrderAlways == Spec => []InOrder
  <1>1. Init => InOrder
    BY DEF Init, InOrder, OneEach, Justified, Present, InTurn, Entering
  <1> QED  BY <1>1, TypedAlways, NextInOrder, PTL DEF Spec

\* For users who wait, and requests that succeed, a phone at rest is registered
\* once, for the user signed in on it (SettingsViewController.swift 25-47,
\* FeedViewController.swift 38-71).
THEOREM AlwaysRegistered == Spec => []RegisteredForTheUser
  <1>1. TypeOK /\ InOrder => RegisteredForTheUser
    <2> SUFFICES ASSUME TypeOK, InOrder, patient, ~faulty, Quiet,
                        NEW d \in running, NEW u \in Users
                 PROVE  Cardinality({x \in docs : x.player = d /\ x.email = u})
                            = IF auth[d] = u THEN 1 ELSE 0
      BY DEF RegisteredForTheUser
    <2> DEFINE D == {x \in docs : x.player = d /\ x.email = u}
    <2>1. d \in Phones /\ u # NoUser
      BY PlayersAssumption DEF TypeOK, PlayersAssumption
    <2>2. CASE auth[d] = u
      <3>1. PICK x \in docs : x.player = d /\ x.email = u
        BY <2>1, <2>2 DEF InOrder, Present, Quiet
      <3>2. D = {x}
        BY <3>1 DEF InOrder, OneEach
      <3> HIDE DEF D
      <3>3. Cardinality(D) = 1
        BY <3>2, FS_Singleton
      <3> QED  BY <2>2, <3>3 DEF D
    <2>3. CASE auth[d] # u
      <3>1. D = {}
        BY <2>3 DEF InOrder, Justified, Quiet
      <3> HIDE DEF D
      <3>2. Cardinality(D) = 0
        BY <3>1, FS_EmptySet
      <3> QED  BY <2>3, <3>2 DEF D
    <2> QED  BY <2>2, <2>3
  <1> QED  BY <1>1, TypedAlways, InOrderAlways, PTL

=============================================================================
