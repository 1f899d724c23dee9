---------------------------- MODULE InstaPlayers ----------------------------
(* InstaCloneFirebase: the collection PlayerId, which says on which phones a *)
(* user is to be notified.  FeedViewController.viewDidLoad registers, after a *)
(* query, and SettingsViewController.logOutClicked unregisters, after a query *)
(* too and while the user is being signed out.  A phone's player id is the    *)
(* phone.  A sign-in is a request as well: its button can be tapped again, and  *)
(* whatever page is up when it is answered, the user is signed in.  Requests    *)
(* take effect in any order.                                                  *)
EXTENDS Naturals, FiniteSets

CONSTANTS Phones, Users,
          NoUser,     \* Auth.auth().currentUser == nil
          MaxAsked    \* bound: sign-ins asked for and launches of a signed-in user

ASSUME PlayersAssumption == NoUser \notin Users /\ MaxAsked \in Nat

VARIABLES running,   \* phones whose process is alive
          auth,      \* phone -> currentUser, kept across launches
          signPage,  \* phones that show a ViewController, and not the tabs
          signIns,   \* requests to sign in or up under way
          behind,    \* those whose ViewController something else has come over
          docs,      \* the collection PlayerId; "n" tells documents apart
          checks,    \* viewDidLoad's queries under way
          adds,      \* addDocument requests on their way
          removals,  \* logOutClicked's queries under way
          deletes,   \* delete requests on their way
          asked,     \* sign-ins asked for and launches of a signed-in user, so far
          patient,   \* whether users go on only when every request is answered
          faulty,    \* whether a request ever fails
          left       \* history: phone -> users who have logged out on it

ways == <<patient, faulty>>
vars == <<running, auth, signPage, signIns, behind, docs, checks, adds, removals, deletes,
          asked, ways, left>>
collection == <<docs, adds, deletes>>
entry == <<signPage, signIns, behind>>

Tag == [email : Users, player : Phones, n : 1 .. MaxAsked]

TypeOK ==
    /\ running \in SUBSET Phones
    /\ auth \in [Phones -> Users \cup {NoUser}]
    /\ signPage \in SUBSET Phones
    /\ signIns \in SUBSET Tag /\ behind \in SUBSET Tag
    /\ docs \in SUBSET Tag /\ checks \in SUBSET Tag
    /\ adds \in SUBSET Tag /\ deletes \in SUBSET Tag
    /\ removals \in SUBSET [email : Users, player : Phones]
    /\ asked \in 0 .. MaxAsked
    /\ patient \in BOOLEAN /\ faulty \in BOOLEAN
    /\ left \in [Phones -> SUBSET Users]

Init ==
    /\ running = {} /\ auth = [d \in Phones |-> NoUser]
    /\ signPage = {} /\ signIns = {} /\ behind = {}
    /\ docs = {} /\ checks = {} /\ adds = {} /\ removals = {} /\ deletes = {}
    /\ asked = 0
    /\ patient \in BOOLEAN /\ faulty \in BOOLEAN
    /\ left = [d \in Phones |-> {}]

Quiet == signIns = {} /\ checks = {} /\ adds = {} /\ removals = {} /\ deletes = {}
UserFree == patient => Quiet

\* signInClicked or signUpClicked, whatever has been tapped before
SignInClicked(d, u) ==
    /\ UserFree
    /\ d \in running \cap signPage
    /\ asked < MaxAsked
    /\ asked' = asked + 1
    /\ signIns' = signIns \cup {[email |-> u, player |-> d, n |-> asked + 1]}
    /\ UNCHANGED <<running, auth, signPage, behind, collection, checks, removals, left, ways>>

\* The user is signed in, and the page that asked presents the tabs, whose feed
\* asks for the documents of the user.  A page that something else has come over
\* (the tabs, an alert) presents nothing, though it may have loaded a feed.
SignInAnswered(s) ==
    /\ s \in signIns
    /\ signIns' = signIns \ {s}
    /\ auth' = [auth EXCEPT ![s.player] = s.email]
    /\ \/ /\ s \notin behind
          /\ checks' = checks \cup {s}
          /\ signPage' = signPage \ {s.player}
          /\ behind' = behind \cup {x \in signIns \ {s} : x.player = s.player}
       \/ /\ s \in behind \/ faulty
          /\ checks' \in {checks, checks \cup {s}}
          /\ behind' = behind \ {s}
          /\ UNCHANGED signPage
    /\ UNCHANGED <<running, collection, removals, asked, left, ways>>

\* scene(_:willConnectTo:): the tabs, or the sign-in page
Launch(d) ==
    /\ d \notin running
    /\ running' = running \cup {d}
    /\ \/ /\ auth[d] = NoUser
          /\ signPage' = signPage \cup {d}
          /\ UNCHANGED <<asked, checks>>
       \/ /\ auth[d] # NoUser
          /\ asked < MaxAsked
          /\ asked' = asked + 1
          /\ checks' = checks \cup {[email |-> auth[d], player |-> d, n |-> asked + 1]}
          /\ UNCHANGED signPage
    /\ UNCHANGED <<auth, signIns, behind, collection, removals, left, ways>>

\* The process ends; what Firestore has left told persists.
Die(d) ==
    /\ running' = running \ {d}
    /\ signPage' = signPage \ {d}
    /\ signIns' = {s \in signIns : s.player # d}
    /\ behind' = {s \in behind : s.player # d}
    /\ checks' = {c \in checks : c.player # d}
    /\ removals' = {r \in removals : r.player # d}
    /\ UNCHANGED <<auth, collection, asked, left, ways>>

Kill(d) == UserFree /\ d \in running /\ Die(d)

\* Variant: any document of the user will do.
RegisteredSomewhere(u, d) == \E x \in docs : x.email = u

\* The documents that say so already: playerId == newPlayerId
Registered(u, d) == \E x \in docs : x.email = u /\ x.player = d

\* The answer to viewDidLoad's query; currentUser! is read again here.
CheckAnswered(c) ==
    /\ c \in checks
    /\ \/ /\ Registered(c.email, c.player)
          /\ checks' = checks \ {c}
          /\ UNCHANGED <<running, auth, entry, collection, removals, asked, left, ways>>
       \/ /\ ~Registered(c.email, c.player) /\ auth[c.player] # NoUser
          /\ checks' = checks \ {c}
          /\ adds' = adds \cup {[c EXCEPT !.email = auth[c.player]]}
          /\ UNCHANGED <<running, auth, entry, docs, deletes, removals, asked, left, ways>>
       \/ ~Registered(c.email, c.player) /\ auth[c.player] = NoUser /\ Die(c.player)

AddApplied(x) ==
    /\ x \in adds
    /\ adds' = adds \ {x}
    /\ docs' = docs \cup {x}
    /\ UNCHANGED <<running, auth, entry, checks, removals, deletes, asked, left, ways>>

\* logOutClicked: the documents of the user are asked for, and the user is
\* signed out without waiting for them.
LogOutClicked(d) ==
    /\ UserFree
    /\ d \in running \ signPage /\ auth[d] # NoUser
    /\ removals' = removals \cup {[email |-> auth[d], player |-> d]}
    /\ auth' = [auth EXCEPT ![d] = NoUser]
    /\ signPage' = signPage \cup {d}
    /\ left' = [left EXCEPT ![d] = @ \cup {auth[d]}]
    /\ UNCHANGED <<running, signIns, behind, collection, checks, asked, ways>>

\* Variant: the documents of the user, on whatever phone.
ToDeleteEverywhere(r) == {x \in docs : x.email = r.email}

\* The documents to delete: those of the user with the id of this phone.
ToDelete(r) == {x \in docs : x.email = r.email /\ x.player = r.player}

RemovalAnswered(r) ==
    /\ r \in removals
    /\ removals' = removals \ {r}
    /\ deletes' = deletes \cup ToDelete(r)
    /\ UNCHANGED <<running, auth, entry, docs, adds, checks, asked, left, ways>>

DeleteApplied(x) ==
    /\ x \in deletes
    /\ deletes' = deletes \ {x}
    /\ docs' = docs \ {x}
    /\ UNCHANGED <<running, auth, entry, adds, checks, removals, asked, left, ways>>

\* An alert at most.
RequestFails ==
    /\ faulty
    /\ \/ \E s \in signIns : /\ signIns' = signIns \ {s} /\ behind' = behind \ {s}
                            /\ UNCHANGED <<checks, adds, removals, deletes>>
       \/ \E c \in checks : checks' = checks \ {c} /\ UNCHANGED <<signIns, behind, adds, removals, deletes>>
       \/ \E x \in adds : adds' = adds \ {x} /\ UNCHANGED <<signIns, behind, checks, removals, deletes>>
       \/ \E r \in removals : removals' = removals \ {r} /\ UNCHANGED <<signIns, behind, checks, adds, deletes>>
       \/ \E x \in deletes : deletes' = deletes \ {x} /\ UNCHANGED <<signIns, behind, checks, adds, removals>>
    /\ UNCHANGED <<running, auth, signPage, docs, asked, left, ways>>

Next ==
    \/ \E d \in Phones : \/ \E u \in Users : SignInClicked(d, u)
                         \/ Launch(d)
                         \/ Kill(d)
                         \/ LogOutClicked(d)
    \/ \E s \in signIns : SignInAnswered(s)
    \/ \E c \in checks : CheckAnswered(c)
    \/ \E x \in adds : AddApplied(x)
    \/ \E r \in removals : RemovalAnswered(r)
    \/ \E x \in deletes : DeleteApplied(x)
    \/ RequestFails

Spec == Init /\ [][Next]_vars

-----------------------------------------------------------------------------
\* A user's registration of a phone goes only when that user has logged out on
\* that phone, whatever is answered late: logging out on one phone does not
\* silence another (SettingsViewController.swift 30-42).
RemovedByLogOutHere ==
    [][\A x \in docs \ docs' : x.email \in left[x.player]]_vars

\* When every request is answered before the user goes on, a phone at rest is
\* registered once for the user signed in on it and for nobody else: viewDidLoad
\* and logOutClicked undo one another (SettingsViewController.swift 25-47).
RegisteredForTheUser ==
    patient /\ ~faulty /\ Quiet => \A d \in running, u \in Users :
        Cardinality({x \in docs : x.player = d /\ x.email = u})
            = IF auth[d] = u THEN 1 ELSE 0
=============================================================================
