-------------------------- MODULE FoursquarePlaces --------------------------
(* FoursquareClone: one phone, the screens from signing in to the list of     *)
(* places, and back over AddPlaceVC and MapVC, which share the one PlaceModel; *)
(* and the collection Places of the Parse server.  Parse is external.         *)
EXTENDS Naturals, FiniteSets

CONSTANTS Users,   \* accounts
          Ids,     \* objectIds the server will give: a bound on the places saved
          Limit,   \* how many objects a query returns at most: PFQuery's default
          Tags,    \* a bound on the taps whose requests are under way
          Spots,   \* locations on the map
          Empty,   \* "": no location yet
          None     \* nil: no user, no object, no page

ASSUME PlacesAssumption ==
    /\ IsFiniteSet(Ids) /\ Limit \in Nat \ {0}
    /\ Empty \notin Spots /\ None \notin Users \cup Ids \cup Spots \cup {Empty}

VARIABLES
    patient, careful, faulty,  \* whether the user waits for every answer, always
                               \* chooses a location; whether requests ever fail
    current,     \* PFUser.current(), kept on the phone
    screen,      \* the view controller on the screen, or "off"
    placeModel,  \* PlaceModel.sharedInstance: its location.  The other fields
                 \* are assigned by every AddPlaceVC and decide nothing.
    chosen,      \* history: whether a location was chosen on this MapVC
    requests,    \* taps whose answers are still to come
    places,      \* the collection: objectId -> the location saved, or None
    listing,     \* PlacesVC's query: "none", "asked", "answered" or "failed"
    rows,        \* placeIds of the PlacesVC
    mine,        \* history: the place whose saving opened this PlacesVC, or None
    detail,      \* chosenPlaceId of the DetailVC on the screen, or None
    reads        \* queries of DetailVCs: objectIds, and whether one is still shown

ways    == <<patient, careful, faulty>>
adding  == <<placeModel, chosen>>
table   == <<listing, rows, mine>>
looking == <<detail, reads>>
vars    == <<ways, current, screen, adding, requests, places, table, looking>>

Location == Spots \cup {Empty}

\* "here": the view controller that asked can still be returned to.
Session == [kind : {"login", "signup", "logout"}, tag : Tags, user : Users \cup {None}, here : BOOLEAN]
Saving  == [kind : {"save"}, tag : Tags, id : Ids, spot : Location, here : BOOLEAN]

Saved == {i \in Ids : places[i] # None}

TypeOK ==
    /\ patient \in BOOLEAN /\ careful \in BOOLEAN /\ faulty \in BOOLEAN
    /\ current \in Users \cup {None}
    /\ screen \in {"off", "sign", "places", "add", "map", "detail"}
    /\ placeModel \in Location /\ chosen \in BOOLEAN
    /\ requests \subseteq Session \cup Saving
    /\ \A r, s \in requests : r.tag = s.tag => r = s
    /\ places \in [Ids -> Location \cup {None}]
    /\ \A r \in requests \cap Saving : places[r.id] = None
    /\ listing \in {"none", "asked", "answered", "failed"}
    /\ rows \subseteq Saved
    /\ mine \in Ids \cup {None} /\ detail \in Ids \cup {None}
    /\ reads \subseteq [id : Ids, here : BOOLEAN]

Init ==
    /\ patient \in BOOLEAN /\ careful \in BOOLEAN /\ faulty \in BOOLEAN
    /\ current = None
    /\ screen = "off"
    /\ placeModel = Empty /\ chosen = FALSE
    /\ requests = {}
    /\ places = [i \in Ids |-> None]
    /\ listing = "none" /\ rows = {} /\ mine = None
    /\ detail = None /\ reads = {}

-----------------------------------------------------------------------------
(* Requests, screens and the process.                                        *)

Waiting == requests # {} \/ listing = "asked" \/ \E r \in reads : r.here

\* A tap on a screen; a patient user waits for what is under way first.
On(s) == screen = s /\ (patient => ~Waiting)

Send(r) ==
    /\ \A s \in requests : s.tag # r.tag
    /\ requests' = requests \cup {r}

Away(set) == {[r EXCEPT !.here = FALSE] : r \in set}

\* A new PlacesVC: its viewDidLoad sends getDatafromParse.  Of the screens before
\* it none can be returned to.
ShowPlaces(left, saved) ==
    /\ screen' = "places"
    /\ listing' = "asked" /\ rows' = {} /\ mine' = saved
    /\ requests' = Away(left)

ShowSignIn(left) ==
    /\ screen' = "sign"
    /\ listing' = "none" /\ rows' = {} /\ mine' = None
    /\ detail' = None /\ reads' = Away(reads)
    /\ requests' = Away(left)

\* Variant: the user is not looked at.
LaunchAnyway ==
    /\ screen = "off"
    /\ ShowPlaces(requests, None)
    /\ UNCHANGED <<ways, current, adding, places, looking>>

\* scene(_:willConnectTo:): straight to the places when there is a user.
Launch ==
    /\ screen = "off"
    /\ \/ current # None /\ ShowPlaces(requests, None) /\ UNCHANGED looking
       \/ current = None /\ ShowSignIn(requests)
    /\ UNCHANGED <<ways, current, adding, places>>

\* The process ends.  A save that was sent may still reach the server.
Die ==
    /\ screen' = "off"
    /\ placeModel' = Empty /\ chosen' = FALSE
    /\ requests' \in SUBSET Away(requests \cap Saving)
    /\ listing' = "none" /\ rows' = {} /\ mine' = None
    /\ detail' = None /\ reads' = {}
    /\ UNCHANGED <<ways, current, places>>

Kill == screen # "off" /\ Die

-----------------------------------------------------------------------------
(* ViewController and the log-out of PlacesVC.                               *)

SignInClicked(t, u) ==
    /\ On("sign")
    /\ Send([kind |-> "login", tag |-> t, user |-> u, here |-> TRUE])
    /\ UNCHANGED <<ways, current, screen, adding, places, table, looking>>

SignUpClicked(t, u) ==
    /\ On("sign")
    /\ Send([kind |-> "signup", tag |-> t, user |-> u, here |-> TRUE])
    /\ UNCHANGED <<ways, current, screen, adding, places, table, looking>>

\* logInWithUsername succeeds: the segue is performed by a ViewController that
\* is still on the screen.  A sign-up signs in as well, and stays where it is.
UserAnswered(r) ==
    /\ r.kind \in {"login", "signup"}
    /\ current' = r.user
    /\ \/ /\ r.kind = "login" /\ r.here
          /\ ShowPlaces(requests \ {r}, None)
       \/ /\ r.kind = "signup" \/ ~r.here
          /\ requests' = requests \ {r}
          /\ UNCHANGED <<screen, table>>
    /\ UNCHANGED <<ways, adding, places, looking>>

LogoutClicked(t) ==
    /\ On("places")
    /\ Send([kind |-> "logout", tag |-> t, user |-> None, here |-> TRUE])
    /\ UNCHANGED <<ways, current, screen, adding, places, table, looking>>

\* The PlacesVC performs the segue: on top, it shows ViewController; below
\* another page of its navigation UIKit may or may not; below MapVC, or when a
\* newer PlacesVC is shown, it does not.
LogoutAnswered(r) ==
    /\ r.kind = "logout"
    /\ current' = None
    /\ \/ /\ r.here /\ screen \in {"places", "add", "detail"}
          /\ ShowSignIn(requests \ {r})
       \/ /\ ~r.here \/ screen # "places"
          /\ requests' = requests \ {r}
          /\ UNCHANGED <<screen, table, looking>>
    /\ UNCHANGED <<ways, adding, places>>

\* Every other error is an alert.  A log-out that fails on the server may have
\* ended the session of the phone.
SessionFails(r) ==
    /\ \/ r.kind \in {"login", "signup"} /\ UNCHANGED current
       \/ faulty /\ r.kind = "logout" /\ current' \in {current, None}
    /\ requests' = requests \ {r}
    /\ UNCHANGED <<ways, screen, adding, places, table, looking>>

-----------------------------------------------------------------------------
(* AddPlaceVC and MapVC.                                                     *)

AddButtonClicked ==
    /\ On("places")
    /\ screen' = "add"
    /\ UNCHANGED <<ways, current, adding, requests, places, table, looking>>

\* saveButtonClicked of AddPlaceVC, with all fields filled in: the singleton's
\* location is left as it is.
EntrySaved ==
    /\ On("add")
    /\ chosen' = FALSE
    /\ screen' = "map"
    /\ UNCHANGED <<ways, current, placeModel, requests, places, table, looking>>

\* Variant: the pin only.
WithPinOnly(s) == placeModel

\* placeLatitude and placeLongtitude
WithSpot(s) == s

\* A long press on the map.
ChooseLocation(s) ==
    /\ On("map")
    /\ placeModel' = WithSpot(s)
    /\ chosen' = TRUE
    /\ UNCHANGED <<ways, current, screen, requests, places, table, looking>>

\* saveButtonClicked of MapVC: what the singleton holds is sent, whoever put it
\* there.  Nothing keeps the button from being tapped again.
SaveClicked(t, i) ==
    /\ On("map")
    /\ careful => chosen
    /\ places[i] = None /\ \A r \in requests \cap Saving : r.id # i
    /\ Send([kind |-> "save", tag |-> t, id |-> i, spot |-> placeModel,
             here |-> TRUE])
    /\ UNCHANGED <<ways, current, screen, adding, places, table, looking>>

Stored(r) == places' = [places EXCEPT ![r.id] = r.spot]

\* Variant: the segue is not performed.
SaveAnsweredQuietly(r) ==
    /\ r.kind = "save"
    /\ Stored(r)
    /\ requests' = requests \ {r}
    /\ UNCHANGED <<ways, current, screen, adding, table, looking>>

\* Variant: the segue is performed before the server has saved.
SegueFirst(r) ==
    /\ r.kind = "save"
    /\ \/ r.here /\ ShowPlaces(requests, r.id) /\ UNCHANGED places
       \/ ~r.here /\ Stored(r) /\ requests' = requests \ {r} /\ UNCHANGED <<screen, table>>
    /\ UNCHANGED <<ways, current, adding, looking>>

\* saveInBackground succeeds: a MapVC that is still on the screen performs the
\* segue to a new PlacesVC; one that was dismissed or presents it already cannot.
SaveAnswered(r) ==
    /\ r.kind = "save"
    /\ Stored(r)
    /\ \/ r.here /\ ShowPlaces(requests \ {r}, r.id)
       \/ ~r.here /\ requests' = requests \ {r} /\ UNCHANGED <<screen, table>>
    /\ UNCHANGED <<ways, current, adding, looking>>

\* An alert; the object may have been saved nevertheless.
SaveFails(r) ==
    /\ faulty
    /\ r.kind = "save"
    /\ Stored(r) \/ UNCHANGED places
    /\ requests' = requests \ {r}
    /\ UNCHANGED <<ways, current, screen, adding, table, looking>>

\* backButtonClicked of MapVC.  AddPlaceVC has kept its fields.
BackFromMap ==
    /\ On("map")
    /\ screen' = "add"
    /\ requests' = Away(requests \cap Saving) \cup (requests \ Saving)
    /\ UNCHANGED <<ways, current, adding, places, table, looking>>

-----------------------------------------------------------------------------
(* PlacesVC and DetailVC.                                                    *)

\* What a query without a limit and an order of its own may return: all that is
\* there, or as many of it as the default limit allows, whichever they are.
Returned(ids) ==
    IF Cardinality(ids) <= Limit THEN {ids}
    ELSE {some \in SUBSET ids : Cardinality(some) = Limit}

ListAnswered ==
    /\ listing = "asked"
    /\ \/ listing' = "answered" /\ rows' \in Returned(Saved)
       \/ faulty /\ listing' = "failed" /\ UNCHANGED rows
    /\ UNCHANGED <<ways, current, screen, adding, requests, places, mine, looking>>

DidSelectRow(i) ==
    /\ On("places")
    /\ i \in rows
    /\ screen' = "detail"
    /\ detail' = i
    /\ reads' = reads \cup {[id |-> i, here |-> TRUE]}
    /\ UNCHANGED <<ways, current, adding, requests, places, table>>

\* The navigation bar's back button, of AddPlaceVC and DetailVC.
BackToList ==
    /\ On("add") \/ On("detail")
    /\ screen' = "places"
    /\ detail' = None
    /\ reads' = Away(reads)
    /\ UNCHANGED <<ways, current, adding, requests, places, table>>

\* DetailVC's query is answered, its page still shown or not: Double("")! ends
\* the process.  What the page shows otherwise is what was saved.
ReadAnswered(r) ==
    \/ places[r.id] = Empty /\ Die
    \/ /\ places[r.id] # Empty \/ faulty
       /\ reads' = reads \ {r}
       /\ UNCHANGED <<ways, current, screen, adding, requests, places, table, detail>>

Next ==
    \/ Launch \/ Kill
    \/ \E t \in Tags, u \in Users : SignInClicked(t, u) \/ SignUpClicked(t, u)
    \/ \E t \in Tags : LogoutClicked(t)
    \/ \E r \in requests :
          \/ UserAnswered(r) \/ LogoutAnswered(r) \/ SessionFails(r)
          \/ SaveAnswered(r) \/ SaveFails(r)
    \/ AddButtonClicked
    \/ EntrySaved
    \/ \E s \in Spots : ChooseLocation(s)
    \/ \E t \in Tags, i \in Ids : SaveClicked(t, i)
    \/ BackFromMap \/ BackToList
    \/ ListAnswered
    \/ \E i \in rows : DidSelectRow(i)
    \/ \E r \in reads : ReadAnswered(r)

\* The server answers.  The user need not do anything.
Spec ==
    /\ Init /\ [][Next]_vars
    /\ \A t \in Tags : WF_vars(\E r \in requests : r.tag = t /\ (SaveAnswered(r) \/ SaveFails(r)))

-----------------------------------------------------------------------------
\* For a user who always chooses a location no page of a place ends the process
\* for want of one (DetailVC.swift 48, 51): the singleton is shared by all MapVCs
\* and read when Save is tapped, and what it held then is met again in lists and
\* pages, after launches too.
DetailCanOpen ==
    careful => \A r \in reads : places[r.id] # Empty

\* The list that follows a save has the saved place, once it is answered, though
\* nothing ever refreshes a list: only a list that is full, at the default limit of
\* its query, can lack it (MapVC.swift 70-75, PlacesVC.swift 30, 34).
NewPlaceIsListed ==
    (mine # None /\ listing = "answered") => (mine \in rows \/ Cardinality(rows) = Limit)

\* For a patient user whose requests succeed, the places and all screens above
\* them are shown to a signed-in user only, through log-outs, kills and launches.
SignedInBehindTheList ==
    (patient /\ ~faulty /\ screen \notin {"off", "sign"}) => current # None

\* When requests succeed, Save leads away from the map, however often it is
\* tapped and whatever else is under way.
SaveLeavesMap ==
    ~faulty => ((\E r \in requests : r.kind = "save" /\ r.here) ~> screen # "map")
=============================================================================
