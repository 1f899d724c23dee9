------------------------------ MODULE EventPage ------------------------------
(* EventSearch: the page of an event in the program (ContentView.swift,      *)
(* Views/EventsView.swift, Views/Favorite.swift).  A page is opened from the *)
(* results of a search or from the list of favorites, loads as EventDetail   *)
(* says, and when its tabs are up its button saves the event or removes it,  *)
(* as Favorites says.  The user leaves it when he likes, and may open another *)
(* page, which starts from nothing; an answer that its handler cannot unwrap *)
(* ends the process, and with it the page.                                   *)
EXTENDS EventDetail, Sequences

CONSTANTS Ids, Details, NoData, NotRunning,
          NoPage  \* no page is open

ASSUME PageAssumption ==
    /\ NoPage \notin Ids
    /\ NotRunning \notin Seq([id : Ids, details : Details])
    /\ NoData \notin Seq([id : Ids, details : Details])

VARIABLES events, eventsData,
          page    \* the id of the event whose page is open

Fav == INSTANCE Favorites

favorites == <<events, eventsData>>
pageVars  == <<vars, favorites, page>>

PageTypeOK ==
    /\ TypeOK
    /\ Fav!TypeOK
    /\ page \in Ids \cup {NoPage}

PageInit == Init /\ Fav!Init /\ page = NoPage

\* The @State of a page goes with it; what it still waits for shows nowhere.
Leave ==
    /\ page' = NoPage
    /\ phase' = "fresh" /\ genre' = "unknown" /\ artists' = 0 /\ cnt' = 0 /\ asked' = {}
    /\ details' = {} /\ albums' = {}
    /\ venue' = FALSE /\ isSugLoading' = TRUE /\ isShowTab' = FALSE
    /\ venueAsked' = 0
    /\ UNCHANGED faulty

Launch == Fav!Launch /\ Leave
Kill   == Fav!Kill /\ Leave

\* EventDetail(event: ..., isSugLoading: true), from a link of either list.
Open(id) ==
    /\ events # NotRunning /\ page = NoPage
    /\ page' = id
    /\ UNCHANGED <<vars, favorites>>

Back ==
    /\ events # NotRunning /\ page # NoPage
    /\ Leave
    /\ UNCHANGED favorites

\* A step of the page; when it crashes the process is gone.
Loads(step) ==
    /\ page # NoPage
    /\ step
    /\ events' = IF phase' = "crashed" THEN NotRunning ELSE events
    /\ UNCHANGED <<eventsData, page>>

\* The button among the tabs; what is saved besides the id comes from the list
\* and from the page.
Tap ==
    /\ page # NoPage /\ isShowTab
    /\ \E d \in Details : LET e == [id |-> page, details |-> d]
                          IN  Fav!AddFavorite(e) \/ Fav!RemoveFavorite(e)
    /\ UNCHANGED <<vars, page>>

\* The list of favorites is on the screen when no page is.
Swipe ==
    /\ page = NoPage
    /\ events # NotRunning /\ \E i \in DOMAIN events : Fav!RemoveRows(i)
    /\ UNCHANGED <<vars, page>>

PageNext ==
    \/ Launch \/ Kill \/ Back \/ Tap \/ Swipe
    \/ \E id \in Ids : Open(id)
    \/ Loads(Next)

PageSpec == PageInit /\ [][PageNext]_pageVars

\* The services answer every request of a page that is not left.
PageFairness ==
    /\ WF_pageVars(Loads(SpinnerAppears))
    /\ WF_pageVars(Loads(\E n \in 0 .. MaxArtists, g \in {"music", "other", "none"} :
                             EventArrives(n, g)))
    /\ \A i \in Slots : /\ WF_pageVars(Loads(ArtistArrives(i)))
                        /\ WF_pageVars(Loads(AlbumArrives(i)))
    /\ WF_pageVars(Loads(VenueArrives))
    /\ WF_pageVars(Loads(MapArrives))

FairPageSpec == PageSpec /\ PageFairness

-----------------------------------------------------------------------------
\* With services that answer, the page of an event that has something to show
\* ends on its tabs unless it is left: a genre, and an artist when it is music.
\* The counter misses no album (EventDetail.swift 40-54, 86-90).
PageCompletes == ~faulty =>
    ((genre = "other" \/ (genre = "music" /\ artists > 0)) ~> (isShowTab \/ page = NoPage))

\* No event is in the favorites twice, under whatever details it was met, on
\* whatever pages, and across launches and the crashes of pages: the guard is in
\* EventsView 146, not in EventData.addEvent.
NoEventTwice ==
    \A list \in {events, eventsData} \ {NotRunning, NoData} :
        \A i, j \in DOMAIN list : list[i].id = list[j].id => i = j

\* The favorites are a set that only the user changes, an id at a time: the button
\* of a page changes the event of that page, a swipe one of those listed, and
\* nothing changes while a page loads.  Every change is saved with it, so that a
\* process that ends at any moment, taken down by a page or not, leaves the next
\* one the same favorites (EventData.swift 18-44, Favorite.swift 14-17).
IdsOf(list) == {list[i].id : i \in DOMAIN list}
SavedIds == IdsOf(Fav!Decoded(eventsData))
HeldIds == IF events = NotRunning THEN SavedIds ELSE IdsOf(events)
OfferedIds ==
    IF events = NotRunning THEN {}
    ELSE IF page = NoPage THEN HeldIds
    ELSE IF isShowTab THEN {page} ELSE {}
Durable == INSTANCE DurableSet WITH
               place <- IF events = NotRunning THEN "off" ELSE "front",
               held <- HeldIds, kept <- SavedIds, offered <- OfferedIds, lossy <- FALSE
ImplementsSet == Durable!Spec
=============================================================================
