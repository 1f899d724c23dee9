------------------------------ MODULE Favorites ------------------------------
(* EventSearch: the favorite events, a list in memory (Model/EventData.swift) *)
(* mirrored in AppStorage, changed from the page of an event (EventsView) and *)
(* from the list of favorites (Favorite).  The same event may be met again    *)
(* with other details: it is the id that makes it the same.                   *)
(* The steps are taken by EventPage.                                          *)
EXTENDS Naturals, Sequences

CONSTANTS Ids,       \* event ids
          Details,   \* what else is saved of an event: genre, venue, date
          NoData,    \* Data(): AppStorage before the first save
          NotRunning \* EventData when there is no process

VARIABLES events,      \* EventData.events, or NotRunning
          eventsData   \* AppStorage "events", encoded and decoded without loss

Event == [id : Ids, details : Details]

TypeOK ==
    /\ events \in Seq(Event) \cup {NotRunning}
    /\ eventsData \in Seq(Event) \cup {NoData}

Init == events = NotRunning /\ eventsData = NoData

\* EventData.init: what AppStorage holds, nothing when that does not decode.
Decoded(data) == IF data = NoData THEN <<>> ELSE data

Launch ==
    /\ events = NotRunning
    /\ events' = Decoded(eventsData)
    /\ UNCHANGED eventsData

Kill ==
    /\ events # NotRunning
    /\ events' = NotRunning
    /\ UNCHANGED eventsData

\* The list changes and saveEvents writes it out, in one handler.
Become(list) == events' = list /\ eventsData' = list

\* Variant: whole events are compared, not ids.
ContainsSame(e) == \E i \in DOMAIN events : events[i] = e

ContainsEvent(e) == \E i \in DOMAIN events : events[i].id = e.id

\* The button of EventsView: "Save Event" unless the list contains the event.
AddFavorite(e) ==
    /\ events # NotRunning
    /\ ~ContainsEvent(e)
    /\ Become(Append(events, e))

Without(list, i) == SubSeq(list, 1, i - 1) \o SubSeq(list, i + 1, Len(list))

\* "Remove From Favorite": the first element with the id of the page's event.
RemoveFavorite(e) ==
    /\ events # NotRunning
    /\ \E i \in DOMAIN events :
          /\ events[i].id = e.id /\ \A j \in 1 .. i - 1 : events[j].id # e.id
          /\ Become(Without(events, i))

\* Variant: the swipe is not written out.
RemoveRowsUnsaved(i) ==
    /\ events # NotRunning
    /\ i \in DOMAIN events
    /\ events' = Without(events, i)
    /\ UNCHANGED eventsData

\* A row of the list of favorites is swiped away.
RemoveRows(i) ==
    /\ events # NotRunning
    /\ i \in DOMAIN events
    /\ Become(Without(events, i))
=============================================================================
