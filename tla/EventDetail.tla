----------------------------- MODULE EventDetail -----------------------------
(* EventSearch: the chain of requests behind the page of one event           *)
(* (Views/EventDetail.swift).  For a music event every artist is looked up,  *)
(* then the albums of each; when the last album is here the venue is asked   *)
(* for, then its place on the map, and the page changes from the spinner to  *)
(* the tabs.  Answers come in any order; an error is printed and ends its    *)
(* branch.  The five services are external.                                  *)
EXTENDS Naturals, FiniteSets

CONSTANT MaxArtists     \* bound: artists an event may have

ASSUME DetailAssumption == MaxArtists \in Nat

VARIABLES
    phase,      \* the page: "fresh", "loading", "crashed"
    genre,      \* eventDetail["genre"]: with "Music" in it, others only, or none
    artists,    \* how many artists the event has; they are 1 .. artists
    asked,      \* requests under way
    details,    \* artists whose answer has replaced the JSON() in artistsDetail
    albums,     \* artists whose element of artistsDetail has its "album"
    cnt,        \* albums received
    venue,      \* is the venue here?
    isSugLoading, isShowTab,
    faulty,     \* whether a service ever fails, or answers without the data
    venueAsked  \* history: how many times getVenue has run

vars == <<phase, genre, artists, asked, details, albums, cnt, venue, isSugLoading,
          isShowTab, faulty, venueAsked>>

Slots == 1 .. MaxArtists
Lineup == 1 .. artists
ArtistRequest(i) == [kind |-> "artist", for |-> i]
AlbumRequest(i)  == [kind |-> "album", for |-> i]
Request(k)       == [kind |-> k, for |-> 0]
Requests == [kind : {"event", "artist", "album", "venue", "map"}, for : 0 .. MaxArtists]

TypeOK ==
    /\ phase \in {"fresh", "loading", "crashed"}
    /\ genre \in {"unknown", "music", "other", "none"}
    /\ artists \in 0 .. MaxArtists
    /\ asked \in SUBSET Requests
    /\ details \in SUBSET Slots /\ albums \in SUBSET Slots
    /\ cnt \in 0 .. artists
    /\ venue \in BOOLEAN
    /\ isSugLoading \in BOOLEAN /\ isShowTab \in BOOLEAN
    /\ faulty \in BOOLEAN
    /\ venueAsked \in Nat

Init ==
    /\ phase = "fresh"
    /\ genre = "unknown"
    /\ artists = 0 /\ cnt = 0
    /\ asked = {}
    /\ details = {} /\ albums = {}
    /\ venue = FALSE
    /\ isSugLoading = TRUE /\ isShowTab = FALSE
    /\ faulty \in BOOLEAN
    /\ venueAsked = 0

\* Force-unwrapping data that is not there, or res[0] of no results.
Crash == phase' = "crashed"

\* body: the spinner appears, once, and getEventDetail runs.
SpinnerAppears ==
    /\ phase = "fresh"
    /\ phase' = "loading"
    /\ cnt' = 0
    /\ asked' = asked \cup {Request("event")}
    /\ UNCHANGED <<genre, artists, details, albums, venue, isSugLoading, isShowTab, venueAsked, faulty>>

Answers(r) == phase = "loading" /\ r \in asked

\* getVenue, run as the last thing of a handler that leaves the requests rest.
GetVenue(rest) ==
    /\ asked' = rest \cup {Request("venue")}
    /\ venueAsked' = venueAsked + 1

\* The event, with n artists and the genres of one of three kinds: with "Music"
\* among them, others only, or none at all.  Without genres, and with "Music"
\* but no artist, nothing more is asked.
EventArrives(n, g) ==
    /\ Answers(Request("event"))
    /\ LET rest == asked \ {Request("event")} IN
       /\ genre' = g
       /\ artists' = n
       /\ \/ /\ g = "music"
             /\ asked' = rest \cup {ArtistRequest(i) : i \in 1 .. n}
             /\ UNCHANGED venueAsked
          \/ g = "other" /\ GetVenue(rest)
          \/ g = "none" /\ asked' = rest /\ UNCHANGED venueAsked
    /\ UNCHANGED <<phase, details, albums, cnt, venue, isSugLoading, isShowTab, faulty>>

\* artistsDetail[idx] = artistDetail, and its albums are asked for.
ArtistArrives(i) ==
    /\ Answers(ArtistRequest(i))
    /\ details' = details \cup {i}
    /\ asked' = (asked \ {ArtistRequest(i)}) \cup {AlbumRequest(i)}
    /\ UNCHANGED <<phase, genre, artists, albums, cnt, venue, isSugLoading, isShowTab, venueAsked, faulty>>

\* Variants: one album early, for any number from there on, and never.
LastButOneAlbum(n) == n + 1 >= artists
EveryAlbum(n) == n <= artists
BeyondLastAlbum(n) == n > artists

\* if cnt == artists.count
LastAlbum(n) == n = artists

\* The albums join the detail in its place; the last of them calls getVenue.
AlbumArrives(i) ==
    /\ Answers(AlbumRequest(i))
    /\ albums' = albums \cup {i}
    /\ cnt' = cnt + 1
    /\ LET rest == asked \ {AlbumRequest(i)}
       IN  IF LastAlbum(cnt + 1) THEN GetVenue(rest)
                                 ELSE asked' = rest /\ UNCHANGED venueAsked
    /\ UNCHANGED <<phase, genre, artists, details, venue, isSugLoading, isShowTab, faulty>>

\* self.venue, then getMap
VenueArrives ==
    /\ Answers(Request("venue"))
    /\ venue' = TRUE
    /\ asked' = (asked \ {Request("venue")}) \cup {Request("map")}
    /\ UNCHANGED <<phase, genre, artists, details, albums, cnt, isSugLoading, isShowTab, venueAsked, faulty>>

MapArrives ==
    /\ Answers(Request("map"))
    /\ asked' = asked \ {Request("map")}
    /\ isSugLoading' = FALSE
    /\ isShowTab' = TRUE
    /\ UNCHANGED <<phase, genre, artists, details, albums, cnt, venue, venueAsked, faulty>>

\* .failure, or an answer without "results": printed, and the branch ends.
RequestFails(r) ==
    /\ faulty
    /\ Answers(r)
    /\ asked' = asked \ {r}
    /\ UNCHANGED <<phase, genre, artists, details, albums, cnt, venue, isSugLoading,
                   isShowTab, venueAsked, faulty>>

\* An answer that lacks what the handler unwraps: "artist" of an event, the
\* object of an artist (unwrapped when the albums come), a result of the map.
UnusableAnswer(r) ==
    /\ faulty
    /\ Answers(r)
    /\ r.kind \in {"event", "album", "map"}
    /\ Crash
    /\ UNCHANGED <<genre, artists, asked, details, albums, cnt, venue, isSugLoading,
                   isShowTab, venueAsked, faulty>>

Next ==
    \/ SpinnerAppears
    \/ \E n \in 0 .. MaxArtists, g \in {"music", "other", "none"} : EventArrives(n, g)
    \/ \E i \in Slots : ArtistArrives(i) \/ AlbumArrives(i)
    \/ VenueArrives
    \/ MapArrives
    \/ \E r \in asked : RequestFails(r) \/ UnusableAnswer(r)

Spec == Init /\ [][Next]_vars

-----------------------------------------------------------------------------
\* The page never shows an artist half loaded: when the tabs of a music event
\* are up, every artist has a detail and albums, in whatever order the answers
\* came and whatever failed (EventDetail.swift 42-47, 69, 84-90).
TabsAreComplete ==
    (isShowTab /\ genre = "music") => Lineup \subseteq details \cap albums

\* However the albums interleave and whatever fails, the venue is asked for at
\* most once (EventDetail.swift 50-51, 87-90).
VenueAskedOnce == venueAsked <= 1

=============================================================================
