--------------------------- MODULE EventSearchForm ---------------------------
(* EventSearch: the search form (Views/EventSearchForm.swift).  Its fields    *)
(* may be edited, submitted and cleared while requests are under way; none is *)
(* ever cancelled, and each answer acts on the form it finds.  The services   *)
(* that suggest, locate and search are external.                              *)
EXTENDS Naturals, FiniteSets

CONSTANTS Keywords,    \* keywords that can be typed
          Places,      \* locations that can be typed
          Here,        \* where ipinfo.io says the phone is
          Empty,       \* the empty string, and no list of events
          MaxSent      \* bound: requests the user causes

ASSUME FormAssumption ==
    /\ Empty \notin Keywords \cup Places \cup {Here}
    /\ MaxSent \in Nat

VARIABLES
    keyword, distance, location, autoDetect,           \* the fields
    isSheetPresented, isSugLoading, showSuggestions,   \* the sheet of suggestions
    suggestions,   \* the keyword the suggestions are for, or Empty
    resultsReady, isLoading, emptyDisplay, eventsDisplay,   \* the results section
    events,        \* the search whose events are held, or Empty
    requests,      \* requests under way
    sent,          \* requests caused so far
    patient,       \* whether the user always waits for what is under way
    faulty,        \* whether a service ever fails, or answers without the data
    submitted      \* history: the search last submitted, or Empty

fields == <<keyword, distance, location, autoDetect>>
sheet  == <<isSheetPresented, isSugLoading, showSuggestions, suggestions>>
flags  == <<resultsReady, isLoading, emptyDisplay, eventsDisplay>>
ways   == <<patient, faulty>>
vars == <<fields, sheet, flags, events, requests, sent, ways, submitted>>

Search  == [keyword : Keywords \cup {Empty}, place : Places \cup {Here}]
Request == [kind : {"suggest", "ip", "geocode", "search"}, n : 1 .. MaxSent,
            keyword : Keywords \cup {Empty}, place : Places \cup {Here, Empty}]

TypeOK ==
    /\ keyword \in Keywords \cup {Empty} /\ distance \in {"10", Empty}
    /\ location \in Places \cup {Empty} /\ autoDetect \in BOOLEAN
    /\ isSheetPresented \in BOOLEAN /\ isSugLoading \in BOOLEAN
    /\ showSuggestions \in BOOLEAN /\ suggestions \in Keywords \cup {Empty}
    /\ resultsReady \in BOOLEAN /\ isLoading \in BOOLEAN
    /\ emptyDisplay \in BOOLEAN /\ eventsDisplay \in BOOLEAN
    /\ events \in Search \cup {Empty}
    /\ requests \in SUBSET Request
    /\ \A r \in requests : r.kind # "suggest" => r.place # Empty
    /\ sent \in 0 .. MaxSent
    /\ patient \in BOOLEAN /\ faulty \in BOOLEAN
    /\ submitted \in Search \cup {Empty}

Init ==
    /\ keyword = Empty /\ distance = "10" /\ location = Empty /\ autoDetect = FALSE
    /\ isSheetPresented = FALSE /\ isSugLoading = TRUE
    /\ showSuggestions = FALSE /\ suggestions = Empty
    /\ resultsReady = FALSE /\ isLoading = FALSE
    /\ emptyDisplay = FALSE /\ eventsDisplay = FALSE
    /\ events = Empty /\ requests = {} /\ sent = 0 /\ submitted = Empty
    /\ patient \in BOOLEAN /\ faulty \in BOOLEAN

\* The form can be touched when the sheet does not cover it.
Reachable == ~isSheetPresented /\ (patient => requests = {})

Send(kind, k, p) ==
    /\ sent < MaxSent
    /\ sent' = sent + 1
    /\ requests' = requests \cup {[kind |-> kind, n |-> sent + 1, keyword |-> k, place |-> p]}

-----------------------------------------------------------------------------
(* The fields.                                                                *)

TypeKeyword(k) ==
    /\ Reachable
    /\ keyword' = k
    /\ UNCHANGED <<distance, location, autoDetect, sheet, flags, events, requests,
                   sent, submitted, ways>>

TypeDistance(x) ==
    /\ Reachable
    /\ distance' = x
    /\ UNCHANGED <<keyword, location, autoDetect, sheet, flags, events, requests,
                   sent, submitted, ways>>

TypeLocation(p) ==
    /\ Reachable /\ ~autoDetect
    /\ location' = p
    /\ UNCHANGED <<keyword, distance, autoDetect, sheet, flags, events, requests,
                   sent, submitted, ways>>

\* Switching off empties the location.
Toggle ==
    /\ Reachable
    /\ autoDetect' = ~autoDetect
    /\ location' = IF autoDetect THEN Empty ELSE location
    /\ UNCHANGED <<keyword, distance, sheet, flags, events, requests, sent, submitted, ways>>

-----------------------------------------------------------------------------
(* The sheet of suggestions.                                                  *)

\* onSubmit of the keyword, with getSuggestions
KeywordEntered ==
    /\ Reachable
    /\ isSheetPresented' = TRUE
    /\ suggestions' = Empty
    /\ Send("suggest", keyword, Empty)
    /\ UNCHANGED <<fields, isSugLoading, showSuggestions, flags, events, submitted, ways>>

SuggestionsArrive(r) ==
    /\ r \in requests /\ r.kind = "suggest"
    /\ isSugLoading' = FALSE
    /\ showSuggestions' = TRUE
    /\ suggestions' = r.keyword
    /\ requests' = requests \ {r}
    /\ UNCHANGED <<fields, isSheetPresented, flags, events, sent, submitted, ways>>

SuggestionTapped(k) ==
    /\ isSheetPresented /\ showSuggestions /\ suggestions # Empty
    /\ isSugLoading' = TRUE
    /\ isSheetPresented' = FALSE
    /\ showSuggestions' = FALSE
    /\ keyword' = k
    /\ UNCHANGED <<distance, location, autoDetect, suggestions, flags, events,
                   requests, sent, submitted, ways>>

\* The sheet is pulled down.
SheetDismissed ==
    /\ isSheetPresented
    /\ isSheetPresented' = FALSE
    /\ UNCHANGED <<fields, isSugLoading, showSuggestions, suggestions, flags, events,
                   requests, sent, submitted, ways>>

-----------------------------------------------------------------------------
(* Submit, Clear and the search.                                              *)

IsSubmit == keyword # Empty /\ distance # Empty /\ (location # Empty \/ autoDetect)

\* Variant: the list of the last search stays.
OnClickSubmitKeepingEvents ==
    /\ Reachable
    /\ IsSubmit
    /\ resultsReady' = TRUE /\ isLoading' = TRUE
    /\ emptyDisplay' = FALSE /\ UNCHANGED eventsDisplay
    /\ IF autoDetect THEN Send("ip", Empty, Here) ELSE Send("geocode", Empty, location)
    /\ submitted' = [keyword |-> keyword, place |-> IF autoDetect THEN Here ELSE location]
    /\ UNCHANGED <<fields, sheet, events, ways>>

\* onClickSubmit, with getIPInfo or getGeocode
OnClickSubmit ==
    /\ Reachable
    /\ IsSubmit
    /\ resultsReady' = TRUE /\ isLoading' = TRUE
    /\ emptyDisplay' = FALSE /\ eventsDisplay' = FALSE
    /\ IF autoDetect THEN Send("ip", Empty, Here) ELSE Send("geocode", Empty, location)
    /\ submitted' = [keyword |-> keyword, place |-> IF autoDetect THEN Here ELSE location]
    /\ UNCHANGED <<fields, sheet, events, ways>>

\* Variant: the header stays.
ClearKeepingHeader ==
    /\ Reachable
    /\ keyword' = Empty /\ distance' = "10" /\ location' = Empty /\ autoDetect' = FALSE
    /\ isSheetPresented' = FALSE /\ isSugLoading' = TRUE /\ showSuggestions' = FALSE
    /\ isLoading' = FALSE /\ emptyDisplay' = FALSE /\ eventsDisplay' = FALSE
    /\ UNCHANGED <<resultsReady, suggestions, events, requests, sent, submitted, ways>>

Clear ==
    /\ Reachable
    /\ keyword' = Empty /\ distance' = "10" /\ location' = Empty /\ autoDetect' = FALSE
    /\ isSheetPresented' = FALSE /\ isSugLoading' = TRUE /\ showSuggestions' = FALSE
    /\ resultsReady' = FALSE /\ isLoading' = FALSE
    /\ emptyDisplay' = FALSE /\ eventsDisplay' = FALSE
    /\ UNCHANGED <<suggestions, events, requests, sent, submitted, ways>>

\* Variants: one display is left on; the spinner is.
ShowOverEmpty == isLoading' = FALSE /\ eventsDisplay' = TRUE /\ UNCHANGED emptyDisplay
ShowEmptyStillLoading ==
    UNCHANGED isLoading /\ eventsDisplay' = FALSE /\ emptyDisplay' = TRUE

ShowEmpty == isLoading' = FALSE /\ eventsDisplay' = FALSE /\ emptyDisplay' = TRUE
Show      == isLoading' = FALSE /\ eventsDisplay' = TRUE /\ emptyDisplay' = FALSE

\* The place is known: search reads the keyword the form has now.
PlaceFound(r) ==
    /\ r \in requests /\ r.kind \in {"ip", "geocode"}
    /\ requests' = (requests \ {r}) \cup {[r EXCEPT !.kind = "search", !.keyword = keyword]}
    /\ UNCHANGED <<fields, sheet, flags, events, sent, submitted, ways>>

\* The geocoder answers without results.
PlaceUnknown(r) ==
    /\ r \in requests /\ r.kind = "geocode"
    /\ requests' = requests \ {r}
    /\ ShowEmpty
    /\ UNCHANGED <<fields, sheet, resultsReady, events, sent, submitted, ways>>

SearchFindsNone(r) ==
    /\ r \in requests /\ r.kind = "search"
    /\ requests' = requests \ {r}
    /\ ShowEmpty
    /\ UNCHANGED <<fields, sheet, resultsReady, events, sent, submitted, ways>>

SearchFinds(r) ==
    /\ r \in requests /\ r.kind = "search"
    /\ requests' = requests \ {r}
    /\ events' = [keyword |-> r.keyword, place |-> r.place]
    /\ Show
    /\ UNCHANGED <<fields, sheet, resultsReady, sent, submitted, ways>>

\* An error, or an answer without the data: printed.
RequestFails(r) ==
    /\ faulty
    /\ r \in requests
    /\ requests' = requests \ {r}
    /\ UNCHANGED <<fields, sheet, flags, events, sent, submitted, ways>>

-----------------------------------------------------------------------------
UserNext ==
    \/ \E k \in Keywords \cup {Empty} : TypeKeyword(k)
    \/ \E x \in {"10", Empty} : TypeDistance(x)
    \/ \E p \in Places \cup {Empty} : TypeLocation(p)
    \/ Toggle
    \/ KeywordEntered
    \/ \E k \in Keywords : SuggestionTapped(k)
    \/ SheetDismissed
    \/ OnClickSubmit
    \/ Clear

AnswerNext(r) ==
    \/ SuggestionsArrive(r)
    \/ PlaceFound(r)
    \/ PlaceUnknown(r)
    \/ SearchFindsNone(r)
    \/ SearchFinds(r)

Next == UserNext \/ \E r \in requests : AnswerNext(r) \/ RequestFails(r)

Spec == Init /\ [][Next]_vars

\* Every service answers.
Fairness == \A r \in Request : WF_vars(r \in requests /\ AnswerNext(r))

FairSpec == Spec /\ Fairness

-----------------------------------------------------------------------------
\* The results section shows one thing at a time: spinner, "No result" and the
\* list exclude each other whatever is submitted again, cleared or answered
\* late (EventSearchForm.swift 57-60, 172-182).
OneDisplay ==
    Cardinality({f \in {"loading", "empty", "events"} :
        CASE f = "loading" -> isLoading
          [] f = "empty"   -> emptyDisplay
          [] f = "events"  -> eventsDisplay}) <= 1

\* For a user who waits, the events on the screen are those of the search that
\* was submitted, though the keyword is read again when the place is known
\* (EventSearchForm.swift 97, 127, 142-148).
EventsAreThoseSubmitted == patient /\ eventsDisplay => events = submitted

\* For a user who waits, the results section behaves as a SearchPanel: its
\* header is there exactly when it has something to show, and an outcome
\* follows the spinner only.
Outcome == isLoading \/ emptyDisplay \/ eventsDisplay
Shown == IF ~patient \/ ~(resultsReady \/ Outcome) THEN "idle"
         ELSE IF ~(resultsReady /\ Outcome) THEN "broken"
         ELSE IF isLoading THEN "loading"
         ELSE IF emptyDisplay THEN "empty"
         ELSE "results"
Panel == INSTANCE SearchPanel WITH panel <- Shown
ImplementsPanel == Panel!Spec

\* With services that answer, the spinner goes, however often the form is
\* submitted, edited or cleared meanwhile (EventSearchForm.swift 120, 154-158).
LoadingEnds == ~faulty => (isLoading ~> ~isLoading)
=============================================================================
