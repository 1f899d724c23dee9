------------------------ MODULE EventSearchFormProofs ------------------------
(* The search form for any keywords, places and number of requests: its types, *)
(* one display at a time, and for a user who waits the section that shows what *)
(* was submitted and behaves as a SearchPanel.  No spinner turns without a     *)
(* request.                                                                    *)
EXTENDS EventSearchForm, FiniteSetTheorems, TLAPS

\* Spinner, "No result" and list exclude one another.
Apart ==
    /\ ~(isLoading /\ emptyDisplay)
    /\ ~(isLoading /\ eventsDisplay)
    /\ ~(emptyDisplay /\ eventsDisplay)

\* A user who waits has one request under way at most; when it belongs to a
\* search, form and spinner are as the submit left them, and the request is for
\* what was submitted.
Serves(r) ==
    /\ resultsReady /\ isLoading /\ ~isSheetPresented
    /\ submitted \in Search
    /\ r.place = submitted.place /\ keyword = submitted.keyword
    /\ r.kind = "search" => r.keyword = submitted.keyword

Patience == patient =>
    /\ \A r, s \in requests : r = s
    /\ \A r \in requests : r.kind # "suggest" => Serves(r)
    /\ (isLoading \/ emptyDisplay \/ eventsDisplay) <=> resultsReady
    /\ eventsDisplay => events = submitted

IInv == TypeOK /\ Apart /\ Patience

-----------------------------------------------------------------------------
\* An empty form with nothing under way.
LEMMA InitIInv == Init => IInv
  <1> SUFFICES ASSUME Init PROVE IInv
    OBVIOUS
  <1>1. TypeOK
    <2>1. 0 \in 0 .. MaxSent /\ {} \in SUBSET Request
      BY FormAssumption DEF FormAssumption
    <2> QED  BY <2>1, Zenon DEF Init, TypeOK
  <1>2. Apart /\ Patience
    BY DEF Init, Apart, Patience
  <1> QED  BY <1>1, <1>2 DEF IInv

\* A request that is sent has a type, and is the only one when there was none.
LEMMA SendsOne ==
    ASSUME NEW kind \in {"suggest", "ip", "geocode"}, NEW k \in Keywords \cup {Empty},
           NEW p \in Places \cup {Here, Empty}, TypeOK, Send(kind, k, p),
           kind # "suggest" => p # Empty
    PROVE  /\ requests' \in SUBSET Request /\ sent' \in 0 .. MaxSent
           /\ \A r \in requests' : r.kind # "suggest" => r.place # Empty
           /\ \A r \in requests' : r \in requests \/ (r.kind = kind /\ r.keyword = k /\ r.place = p)
           /\ requests = {} => \A r, s \in requests' : r = s
  <1> DEFINE new == [kind |-> kind, n |-> sent + 1, keyword |-> k, place |-> p]
  <1>1. new \in Request /\ sent' \in 0 .. MaxSent /\ requests' = requests \cup {new}
    BY FormAssumption DEF TypeOK, Send, Request, FormAssumption
  <1>2. new.kind = kind /\ new.keyword = k /\ new.place = p
    OBVIOUS
  <1> HIDE DEF new
  <1> QED  BY <1>1, <1>2 DEF TypeOK

\* The user edits the form, or its sheet.
LEMMA Edits ==
    ASSUME IInv,
           \/ \E k \in Keywords \cup {Empty} : TypeKeyword(k)
           \/ \E x \in {"10", Empty} : TypeDistance(x)
           \/ \E p \in Places \cup {Empty} : TypeLocation(p)
           \/ Toggle
           \/ \E k \in Keywords : SuggestionTapped(k)
           \/ SheetDismissed
           \/ Clear
    PROVE  IInv'
  <1> USE DEF IInv
  <1>1. ASSUME NEW k \in Keywords \cup {Empty}, TypeKeyword(k) PROVE IInv'
    <2>1. TypeOK' /\ Apart'  BY <1>1 DEF TypeKeyword, TypeOK, Apart, flags, ways, sheet
    <2>2. Patience'
      BY <1>1 DEF TypeKeyword, Reachable, Patience, Serves, flags, ways, sheet
    <2> QED  BY <2>1, <2>2
  <1>2. ASSUME NEW x \in {"10", Empty}, TypeDistance(x) PROVE IInv'
    <2>1. TypeOK' /\ Apart'  BY <1>2 DEF TypeDistance, TypeOK, Apart, flags, ways, sheet
    <2>2. Patience'
      BY <1>2 DEF TypeDistance, Patience, Serves, flags, ways, sheet
    <2> QED  BY <2>1, <2>2
  <1>3. ASSUME NEW p \in Places \cup {Empty}, TypeLocation(p) PROVE IInv'
    <2>1. TypeOK' /\ Apart'  BY <1>3 DEF TypeLocation, TypeOK, Apart, flags, ways, sheet
    <2>2. Patience'
      BY <1>3 DEF TypeLocation, Patience, Serves, flags, ways, sheet
    <2> QED  BY <2>1, <2>2
  <1>4. CASE Toggle
    <2>1. TypeOK' /\ Apart'  BY <1>4 DEF Toggle, TypeOK, Apart, flags, ways, sheet
    <2>2. Patience'
      BY <1>4 DEF Toggle, Patience, Serves, flags, ways, sheet
    <2> QED  BY <2>1, <2>2
  <1>5. ASSUME NEW k \in Keywords, SuggestionTapped(k) PROVE IInv'
    <2>1. TypeOK' /\ Apart'  BY <1>5 DEF SuggestionTapped, TypeOK, Apart, flags, ways
    <2>2. Patience'
      BY <1>5 DEF SuggestionTapped, Patience, Serves, flags, ways
    <2> QED  BY <2>1, <2>2
  <1>6. CASE SheetDismissed
    <2>0. isSheetPresented' \in BOOLEAN
      BY <1>6 DEF SheetDismissed
    <2>1. TypeOK' /\ Apart'
      BY <1>6, <2>0 DEF SheetDismissed, TypeOK, Apart, flags, ways, fields
    <2>2. Patience'
      BY <1>6 DEF SheetDismissed, Patience, Serves, flags, ways, fields
    <2> QED  BY <2>1, <2>2
  <1>7. CASE Clear
    <2>0. /\ isLoading' \in BOOLEAN /\ eventsDisplay' \in BOOLEAN /\ emptyDisplay' \in BOOLEAN
          /\ resultsReady' \in BOOLEAN /\ autoDetect' \in BOOLEAN /\ isSheetPresented' \in BOOLEAN
          /\ isSugLoading' \in BOOLEAN /\ showSuggestions' \in BOOLEAN
          /\ ~isLoading' /\ ~eventsDisplay' /\ ~emptyDisplay'
          /\ keyword' = Empty /\ distance' = "10" /\ location' = Empty
          /\ UNCHANGED <<suggestions, events, requests, sent, submitted, ways>>
      BY <1>7 DEF Clear
    <2>1. TypeOK' /\ Apart'  BY <2>0 DEF TypeOK, Apart, ways
    <2>2. Patience'
      BY <1>7 DEF Clear, Reachable, Patience, Serves, ways
    <2> QED  BY <2>1, <2>2
  <1> QED  BY <1>1, <1>2, <1>3, <1>4, <1>5, <1>6, <1>7

\* The user asks for suggestions, or submits.
LEMMA Asks == ASSUME IInv, KeywordEntered \/ OnClickSubmit PROVE IInv'
  <1> USE DEF IInv
  <1>1. CASE KeywordEntered
    <2>1. keyword \in Keywords \cup {Empty} /\ Send("suggest", keyword, Empty)
      BY <1>1 DEF KeywordEntered, TypeOK
    <2>2. /\ requests' \in SUBSET Request /\ sent' \in 0 .. MaxSent
          /\ \A r \in requests' : r.kind # "suggest" => r.place # Empty
          /\ \A r \in requests' : r \in requests \/ r.kind = "suggest"
          /\ requests = {} => \A r, s \in requests' : r = s
      BY <2>1, SendsOne
    <2>3. TypeOK' /\ Apart'
      BY <1>1, <2>2 DEF KeywordEntered, TypeOK, Apart, fields, flags, ways
    <2>4. Patience'
      BY <1>1, <2>2 DEF KeywordEntered, Reachable, Patience, fields, flags, ways
    <2> QED  BY <2>3, <2>4
  <1>2. CASE OnClickSubmit
    <2> DEFINE kind == IF autoDetect THEN "ip" ELSE "geocode"
               place == IF autoDetect THEN Here ELSE location
    <2>1. /\ Send(kind, Empty, place) /\ kind # "suggest" /\ kind \in {"suggest", "ip", "geocode"}
          /\ place \in Places \cup {Here} /\ place # Empty /\ keyword \in Keywords
          /\ submitted' = [keyword |-> keyword, place |-> place]
      BY <1>2, FormAssumption DEF OnClickSubmit, IsSubmit, TypeOK, FormAssumption
    <2> HIDE DEF kind, place
    <2>2. /\ requests' \in SUBSET Request /\ sent' \in 0 .. MaxSent
          /\ \A r \in requests' : r.kind # "suggest" => r.place # Empty
          /\ \A r \in requests' : r \in requests \/ (r.kind = kind /\ r.place = place)
          /\ requests = {} => \A r, s \in requests' : r = s
      BY <2>1, SendsOne
    <2>3. submitted' \in Search
      BY <2>1 DEF Search
    <2>0. /\ isLoading' \in BOOLEAN /\ eventsDisplay' \in BOOLEAN /\ emptyDisplay' \in BOOLEAN
          /\ resultsReady' \in BOOLEAN /\ ~eventsDisplay' /\ ~emptyDisplay'
          /\ UNCHANGED <<fields, sheet, events, ways>>
      BY <1>2 DEF OnClickSubmit
    <2>4. TypeOK' /\ Apart'
      BY <2>0, <2>2, <2>3 DEF TypeOK, Apart, fields, sheet, ways
    <2>5. Patience'
      BY <1>2, <2>1, <2>2, <2>3 DEF OnClickSubmit, Reachable, Patience, Serves, fields, sheet, ways
    <2> QED  BY <2>4, <2>5
  <1> QED  BY <1>1, <1>2

\* A request is answered, or fails.
LEMMA Answered ==
    ASSUME IInv, NEW r \in requests, AnswerNext(r) \/ RequestFails(r)
    PROVE  IInv'
  <1> USE DEF IInv
  <1>0. r \in Request /\ (r.kind # "suggest" => r.place # Empty)
    BY DEF TypeOK
  <1>1. CASE SuggestionsArrive(r)
    <2>1. r.keyword \in Keywords \cup {Empty}
      BY <1>0 DEF Request
    <2>0. isSugLoading' \in BOOLEAN /\ showSuggestions' \in BOOLEAN
      BY <1>1 DEF SuggestionsArrive
    <2>2. TypeOK' /\ Apart'
      BY <1>1, <2>0, <2>1 DEF SuggestionsArrive, TypeOK, Apart, fields, flags, ways
    <2>3. Patience'
      BY <1>1 DEF SuggestionsArrive, Patience, Serves, fields, flags, ways
    <2> QED  BY <2>2, <2>3
  <1>2. CASE PlaceFound(r)
    <2> DEFINE q == [r EXCEPT !.kind = "search", !.keyword = keyword]
    <2>1. /\ q \in Request /\ q.kind = "search" /\ q.keyword = keyword /\ q.place = r.place
          /\ r.kind # "suggest"
      BY <1>0, <1>2 DEF PlaceFound, Request, TypeOK
    <2>2. requests' = (requests \ {r}) \cup {q}
      BY <1>2 DEF PlaceFound
    <2> HIDE DEF q
    <2>3. TypeOK' /\ Apart'
      BY <1>0, <1>2, <2>1, <2>2 DEF PlaceFound, TypeOK, Apart, fields, sheet, flags, ways
    <2>4. Patience'
      <3>1. UNCHANGED <<keyword, sheet, flags, events, submitted, ways>>
        BY <1>2 DEF PlaceFound, fields
      <3>2. CASE patient
        <4>1. Serves(r) /\ \A s \in requests : s = r
          BY <2>1, <3>2 DEF Patience
        <4>2. requests' = {q}
          BY <2>2, <4>1
        <4> QED  BY <2>1, <3>1, <4>1, <4>2 DEF Patience, Serves, sheet, flags, ways
      <3> QED  BY <3>1, <3>2 DEF Patience, ways
    <2> QED  BY <2>3, <2>4
  <1>3. CASE PlaceUnknown(r) \/ SearchFindsNone(r)
    <2>0. /\ isLoading' \in BOOLEAN /\ eventsDisplay' \in BOOLEAN /\ emptyDisplay' \in BOOLEAN
          /\ ~isLoading' /\ ~eventsDisplay'
          /\ requests' = requests \ {r}
          /\ UNCHANGED <<fields, sheet, resultsReady, events, sent, submitted, ways>>
      BY <1>3 DEF PlaceUnknown, SearchFindsNone, ShowEmpty
    <2>1. TypeOK' /\ Apart'
      BY <2>0 DEF TypeOK, Apart, fields, sheet, ways
    <2>2. emptyDisplay' /\ r.kind # "suggest"
      BY <1>3 DEF PlaceUnknown, SearchFindsNone, ShowEmpty
    <2>3. Patience'
      <3>1. CASE patient
        <4>1. Serves(r) /\ \A s \in requests : s = r
          BY <2>2, <3>1 DEF Patience
        <4>2. requests' = {} /\ resultsReady' /\ ~eventsDisplay' /\ emptyDisplay'
          BY <2>0, <2>2, <4>1 DEF Serves
        <4> QED  BY <4>2 DEF Patience
      <3> QED  BY <2>0, <3>1 DEF Patience, ways
    <2> QED  BY <2>1, <2>3
  <1>4. CASE SearchFinds(r)
    <2>1. events' \in Search
      BY <1>0, <1>4 DEF SearchFinds, Request, Search
    <2>0. /\ isLoading' \in BOOLEAN /\ eventsDisplay' \in BOOLEAN /\ emptyDisplay' \in BOOLEAN
          /\ ~isLoading' /\ ~emptyDisplay'
          /\ requests' = requests \ {r}
          /\ UNCHANGED <<fields, sheet, resultsReady, sent, submitted, ways>>
      BY <1>4 DEF SearchFinds, Show
    <2>2. TypeOK' /\ Apart'
      BY <2>0, <2>1 DEF TypeOK, Apart, fields, sheet, ways
    <2>3. patient => events' = submitted
      BY <1>4 DEF SearchFinds, Patience, Serves, Search
    <2>4. Patience'
      BY <1>4, <2>3 DEF SearchFinds, Show, Patience, Serves, fields, sheet, ways
    <2> QED  BY <2>2, <2>4
  <1>5. CASE RequestFails(r)
    <2>1. TypeOK' /\ Apart'
      BY <1>5 DEF RequestFails, TypeOK, Apart, fields, sheet, flags, ways
    <2>2. Patience'
      BY <1>5 DEF RequestFails, Patience, Serves, fields, sheet, flags, ways
    <2> QED  BY <2>1, <2>2
  <1> QED  BY <1>1, <1>2, <1>3, <1>4, <1>5 DEF AnswerNext

LEMMA NextIInv == IInv /\ [Next]_vars => IInv'
  <1> SUFFICES ASSUME IInv, [Next]_vars PROVE IInv'
    OBVIOUS
  <1>1. ASSUME UserNext PROVE IInv'
    BY <1>1, Edits, Asks DEF UserNext
  <1>2. ASSUME NEW r \in requests, AnswerNext(r) \/ RequestFails(r) PROVE IInv'
    BY <1>2, Answered
  <1>3. CASE UNCHANGED vars
    BY <1>3 DEF IInv, TypeOK, Apart, Patience, Serves, vars, fields, sheet, flags, ways
  <1> QED  BY <1>1, <1>2, <1>3 DEF Next

LEMMA Invariance == Spec => []IInv
  BY InitIInv, NextIInv, PTL DEF Spec

-----------------------------------------------------------------------------
\* Every variable keeps its type; only a form with a place sends a search
\* (EventSearchForm.swift 13-31, 33-35).
THEOREM TypeCorrect == Spec => []TypeOK
  <1>1. IInv => TypeOK  BY DEF IInv
  <1> QED  BY <1>1, Invariance, PTL

\* Whatever is submitted again, cleared or answered late, the results section
\* shows one thing at a time (EventSearchForm.swift 57-60, 172-182).
THEOREM OneAtATime == Spec => []OneDisplay
  <1>1. IInv => OneDisplay
    <2> SUFFICES ASSUME Apart PROVE OneDisplay
      BY DEF IInv
    <2> DEFINE shown == {f \in {"loading", "empty", "events"} :
                           CASE f = "loading" -> isLoading
                             [] f = "empty"   -> emptyDisplay
                             [] f = "events"  -> eventsDisplay}
    <2>1. \E f \in {"loading", "empty", "events"} : shown \subseteq {f}
      BY DEF Apart
    <2>2. PICK f : shown \subseteq {f}
      BY <2>1
    <2> HIDE DEF shown
    <2>3. IsFiniteSet({f}) /\ Cardinality({f}) = 1
      BY FS_Singleton
    <2>4. Cardinality(shown) <= 1
      BY <2>2, <2>3, FS_Subset
    <2> QED  BY <2>4 DEF OneDisplay, shown
  <1> QED  BY <1>1, Invariance, PTL

\* For a user who waits, the list is that of the search he submitted
\* (EventSearchForm.swift 97, 127, 142-148).
THEOREM OnlyWhatWasSubmitted == Spec => []EventsAreThoseSubmitted
  <1>1. IInv => EventsAreThoseSubmitted
    BY DEF IInv, Patience, EventsAreThoseSubmitted
  <1> QED  BY <1>1, Invariance, PTL

\* What the section shows, by its flags, is not changed by a step that leaves
\* them alone.
LEMMA SameFlags == ASSUME UNCHANGED <<flags, patient>> PROVE UNCHANGED Shown
  BY DEF flags, Shown, Outcome

\* Every step of the form is one of the panel, or none.
LEMMA StepOfThePanel == IInv /\ IInv' /\ [Next]_vars => [Panel!Next]_Shown
  <1> SUFFICES ASSUME IInv, IInv', [Next]_vars PROVE Panel!Next \/ UNCHANGED Shown
    OBVIOUS
  <1>0. CASE ~patient
    <2>1. patient' = patient
      BY DEF Next, UserNext, AnswerNext, vars, ways, TypeKeyword, TypeDistance, TypeLocation, Toggle,
             KeywordEntered, SuggestionTapped, SheetDismissed, OnClickSubmit, Clear,
             SuggestionsArrive, PlaceFound, PlaceUnknown, SearchFindsNone, SearchFinds, RequestFails
    <2> QED  BY <1>0, <2>1 DEF Shown, Outcome
  <1>1. CASE patient
    <2>1. CASE OnClickSubmit
      <3>1. patient' /\ resultsReady' /\ isLoading'
        BY <1>1, <2>1 DEF OnClickSubmit, ways
      <3>2. Shown' = "loading"
        BY <3>1 DEF Shown, Outcome
      <3> QED  BY <3>2 DEF Panel!Next, Panel!Submit
    <2>2. CASE Clear
      <3>1. patient' /\ ~resultsReady' /\ ~isLoading' /\ ~emptyDisplay' /\ ~eventsDisplay'
        BY <1>1, <2>2 DEF Clear, ways
      <3>2. Shown' = "idle"
        BY <3>1 DEF Shown, Outcome
      <3> QED  BY <3>2 DEF Panel!Next, Panel!Clear
    <2>3. ASSUME NEW r \in requests, PlaceUnknown(r) \/ SearchFindsNone(r) \/ SearchFinds(r)
          PROVE  Panel!Next
      <3>1. Serves(r)
        BY <1>1, <2>3 DEF IInv, Patience, PlaceUnknown, SearchFindsNone, SearchFinds
      <3>2. Shown = "loading"
        BY <1>1, <3>1 DEF Serves, Shown, Outcome
      <3>3. patient' /\ resultsReady' /\ ~isLoading' /\ (emptyDisplay' \/ eventsDisplay')
        BY <1>1, <2>3, <3>1
           DEF Serves, PlaceUnknown, SearchFindsNone, SearchFinds, ShowEmpty, Show, ways
      <3>4. Shown' \in {"empty", "results"}
        BY <3>3 DEF Shown, Outcome
      <3> QED  BY <3>2, <3>4 DEF Panel!Next, Panel!Answer
    <2>4. CASE UNCHANGED <<flags, patient>>
      BY <2>4, SameFlags
    <2>5. \/ OnClickSubmit \/ Clear \/ UNCHANGED <<flags, patient>>
          \/ \E r \in requests : PlaceUnknown(r) \/ SearchFindsNone(r) \/ SearchFinds(r)
      BY DEF Next, UserNext, AnswerNext, vars, ways, TypeKeyword, TypeDistance, TypeLocation, Toggle,
             KeywordEntered, SuggestionTapped, SheetDismissed, SuggestionsArrive, PlaceFound,
             RequestFails
    <2> QED  BY <2>1, <2>2, <2>3, <2>4, <2>5
  <1> QED  BY <1>0, <1>1

\* For a user who waits the results section is a SearchPanel: an outcome follows
\* the spinner only (EventSearchForm.swift 55-86, 172-182).
THEOREM IsAPanel == Spec => ImplementsPanel
  <1>1. Init => Panel!Init
    BY DEF Init, Panel!Init, Shown, Outcome
  <1>2. IInv /\ IInv' /\ [Next]_vars => [Panel!Next]_Shown
    BY StepOfThePanel
  <1> QED  BY <1>1, <1>2, Invariance, PTL DEF Spec, ImplementsPanel, Panel!Spec

-----------------------------------------------------------------------------
(* What of LoadingEnds is safety.                                            *)

\* Where every service answers the spinner never turns for nothing: whatever was
\* submitted again or cleared meanwhile, a request is under way whose answer
\* stops it or asks on (EventSearchForm.swift 55-71, 88-158).
SpinnerIsServed == ~faulty /\ isLoading => \E r \in requests : r.kind # "suggest"

\* ... and for a user who waits it turns exactly as long as there is one, which
\* is for what he submitted.
SpinnerTellsTheSearch == ~faulty /\ patient =>
    /\ isLoading <=> \E r \in requests : r.kind # "suggest"
    /\ \A r \in requests : r.kind # "suggest" => r.place = submitted.place

LEMMA ServedSteps == SpinnerIsServed /\ [Next]_vars => SpinnerIsServed'
  <1> SUFFICES ASSUME SpinnerIsServed, [Next]_vars, ~faulty', isLoading'
               PROVE  \E r \in requests' : r.kind # "suggest"
    BY DEF SpinnerIsServed
  <1>1. CASE OnClickSubmit
    <2>1. Send("ip", Empty, Here) \/ Send("geocode", Empty, location)
      BY <1>1 DEF OnClickSubmit
    <2>2. ASSUME NEW kind \in {"ip", "geocode"}, NEW p, Send(kind, Empty, p)
          PROVE  \E r \in requests' : r.kind # "suggest"
      <3> DEFINE new == [kind |-> kind, n |-> sent + 1, keyword |-> Empty, place |-> p]
      <3>1. new.kind = kind /\ new \in requests'
        BY <2>2 DEF Send
      <3> QED  BY <3>1
    <2> QED  BY <2>1, <2>2
  <1>2. CASE KeywordEntered
    <2>1. ~faulty /\ isLoading /\ requests \subseteq requests'
      BY <1>2 DEF KeywordEntered, Send, flags, ways
    <2> QED  BY <2>1 DEF SpinnerIsServed
  <1>3. ASSUME NEW r \in requests, SuggestionsArrive(r) PROVE \E s \in requests' : s.kind # "suggest"
    <2>1. ~faulty /\ isLoading /\ r.kind = "suggest" /\ requests' = requests \ {r}
      BY <1>3 DEF SuggestionsArrive, flags, ways
    <2> QED  BY <2>1 DEF SpinnerIsServed
  <1>4. ASSUME NEW r \in requests, PlaceFound(r) PROVE \E s \in requests' : s.kind # "suggest"
    <2> DEFINE q == [r EXCEPT !.kind = "search", !.keyword = keyword]
    <2>1. q \in requests' /\ (q.kind = "search" \/ q.kind = r.kind) /\ r.kind \in {"ip", "geocode"}
      BY <1>4 DEF PlaceFound
    <2> HIDE DEF q
    <2> QED  BY <2>1
  <1>5. ASSUME UserNext
        PROVE  OnClickSubmit \/ KeywordEntered \/ (~faulty /\ isLoading /\ UNCHANGED requests)
    <2> DEFINE Same == UNCHANGED <<flags, requests, ways>>
    <2>1. ASSUME NEW k \in Keywords \cup {Empty}, TypeKeyword(k) PROVE Same
      BY <2>1 DEF TypeKeyword
    <2>2. ASSUME NEW x \in {"10", Empty}, TypeDistance(x) PROVE Same
      BY <2>2 DEF TypeDistance
    <2>3. ASSUME NEW p \in Places \cup {Empty}, TypeLocation(p) PROVE Same
      BY <2>3 DEF TypeLocation
    <2>4. ASSUME NEW k \in Keywords, SuggestionTapped(k) PROVE Same
      BY <2>4 DEF SuggestionTapped
    <2>5. Toggle \/ SheetDismissed => Same
      BY DEF Toggle, SheetDismissed
    <2>6. Clear => ~isLoading'
      BY DEF Clear
    <2>7. Same => ~faulty /\ isLoading /\ UNCHANGED requests
      BY DEF flags, ways
    <2> HIDE DEF Same
    <2> QED  BY <1>5, <2>1, <2>2, <2>3, <2>4, <2>5, <2>6, <2>7 DEF UserNext
  <1>6. ASSUME NEW r \in requests, AnswerNext(r) \/ RequestFails(r)
        PROVE  SuggestionsArrive(r) \/ PlaceFound(r)
    BY <1>6 DEF AnswerNext, ways, PlaceUnknown, SearchFindsNone, SearchFinds, ShowEmpty, Show,
                RequestFails
  <1>7. CASE UNCHANGED vars
    BY <1>7 DEF vars, ways, flags, SpinnerIsServed
  <1> QED  BY <1>1, <1>2, <1>3, <1>4, <1>5, <1>6, <1>7 DEF Next, SpinnerIsServed

\* For any keywords, places and haste: no spinner without a request, no request
\* that is not what the spinner is for (EventSearchForm.swift 55-71, 88-158).
THEOREM SpinnerIsNeverForgotten == Spec => [](SpinnerIsServed /\ SpinnerTellsTheSearch)
  <1>1. Init => SpinnerIsServed
    BY DEF Init, SpinnerIsServed
  <1>2. IInv /\ SpinnerIsServed => SpinnerTellsTheSearch
    BY DEF IInv, Patience, Serves, SpinnerIsServed, SpinnerTellsTheSearch
  <1> QED  BY <1>1, <1>2, ServedSteps, Invariance, PTL DEF Spec
=============================================================================
