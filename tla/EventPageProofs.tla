--------------------------- MODULE EventPageProofs ---------------------------
(* The page of an event and the favorites, for any number of artists and any *)
(* events: the tabs of a music event wait for every album, the venue is asked *)
(* for once, and the favorites are a set that only the user changes.  Where    *)
(* services answer, a page waits as long as it is not shown, and each answer   *)
(* takes it on.                                                                *)
EXTENDS EventPage, FiniteSetTheorems, SequenceTheorems, TLAPS

\* The event's answer is still to come: nothing has been asked because of it.
Untouched ==
    /\ asked \subseteq {Request("event")}
    /\ albums = {} /\ details = {} /\ venueAsked = 0 /\ ~isShowTab

\* Which artists a request or an album can be about, and what it presupposes.
Lineups ==
    /\ albums \subseteq details /\ details \subseteq Lineup
    /\ \A i \in Slots : ArtistRequest(i) \in asked => i \in Lineup \ details
    /\ \A i \in Slots : AlbumRequest(i) \in asked => i \in details \ albums

\* The counter counts the albums; getVenue waits for the last of them.
Barrier ==
    /\ cnt = Cardinality(albums)
    /\ venueAsked # 0 => (genre = "music" => cnt = artists)
    /\ (Request("venue") \in asked \/ Request("map") \in asked \/ isShowTab) => venueAsked # 0

\* getVenue runs for the last album or for an event of other genres, not both.
Once ==
    /\ venueAsked \in {0, 1}
    /\ genre # "unknown" => Request("event") \notin asked
    /\ genre = "unknown" => Untouched
    /\ genre # "music" => albums = {} /\ \A i \in Slots :
          ArtistRequest(i) \notin asked /\ AlbumRequest(i) \notin asked
    /\ phase = "fresh" => (asked = {} /\ genre = "unknown")

IInv == TypeOK /\ Lineups /\ Barrier /\ Once

-----------------------------------------------------------------------------
\* A line-up of n artists is a finite set of n elements.
LEMMA LineupSize ==
    ASSUME NEW n \in Nat
    PROVE  IsFiniteSet(1 .. n) /\ Cardinality(1 .. n) = n
  BY FS_Interval, SMT

\* A new album among the artists of the line-up is one more, and not one more
\* than there are artists.
LEMMA OneMoreAlbum ==
    ASSUME NEW n \in Nat, NEW S \in SUBSET (1 .. n), NEW i \in (1 .. n) \ S
    PROVE  /\ Cardinality(S) \in Nat
           /\ Cardinality(S \cup {i}) = Cardinality(S) + 1
           /\ Cardinality(S) < n
  <1>1. IsFiniteSet(S) /\ IsFiniteSet(S \cup {i})
    BY LineupSize, FS_Subset, FS_AddElement
  <1>2. Cardinality(S) \in Nat /\ Cardinality(S \cup {i}) = Cardinality(S) + 1
    BY <1>1, FS_CardinalityType, FS_AddElement
  <1>3. Cardinality(S \cup {i}) <= n
    <2>1. S \cup {i} \in SUBSET (1 .. n)
      OBVIOUS
    <2>2. IsFiniteSet(1 .. n) /\ Cardinality(1 .. n) = n
      BY LineupSize
    <2>3. Cardinality(S \cup {i}) <= Cardinality(1 .. n)
      BY <2>1, <2>2, FS_Subset, Zenon
    <2> QED  BY <2>2, <2>3, Zenon
  <1> QED  BY <1>2, <1>3

\* As many albums as artists are the albums of all of them.
LEMMA AllAlbums ==
    ASSUME NEW n \in Nat, NEW S \in SUBSET (1 .. n), Cardinality(S) = n
    PROVE  S = 1 .. n
  BY LineupSize, FS_Subset

\* The inductive invariant holds before the spinner appears.
LEMMA InitIInv == Init => IInv
  <1> SUFFICES ASSUME Init
               PROVE  IInv
    OBVIOUS
  <1> USE DEF DetailAssumption, Init
  <1>1. TypeOK
    <2>1. 0 \in 0 .. MaxArtists /\ 0 \in 0 .. 0
      BY DetailAssumption
    <2>2. {} \in SUBSET Requests /\ {} \in SUBSET Slots
      OBVIOUS
    <2> QED  BY <2>1, <2>2, Zenon DEF TypeOK
  <1>2. Lineups
    BY DEF Lineups
  <1>3. Barrier
    BY FS_EmptySet DEF Barrier
  <1>4. Once
    BY DEF Once, Untouched
  <1> QED  BY <1>1, <1>2, <1>3, <1>4 DEF IInv

\* Every answer, error or crash preserves it.
LEMMA NextIInv == IInv /\ [Next]_vars => IInv'
  <1> SUFFICES ASSUME IInv, [Next]_vars
               PROVE  IInv'
    OBVIOUS
  <1> USE DetailAssumption
  <1> USE DEF DetailAssumption, IInv, TypeOK, Lineups, Barrier, Once, Untouched, Lineup, Slots,
              Requests, Request, ArtistRequest, AlbumRequest, Answers
  <1>1. CASE SpinnerAppears
    <2>1. asked = {} /\ asked' = {Request("event")} /\ albums = {} /\ cnt = 0
      BY <1>1, FS_EmptySet DEF SpinnerAppears
    <2> QED  BY <1>1, <2>1 DEF SpinnerAppears
  <1>2. ASSUME NEW n \in 0 .. MaxArtists, NEW g \in {"music", "other", "none"},
               EventArrives(n, g)
        PROVE  IInv'
    <2>1. /\ genre = "unknown" /\ asked \subseteq {Request("event")}
          /\ albums = {} /\ cnt = 0 /\ venueAsked = 0
      BY <1>2, FS_EmptySet DEF EventArrives
    <2>2. CASE g = "music"
      BY <1>2, <2>1, <2>2 DEF EventArrives
    <2>3. CASE g = "other"
      BY <1>2, <2>1, <2>3 DEF EventArrives, GetVenue
    <2>4. CASE g = "none"
      BY <1>2, <2>1, <2>4 DEF EventArrives
    <2> QED  BY <2>2, <2>3, <2>4
  <1>3. ASSUME NEW i \in Slots, ArtistArrives(i)
        PROVE  IInv'
    BY <1>3 DEF ArtistArrives
  <1>4. ASSUME NEW i \in Slots, AlbumArrives(i)
        PROVE  IInv'
    <2>1. genre = "music" /\ i \in Lineup \ albums /\ albums \subseteq Lineup
      BY <1>4 DEF AlbumArrives
    <2>2. Cardinality(albums \cup {i}) = cnt + 1 /\ cnt < artists
      BY <2>1, OneMoreAlbum
    <2>3. venueAsked = 0
      BY <2>1, <2>2
    <2>4. CASE LastAlbum(cnt + 1)
      BY <1>4, <2>1, <2>2, <2>3, <2>4 DEF AlbumArrives, GetVenue, LastAlbum
    <2>5. CASE ~LastAlbum(cnt + 1)
      BY <1>4, <2>1, <2>2, <2>3, <2>5 DEF AlbumArrives, LastAlbum
    <2> QED  BY <2>4, <2>5
  <1>5. CASE VenueArrives
    BY <1>5 DEF VenueArrives
  <1>6. CASE MapArrives
    BY <1>6 DEF MapArrives
  <1>7. ASSUME NEW r \in asked, RequestFails(r)
        PROVE  IInv'
    BY <1>7 DEF RequestFails
  <1>8. ASSUME NEW r \in asked, UnusableAnswer(r)
        PROVE  IInv'
    BY <1>8 DEF UnusableAnswer, Crash
  <1>9. CASE UNCHANGED vars
    BY <1>9 DEF vars
  <1> QED  BY <1>1, <1>2, <1>3, <1>4, <1>5, <1>6, <1>7, <1>8, <1>9 DEF Next

-----------------------------------------------------------------------------
\* The favorites, whatever page they are changed from.
Saved == events # NotRunning => events = Fav!Decoded(eventsData)

Single(list) == \A i, j \in DOMAIN list : list[i].id = list[j].id => i = j

FavInv ==
    /\ Fav!TypeOK
    /\ Saved
    /\ Single(Fav!Decoded(eventsData))

PInv == IInv /\ FavInv /\ page \in Ids \cup {NoPage}

\* A list without its i-th element.
LEMMA OneLess ==
    ASSUME NEW S, NEW list \in Seq(S), NEW i \in DOMAIN list
    PROVE  /\ Fav!Without(list, i) \in Seq(S)
           /\ Len(Fav!Without(list, i)) = Len(list) - 1
           /\ \A k \in 1 .. Len(list) - 1 :
                 Fav!Without(list, i)[k] = IF k < i THEN list[k] ELSE list[k + 1]
  <1> DEFINE front == SubSeq(list, 1, i - 1)
             back  == SubSeq(list, i + 1, Len(list))
  <1>1. Len(list) \in Nat /\ i \in 1 .. Len(list)
    OBVIOUS
  <1>2. /\ front \in Seq(S) /\ Len(front) = i - 1
        /\ \A k \in 1 .. i - 1 : front[k] = list[k]
    BY <1>1, SubSeqProperties
  <1>3. /\ back \in Seq(S) /\ Len(back) = Len(list) - i
        /\ \A k \in 1 .. Len(list) - i : back[k] = list[i + k]
    <2>1. CASE i = Len(list)
      BY <1>1, <2>1, SubSeqProperties
    <2>2. CASE i # Len(list)
      BY <1>1, <2>2, SubSeqProperties
    <2> QED  BY <2>1, <2>2
  <1> HIDE DEF front, back
  <1>4. /\ front \o back \in Seq(S) /\ Len(front \o back) = Len(list) - 1
        /\ \A k \in 1 .. Len(list) - 1 :
              (front \o back)[k] = IF k < i THEN front[k] ELSE back[k - (i - 1)]
    <2>1. front \in Seq(S) /\ back \in Seq(S)
      BY <1>2, <1>3
    <2>2. /\ front \o back \in Seq(S) /\ Len(front \o back) = Len(front) + Len(back)
          /\ \A k \in 1 .. Len(front) + Len(back) : (front \o back)[k] =
                IF k <= Len(front) THEN front[k] ELSE back[k - Len(front)]
      BY <2>1, ConcatProperties
    <2>3. Len(front) = i - 1 /\ Len(front) + Len(back) = Len(list) - 1
      BY <1>1, <1>2, <1>3
    <2>4. ASSUME NEW k \in 1 .. Len(list) - 1
          PROVE  (front \o back)[k] = IF k < i THEN front[k] ELSE back[k - (i - 1)]
      <3>1. k <= Len(front) <=> k < i
        BY <1>1, <2>3
      <3> QED  BY <2>2, <2>3, <3>1
    <2> QED  BY <2>2, <2>3, <2>4
  <1>5. ASSUME NEW k \in 1 .. Len(list) - 1
        PROVE  (front \o back)[k] = IF k < i THEN list[k] ELSE list[k + 1]
    <2>1. CASE k < i
      BY <1>1, <1>2, <1>4, <2>1
    <2>2. CASE ~(k < i)
      <3>1. k - (i - 1) \in 1 .. Len(list) - i /\ i + (k - (i - 1)) = k + 1
        BY <1>1, <2>2
      <3> QED  BY <1>3, <1>4, <2>2, <3>1
    <2> QED  BY <2>1, <2>2
  <1> QED  BY <1>4, <1>5 DEF front, back, Fav!Without

\* What is left has the ids of all others, each once as before.
LEMMA OneIdLess ==
    ASSUME NEW list \in Seq(Fav!Event), Single(list), NEW i \in DOMAIN list
    PROVE  /\ Single(Fav!Without(list, i))
           /\ IdsOf(Fav!Without(list, i)) = IdsOf(list) \ {list[i].id}
  <1> DEFINE new == Fav!Without(list, i)
  <1>1. new \in Seq(Fav!Event) /\ Len(new) = Len(list) - 1
        /\ \A k \in 1 .. Len(list) - 1 : new[k] = IF k < i THEN list[k] ELSE list[k + 1]
    BY OneLess
  <1> HIDE DEF new
  <1>2. DOMAIN new = 1 .. Len(list) - 1 /\ DOMAIN list = 1 .. Len(list) /\ Len(list) \in Nat
    BY <1>1
  <1>3. Single(new)
    <2> SUFFICES ASSUME NEW j \in DOMAIN new, NEW k \in DOMAIN new, new[j].id = new[k].id
                 PROVE  j = k
      BY DEF Single
    <2>1. CASE j < i /\ k < i
      BY <1>1, <1>2, <2>1 DEF Single
    <2>2. CASE j < i /\ ~(k < i)
      <3>1. new[j] = list[j] /\ new[k] = list[k + 1] /\ j \in DOMAIN list /\ k + 1 \in DOMAIN list
        BY <1>1, <1>2, <2>2
      <3>2. j = k + 1
        BY <3>1 DEF Single
      <3> QED  BY <1>2, <2>2, <3>2
    <2>3. CASE ~(j < i) /\ k < i
      <3>1. new[j] = list[j + 1] /\ new[k] = list[k] /\ j + 1 \in DOMAIN list /\ k \in DOMAIN list
        BY <1>1, <1>2, <2>3
      <3>2. j + 1 = k
        BY <3>1 DEF Single
      <3> QED  BY <1>2, <2>3, <3>2
    <2>4. CASE ~(j < i) /\ ~(k < i)
      <3>1. new[j] = list[j + 1] /\ new[k] = list[k + 1] /\ j + 1 \in DOMAIN list /\ k + 1 \in DOMAIN list
        BY <1>1, <1>2, <2>4
      <3>2. j + 1 = k + 1
        BY <3>1 DEF Single
      <3> QED  BY <1>2, <3>2
    <2> QED  BY <2>1, <2>2, <2>3, <2>4
  <1>4. ASSUME NEW x \in IdsOf(new)  PROVE x \in IdsOf(list) /\ x # list[i].id
    <2>1. PICK k \in DOMAIN new : x = new[k].id
      BY <1>4 DEF IdsOf
    <2>2. PICK m \in DOMAIN list : m # i /\ new[k] = list[m]
      <3>1. CASE k < i
        <4>1. k \in DOMAIN list /\ k # i /\ k \in 1 .. Len(list) - 1
          BY <1>2, <3>1
        <4>2. new[k] = list[k]
          BY <1>1, <3>1, <4>1
        <4> QED  BY <4>1, <4>2
      <3>2. CASE ~(k < i)
        <4>1. k + 1 \in DOMAIN list /\ k + 1 # i /\ k \in 1 .. Len(list) - 1
          BY <1>2, <3>2
        <4>2. new[k] = list[k + 1]
          BY <1>1, <3>2, <4>1
        <4> QED  BY <4>1, <4>2
      <3> QED  BY <3>1, <3>2
    <2> QED  BY <2>1, <2>2 DEF IdsOf, Single
  <1>5. ASSUME NEW x \in IdsOf(list), x # list[i].id  PROVE x \in IdsOf(new)
    <2>1. PICK m \in DOMAIN list : x = list[m].id
      BY <1>5 DEF IdsOf
    <2>2. PICK k \in DOMAIN new : new[k] = list[m]
      <3>1. CASE m < i
        <4>1. m \in DOMAIN new /\ m \in 1 .. Len(list) - 1
          BY <1>2, <3>1
        <4>2. new[m] = list[m]
          BY <1>1, <3>1, <4>1
        <4> QED  BY <4>1, <4>2
      <3>2. CASE m > i
        <4>1. m - 1 \in DOMAIN new /\ m - 1 \in 1 .. Len(list) - 1 /\ ~(m - 1 < i) /\ m - 1 + 1 = m
          BY <1>2, <3>2
        <4>2. new[m - 1] = list[m]
          BY <1>1, <4>1
        <4> QED  BY <4>1, <4>2
      <3> QED  BY <1>2, <1>5, <2>1, <3>1, <3>2
    <2> QED  BY <2>1, <2>2 DEF IdsOf
  <1> QED  BY <1>3, <1>4, <1>5 DEF new

\* A list with one more event, that it did not contain.
LEMMA OneIdMore ==
    ASSUME NEW list \in Seq(Fav!Event), Single(list), NEW e \in Fav!Event,
           \A i \in DOMAIN list : list[i].id # e.id
    PROVE  /\ Append(list, e) \in Seq(Fav!Event)
           /\ Single(Append(list, e))
           /\ IdsOf(Append(list, e)) = IdsOf(list) \cup {e.id}
           /\ e.id \notin IdsOf(list)
  <1> DEFINE new == Append(list, e)
  <1>1. new \in Seq(Fav!Event) /\ DOMAIN new = 1 .. Len(list) + 1 /\ DOMAIN list = 1 .. Len(list)
        /\ Len(list) \in Nat
        /\ new[Len(list) + 1] = e /\ \A k \in 1 .. Len(list) : new[k] = list[k]
    OBVIOUS
  <1> HIDE DEF new
  <1>2. Single(new)
    BY <1>1 DEF Single
  <1>3. \A x \in IdsOf(list) : x \in IdsOf(new)
    BY <1>1 DEF IdsOf
  <1>4. e.id \in IdsOf(new)
    BY <1>1 DEF IdsOf
  <1>5. \A x \in IdsOf(new) : x \in IdsOf(list) \cup {e.id}
    BY <1>1 DEF IdsOf
  <1>6. e.id \notin IdsOf(list)
    BY DEF IdsOf
  <1> QED  BY <1>1, <1>2, <1>3, <1>4, <1>5, <1>6 DEF new

\* What a step does to the list that the next launch would find.
Kept == Fav!Decoded(eventsData)

LEMMA KeptStays ==
    ASSUME FavInv, UNCHANGED eventsData, events' \in {events, NotRunning, Kept}
    PROVE  FavInv' /\ IdsOf(Kept)' = IdsOf(Kept)
  <1>1. Kept \in Seq(Fav!Event) /\ Kept' = Kept
    BY DEF FavInv, Fav!TypeOK, Kept, Fav!Decoded
  <1> QED  BY <1>1 DEF FavInv, Fav!TypeOK, Saved, Single, Kept, Fav!Decoded, IdsOf

LEMMA KeptBecomes ==
    ASSUME NEW list \in Seq(Fav!Event), Single(list), Fav!Become(list)
    PROVE  FavInv' /\ Kept' = list /\ events' # NotRunning
  <1>1. events' = list /\ eventsData' = list /\ list # NoData /\ list # NotRunning
    BY PageAssumption DEF Fav!Become, Fav!Event
  <1>2. Fav!Decoded(eventsData)' = list
    BY <1>1 DEF Fav!Decoded
  <1> QED  BY <1>1, <1>2 DEF FavInv, Fav!TypeOK, Saved, Kept, Single

\* The running list is the one that is kept.
LEMMA RunningIsKept ==
    ASSUME FavInv, events # NotRunning
    PROVE  events = Kept /\ events \in Seq(Fav!Event) /\ Single(events)
  BY DEF FavInv, Fav!TypeOK, Saved, Kept

\* A step of the process changes nothing that is kept but by one event, that its
\* screen offers.
LEMMA FavStep ==
    ASSUME PInv, [PageNext]_pageVars
    PROVE  /\ FavInv'
           /\ \/ IdsOf(Kept)' = IdsOf(Kept)
              \/ /\ events # NotRunning /\ events' # NotRunning
                 /\ \E i \in OfferedIds :
                       \/ i \notin IdsOf(Kept) /\ IdsOf(Kept)' = IdsOf(Kept) \cup {i}
                       \/ i \in IdsOf(Kept) /\ IdsOf(Kept)' = IdsOf(Kept) \ {i}
  <1>1. FavInv
    BY DEF PInv
  <1>2. ASSUME NEW i \in DOMAIN events, events # NotRunning, Fav!Become(Fav!Without(events, i))
        PROVE  /\ FavInv' /\ events' # NotRunning
               /\ events[i].id \in IdsOf(events) /\ events[i].id \in IdsOf(Kept)
               /\ IdsOf(Kept)' = IdsOf(Kept) \ {events[i].id}
    <2>1. events = Kept /\ events \in Seq(Fav!Event) /\ Single(events)
      BY <1>1, <1>2, RunningIsKept
    <2>2. Fav!Without(events, i) \in Seq(Fav!Event)
      BY <2>1, OneLess
    <2>3. Single(Fav!Without(events, i))
          /\ IdsOf(Fav!Without(events, i)) = IdsOf(events) \ {events[i].id}
      BY <2>1, OneIdLess
    <2>4. FavInv' /\ Kept' = Fav!Without(events, i) /\ events' # NotRunning
      BY <1>2, <2>2, <2>3, KeptBecomes
    <2>5. events[i].id \in IdsOf(events)
      BY DEF IdsOf
    <2>6. IdsOf(Kept)' = IdsOf(Kept')
      BY DEF IdsOf
    <2> QED  BY <2>1, <2>3, <2>4, <2>5, <2>6
  <1>3. ASSUME NEW e \in Fav!Event, Fav!AddFavorite(e)
        PROVE  /\ FavInv' /\ events # NotRunning /\ events' # NotRunning
               /\ e.id \notin IdsOf(Kept) /\ IdsOf(Kept)' = IdsOf(Kept) \cup {e.id}
    <2>1. events # NotRunning /\ Fav!Become(Append(events, e))
          /\ \A i \in DOMAIN events : events[i].id # e.id
      BY <1>3 DEF Fav!AddFavorite, Fav!ContainsEvent
    <2>2. events = Kept /\ events \in Seq(Fav!Event) /\ Single(events)
      BY <1>1, <2>1, RunningIsKept
    <2>3. /\ Append(events, e) \in Seq(Fav!Event) /\ Single(Append(events, e))
          /\ IdsOf(Append(events, e)) = IdsOf(events) \cup {e.id} /\ e.id \notin IdsOf(events)
      BY <2>1, <2>2, OneIdMore
    <2>4. FavInv' /\ Kept' = Append(events, e) /\ events' # NotRunning
      BY <2>1, <2>3, KeptBecomes
    <2>5. IdsOf(Kept)' = IdsOf(Kept')
      BY DEF IdsOf
    <2> QED  BY <2>1, <2>2, <2>3, <2>4, <2>5
  <1>4. CASE Launch
    <2>1. UNCHANGED eventsData /\ events' = Kept
      BY <1>4 DEF Launch, Fav!Launch, Kept
    <2> QED  BY <1>1, <2>1, KeptStays
  <1>5. CASE Kill
    <2>1. UNCHANGED eventsData /\ events' = NotRunning
      BY <1>5 DEF Kill, Fav!Kill
    <2> QED  BY <1>1, <2>1, KeptStays
  <1>6. CASE Back \/ (\E id \in Ids : Open(id)) \/ UNCHANGED pageVars
    <2>1. UNCHANGED eventsData /\ events' = events
      BY <1>6 DEF Back, Open, favorites, pageVars
    <2> QED  BY <1>1, <2>1, KeptStays
  <1>7. CASE Loads(Next)
    <2>1. UNCHANGED eventsData /\ events' \in {events, NotRunning}
      BY <1>7 DEF Loads
    <2> QED  BY <1>1, <2>1, KeptStays
  <1>8. CASE Swipe
    <2>1. PICK i \in DOMAIN events : events # NotRunning /\ Fav!Become(Fav!Without(events, i))
      BY <1>8 DEF Swipe, Fav!RemoveRows
    <2>2. OfferedIds = IdsOf(events)
      BY <1>8, <2>1 DEF Swipe, OfferedIds, HeldIds
    <2> QED  BY <1>2, <2>1, <2>2
  <1>9. CASE Tap
    <2>1. page \in Ids /\ page # NoPage /\ isShowTab
      BY <1>9 DEF Tap, PInv
    <2>2. PICK d \in Details : Fav!AddFavorite([id |-> page, details |-> d])
                               \/ Fav!RemoveFavorite([id |-> page, details |-> d])
      BY <1>9 DEF Tap
    <2>3. [id |-> page, details |-> d] \in Fav!Event
      BY <2>1 DEF Fav!Event
    <2>4. events # NotRunning => page \in OfferedIds
      BY <2>1 DEF OfferedIds
    <2>5. CASE Fav!AddFavorite([id |-> page, details |-> d])
      BY <1>3, <2>3, <2>4, <2>5
    <2>6. CASE Fav!RemoveFavorite([id |-> page, details |-> d])
      <3>1. PICK i \in DOMAIN events : /\ events # NotRunning /\ events[i].id = page
                                       /\ Fav!Become(Fav!Without(events, i))
        BY <2>6 DEF Fav!RemoveFavorite
      <3> QED  BY <1>2, <2>4, <3>1
    <2> QED  BY <2>2, <2>5, <2>6
  <1> QED  BY <1>4, <1>5, <1>6, <1>7, <1>8, <1>9 DEF PageNext

-----------------------------------------------------------------------------
\* A page that is left is as one that was never opened.
LEMMA LeaveStep == ASSUME IInv, Leave PROVE IInv'
  <1>1. /\ phase' = "fresh" /\ genre' = "unknown" /\ artists' = 0 /\ cnt' = 0 /\ asked' = {}
        /\ details' = {} /\ albums' = {} /\ venue' = FALSE /\ isSugLoading' = TRUE
        /\ isShowTab' = FALSE /\ venueAsked' = 0 /\ faulty' = faulty
    BY DEF Leave
  <1>2. TypeOK'
    <2>1. 0 \in 0 .. MaxArtists /\ 0 \in 0 .. 0
      BY DetailAssumption DEF DetailAssumption
    <2>2. {} \in SUBSET Requests /\ {} \in SUBSET Slots /\ faulty' \in BOOLEAN
      BY <1>1 DEF IInv, TypeOK
    <2> QED  BY <1>1, <2>1, <2>2, Zenon DEF TypeOK
  <1>3. Lineups' /\ Once'
    BY <1>1 DEF Lineups, Once, Untouched
  <1>4. Barrier'
    BY <1>1, FS_EmptySet DEF Barrier
  <1> QED  BY <1>2, <1>3, <1>4 DEF IInv

LEMMA PageInvariance == PageSpec => []PInv
  <1>1. PageInit => PInv
    <2> SUFFICES ASSUME PageInit PROVE PInv
      OBVIOUS
    <2>1. IInv
      BY InitIInv DEF PageInit
    <2>2. events = NotRunning /\ eventsData = NoData /\ page = NoPage
      BY DEF PageInit, Fav!Init
    <2>3. FavInv
      BY <2>2 DEF FavInv, Fav!TypeOK, Saved, Single, Fav!Decoded
    <2> QED  BY <2>1, <2>2, <2>3 DEF PInv
  <1>2. PInv /\ [PageNext]_pageVars => PInv'
    <2> SUFFICES ASSUME PInv, [PageNext]_pageVars PROVE PInv'
      OBVIOUS
    <2>1. FavInv'
      BY FavStep
    <2>2. IInv'
      <3>1. CASE Launch \/ Kill \/ Back
        BY <3>1, LeaveStep DEF PInv, Launch, Kill, Back
      <3>2. CASE Loads(Next)
        BY <3>2, NextIInv DEF PInv, Loads
      <3>3. CASE UNCHANGED vars
        BY <3>3, NextIInv DEF PInv
      <3> QED  BY <3>1, <3>2, <3>3 DEF PageNext, Tap, Swipe, Open, pageVars
    <2>3. page' \in Ids \cup {NoPage}
      BY DEF PInv, PageNext, Launch, Kill, Back, Leave, Tap, Swipe, Open, Loads, pageVars
    <2> QED  BY <2>1, <2>2, <2>3 DEF PInv
  <1> QED  BY <1>1, <1>2, PTL DEF PageSpec

-----------------------------------------------------------------------------
\* Every variable keeps its type, and the counter never passes the number of
\* artists (EventDetail.swift 14-28, 87).
THEOREM TypeCorrect == PageSpec => []PageTypeOK
  <1>1. PInv => PageTypeOK  BY DEF PInv, IInv, FavInv, PageTypeOK
  <1> QED  BY <1>1, PageInvariance, PTL

\* However many artists there are and in whatever order the answers come, the
\* tabs of a music event show every artist's detail and albums.
THEOREM TabsComplete == PageSpec => []TabsAreComplete
  <1>1. PInv => TabsAreComplete
    <2> SUFFICES ASSUME PInv, isShowTab, genre = "music"
                 PROVE  Lineup \subseteq details \cap albums
      BY DEF TabsAreComplete
    <2> USE DEF PInv, IInv, TypeOK, Lineups, Barrier, Slots
    <2>1. Cardinality(albums) = artists /\ albums \in SUBSET (1 .. artists) /\ artists \in Nat
      BY DetailAssumption DEF DetailAssumption, Lineup
    <2>2. albums = 1 .. artists
      BY <2>1, AllAlbums
    <2>3. albums \subseteq details
      OBVIOUS
    <2> QED  BY <2>2, <2>3 DEF Lineup
  <1> QED  BY <1>1, PageInvariance, PTL

\* The venue of an event is asked for at most once, for any number of artists.
THEOREM VenueOnce == PageSpec => []VenueAskedOnce
  <1>1. PInv => VenueAskedOnce  BY DEF PInv, IInv, Once, VenueAskedOnce
  <1> QED  BY <1>1, PageInvariance, PTL

\* No event is in the favorites twice, whatever pages it was met on
\* (EventsView.swift 146-162).
THEOREM NoDoubles == PageSpec => []NoEventTwice
  <1>1. PInv => NoEventTwice
    <2> SUFFICES ASSUME PInv, NEW list \in {events, eventsData} \ {NotRunning, NoData}
                 PROVE  Single(list)
      BY DEF NoEventTwice, Single
    <2> QED  BY DEF PInv, FavInv, Saved, Fav!Decoded
  <1> QED  BY <1>1, PageInvariance, PTL

\* The favorites are a DurableSet whose saves do not fail: only the user changes
\* them, an event at a time that his screen offers, and the end of a process
\* changes nothing (EventData.swift 18-44, EventsView.swift 146-162,
\* Favorite.swift 14-17).
THEOREM Refinement == PageSpec => ImplementsSet
  <1>1. PInv => HeldIds = IdsOf(Kept) /\ SavedIds = IdsOf(Kept)
    BY DEF PInv, FavInv, Saved, HeldIds, SavedIds, Kept
  <1>2. PageInit => Durable!Init
    BY DEF PageInit, Fav!Init, Durable!Init, HeldIds, SavedIds, OfferedIds, IdsOf, Fav!Decoded
  <1>3. PInv /\ PInv' /\ [PageNext]_pageVars => [Durable!Next]_(Durable!vars)
    <2> SUFFICES ASSUME PInv, PInv', [PageNext]_pageVars
                 PROVE  [Durable!Next]_(Durable!vars)
      OBVIOUS
    <2>1. /\ HeldIds = IdsOf(Kept) /\ HeldIds' = IdsOf(Kept)'
          /\ SavedIds = IdsOf(Kept) /\ SavedIds' = IdsOf(Kept)'
      BY <1>1 DEF PInv, FavInv, Saved, HeldIds, SavedIds, Kept
    <2>2. /\ OfferedIds \subseteq Ids /\ (events = NotRunning => OfferedIds = {})
          /\ OfferedIds' \subseteq Ids /\ (events' = NotRunning => OfferedIds' = {})
      <3>1. ASSUME NEW list \in Seq(Fav!Event) PROVE IdsOf(list) \subseteq Ids
        <4>1. \A i \in DOMAIN list : list[i] \in Fav!Event
          OBVIOUS
        <4> QED  BY <4>1 DEF Fav!Event, IdsOf
      <3>2. events # NotRunning => HeldIds \subseteq Ids
        BY <3>1 DEF PInv, FavInv, Fav!TypeOK, HeldIds
      <3>3. events' # NotRunning => HeldIds' \subseteq Ids
        <4>1. events' # NotRunning => events' \in Seq(Fav!Event) /\ HeldIds' = IdsOf(events')
          BY DEF PInv, FavInv, Fav!TypeOK, HeldIds, IdsOf
        <4> QED  BY <3>1, <4>1
      <3>4. page \in Ids \cup {NoPage} /\ page' \in Ids \cup {NoPage}
        BY DEF PInv
      <3> QED  BY <3>2, <3>3, <3>4 DEF OfferedIds
    <2>3. CASE IdsOf(Kept)' = IdsOf(Kept)
      <3>1. CASE events = NotRunning /\ events' = NotRunning
        BY <2>1, <2>2, <2>3, <3>1 DEF Durable!vars
      <3>2. CASE events = NotRunning /\ events' # NotRunning
        BY <2>1, <2>2, <2>3, <3>2 DEF Durable!Next, Durable!Launch, Durable!Goes
      <3>3. CASE events # NotRunning /\ events' # NotRunning
        BY <2>1, <2>2, <2>3, <3>3 DEF Durable!Next, Durable!Show, Durable!Goes
      <3>4. CASE events # NotRunning /\ events' = NotRunning
        BY <2>1, <2>2, <2>3, <3>4 DEF Durable!Next, Durable!End
      <3> QED  BY <3>1, <3>2, <3>3, <3>4
    <2>4. CASE /\ events # NotRunning /\ events' # NotRunning
               /\ \E i \in OfferedIds :
                     \/ i \notin IdsOf(Kept) /\ IdsOf(Kept)' = IdsOf(Kept) \cup {i}
                     \/ i \in IdsOf(Kept) /\ IdsOf(Kept)' = IdsOf(Kept) \ {i}
      <3>1. \E i \in Ids : Durable!Change(i)
        BY <2>1, <2>2, <2>4 DEF Durable!Change, Durable!Goes
      <3> QED  BY <2>2, <2>4, <3>1 DEF Durable!Next
    <2> QED  BY <2>3, <2>4, FavStep
  <1> QED  BY <1>2, <1>3, PageInvariance, PTL DEF PageSpec, ImplementsSet, Durable!Spec

-----------------------------------------------------------------------------
(* What becomes of a page whose services answer                              *)

\* What a request is for is here.
Over(r) ==
    \/ r.kind = "event" /\ genre # "unknown"
    \/ r.kind = "artist" /\ r.for \in details
    \/ r.kind = "album" /\ r.for \in albums
    \/ r.kind = "venue" /\ venue
    \/ r.kind = "map" /\ isShowTab

\* The page waits for an answer exactly as long as it shows its spinner: while
\* services answer, a page that has something to show never waits for nothing,
\* and no answer is still to come when its tabs are up (EventDetail.swift 40-54,
\* 84-92, 129-139).
WaitsUntilShown ==
    ~faulty /\ phase = "loading" /\ (genre \in {"unknown", "other"} \/ (genre = "music" /\ artists > 0))
        => (asked # {} <=> ~isShowTab)

\* On a page that stays an answer brings what was not there, and nothing goes:
\* the requests of a page, at most two for each artist and three more, come to
\* an end.
EveryAnswerCounts ==
    [][page' = page /\ page # NoPage =>
          \A r \in Requests : /\ Over(r) => Over(r)'
                              /\ ~faulty /\ r \in asked /\ r \notin asked' => ~Over(r) /\ Over(r)'
      ]_pageVars

\* Requests are about an artist or about the event; the venue, then the map, then
\* the tabs follow the last album.
Course ==
    /\ \A r \in asked : r.kind \in {"artist", "album"} <=> r.for \in Slots
    /\ Request("venue") \in asked => ~venue /\ Request("map") \notin asked /\ ~isShowTab
    /\ Request("map") \in asked => venue /\ ~isShowTab
    /\ isShowTab => venue
    /\ venue => venueAsked # 0

\* Whatever is not there has been asked for, or waits for what has been.
GoesOn == ~faulty =>
    /\ genre = "unknown" /\ phase = "loading" => Request("event") \in asked
    /\ genre = "music" => \A i \in Lineup :
          /\ i \in details \/ ArtistRequest(i) \in asked
          /\ i \in details => i \in albums \/ AlbumRequest(i) \in asked
    /\ genre = "music" /\ artists > 0 /\ cnt = artists => venueAsked # 0
    /\ genre = "other" => venueAsked # 0
    /\ venueAsked # 0 => Request("venue") \in asked \/ Request("map") \in asked \/ isShowTab

LEMMA CourseStep == ASSUME IInv, Course, [Next]_vars PROVE Course'
  <1> USE DEF IInv, TypeOK, Barrier, Once, Untouched, Course, Slots, Request, ArtistRequest, AlbumRequest,
              Answers
  <1>1. CASE SpinnerAppears
    BY <1>1 DEF SpinnerAppears
  <1>2. ASSUME NEW n \in 0 .. MaxArtists, NEW g \in {"music", "other", "none"}, EventArrives(n, g)
        PROVE  Course'
    <2>1. genre = "unknown" /\ asked = {Request("event")} /\ venueAsked = 0 /\ ~venue /\ ~isShowTab
      BY <1>2 DEF EventArrives
    <2>2. UNCHANGED <<venue, isShowTab>>
      BY <1>2 DEF EventArrives
    <2>3. CASE g = "music"
      <3>1. 1 .. n \subseteq Slots
        BY DetailAssumption DEF DetailAssumption
      <3>2. asked' = {ArtistRequest(i) : i \in 1 .. n}
        <4>1. asked' = (asked \ {Request("event")}) \cup {ArtistRequest(i) : i \in 1 .. n}
          BY <1>2, <2>3 DEF EventArrives
        <4> QED  BY <2>1, <4>1, Zenon
      <3>3. \A r \in asked' : r.kind = "artist" /\ r.for \in Slots
        BY <3>1, <3>2 DEF ArtistRequest
      <3>4. Request("venue") \notin asked' /\ Request("map") \notin asked'
        BY <3>3 DEF Request
      <3> QED  BY <2>1, <2>2, <3>3, <3>4
    <2>4. CASE g = "other"
      BY <1>2, <2>1, <2>2, <2>4 DEF EventArrives, GetVenue
    <2>5. CASE g = "none"
      BY <1>2, <2>1, <2>2, <2>5 DEF EventArrives
    <2> QED  BY <2>3, <2>4, <2>5
  <1>3. ASSUME NEW i \in Slots, ArtistArrives(i)
        PROVE  Course'
    BY <1>3 DEF ArtistArrives
  <1>4. ASSUME NEW i \in Slots, AlbumArrives(i)
        PROVE  Course'
    <2>1. AlbumRequest(i) \in asked
      BY <1>4 DEF AlbumArrives
    <2>2. genre = "music" /\ i \in (1 .. artists) \ albums /\ albums \in SUBSET (1 .. artists)
      BY <2>1 DEF Lineups, Lineup
    <2>4. cnt < artists /\ cnt \in Nat
      <3>1. artists \in Nat
        BY DetailAssumption DEF DetailAssumption
      <3> QED  BY <2>2, <3>1, OneMoreAlbum
    <2>3. venueAsked = 0
      BY <2>2, <2>4
    <2> QED  BY <1>4, <2>3 DEF AlbumArrives, GetVenue
  <1>5. CASE VenueArrives
    BY <1>5 DEF VenueArrives
  <1>6. CASE MapArrives
    BY <1>6 DEF MapArrives
  <1>7. ASSUME NEW r \in asked, RequestFails(r) \/ UnusableAnswer(r)
        PROVE  Course'
    BY <1>7 DEF RequestFails, UnusableAnswer
  <1>8. CASE UNCHANGED vars
    BY <1>8 DEF vars
  <1> QED  BY <1>1, <1>2, <1>3, <1>4, <1>5, <1>6, <1>7, <1>8 DEF Next

LEMMA GoesOnStep == ASSUME IInv, GoesOn, [Next]_vars PROVE GoesOn'
  <1> SUFFICES ASSUME ~faulty'  PROVE GoesOn'
    BY DEF GoesOn
  <1>0. ~faulty
    <2>1. ASSUME NEW r \in asked, RequestFails(r) \/ UnusableAnswer(r)  PROVE faulty' = faulty
      BY <2>1 DEF RequestFails, UnusableAnswer
    <2> QED  BY <2>1 DEF Next, SpinnerAppears, EventArrives, ArtistArrives, AlbumArrives, VenueArrives, MapArrives,
           vars
  <1> USE DEF IInv, TypeOK, Lineups, Once, Untouched, GoesOn, Lineup, Slots, Request, ArtistRequest,
              AlbumRequest, Answers
  <1>1. CASE SpinnerAppears
    BY <1>0, <1>1 DEF SpinnerAppears
  <1>2. ASSUME NEW n \in 0 .. MaxArtists, NEW g \in {"music", "other", "none"}, EventArrives(n, g)
        PROVE  GoesOn'
    <2>1. genre = "unknown" /\ cnt = 0 /\ venueAsked = 0 /\ details = {}
      BY <1>2, FS_EmptySet DEF EventArrives, Barrier
    <2>2. CASE g = "music"
      BY <1>2, <2>1, <2>2, DetailAssumption DEF EventArrives, DetailAssumption
    <2>3. CASE g = "other"
      BY <1>2, <2>1, <2>3 DEF EventArrives, GetVenue
    <2>4. CASE g = "none"
      BY <1>2, <2>1, <2>4 DEF EventArrives
    <2> QED  BY <2>2, <2>3, <2>4
  <1>3. ASSUME NEW i \in Slots, ArtistArrives(i)
        PROVE  GoesOn'
    BY <1>0, <1>3 DEF ArtistArrives
  <1>4. ASSUME NEW i \in Slots, AlbumArrives(i)
        PROVE  GoesOn'
    <2>1. CASE LastAlbum(cnt + 1)
      BY <1>0, <1>4, <2>1 DEF AlbumArrives, GetVenue
    <2>2. CASE ~LastAlbum(cnt + 1)
      BY <1>0, <1>4, <2>2 DEF AlbumArrives, LastAlbum
    <2> QED  BY <2>1, <2>2
  <1>5. CASE VenueArrives
    BY <1>0, <1>5 DEF VenueArrives
  <1>6. CASE MapArrives
    BY <1>0, <1>6 DEF MapArrives
  <1>7. ASSUME NEW r \in asked, RequestFails(r) \/ UnusableAnswer(r)
        PROVE  GoesOn'
    BY <1>0, <1>7 DEF RequestFails, UnusableAnswer
  <1>8. CASE UNCHANGED vars
    BY <1>0, <1>8 DEF vars
  <1> QED  BY <1>1, <1>2, <1>3, <1>4, <1>5, <1>6, <1>7, <1>8 DEF Next

LEMMA CourseAlways == PageSpec => [](Course /\ GoesOn)
  <1>1. PageInit => Course /\ GoesOn
    BY DEF PageInit, Init, Course, GoesOn
  <1>2. PInv /\ Course /\ GoesOn /\ [PageNext]_pageVars => (Course /\ GoesOn)'
    <2> SUFFICES ASSUME PInv, Course, GoesOn, [PageNext]_pageVars  PROVE Course' /\ GoesOn'
      OBVIOUS
    <2>1. CASE Launch \/ Kill \/ Back
      <3>1. Leave
        BY <2>1 DEF Launch, Kill, Back
      <3> QED  BY <3>1 DEF Leave, Course, GoesOn
    <2>2. CASE [Next]_vars
      BY <2>2, CourseStep, GoesOnStep DEF PInv
    <2> QED  BY <2>1, <2>2 DEF PageNext, Tap, Swipe, Open, Loads, pageVars
  <1> QED  BY <1>1, <1>2, PageInvariance, PTL DEF PageSpec

\* With services that answer, a page waits exactly until it is shown, for any
\* number of artists (EventDetail.swift 40-54, 84-92, 129-139).
THEOREM NeverWaitsInVain == PageSpec => []WaitsUntilShown
  <1>1. ASSUME PInv, Course, GoesOn  PROVE WaitsUntilShown
    <2> USE <1>1 DEF PInv, IInv, TypeOK, Once, Course
    <2> SUFFICES ASSUME ~faulty, phase = "loading",
                        genre \in {"unknown", "other"} \/ (genre = "music" /\ artists > 0)
                 PROVE  asked # {} <=> ~isShowTab
      BY DEF WaitsUntilShown
    <2>1. ASSUME isShowTab  PROVE asked = {}
      <3>1. venueAsked # 0 /\ genre # "unknown"
        BY <2>1 DEF Untouched
      <3> SUFFICES ASSUME NEW r \in asked  PROVE FALSE
        OBVIOUS
      <3>2. PICK k \in {"event", "artist", "album", "venue", "map"}, i \in 0 .. MaxArtists :
               r = [kind |-> k, for |-> i]
        BY DEF Requests
      <3>3. k \in {"artist", "album"} => i \in Slots
        BY <3>2
      <3>4. k = "artist" => r = ArtistRequest(i)
        BY <3>2 DEF ArtistRequest
      <3>5. k = "album" => r = AlbumRequest(i)
        BY <3>2 DEF AlbumRequest
      <3>6. k \in {"event", "venue", "map"} => r = Request(k)
        <4>1. i \notin Slots => i = 0
          BY DetailAssumption DEF Slots, DetailAssumption
        <4> QED  BY <3>2, <4>1 DEF Request
      <3>7. ASSUME k \in {"artist", "album"}  PROVE FALSE
        <4>1. genre = "music" /\ i \in Lineup \ albums
          BY <3>3, <3>4, <3>5, <3>7 DEF Lineups
        <4>2. cnt = artists /\ cnt = Cardinality(albums) /\ albums \in SUBSET (1 .. artists) /\ artists \in Nat
          BY <3>1, <4>1, DetailAssumption DEF Barrier, Lineups, Lineup, DetailAssumption
        <4>3. albums = 1 .. artists
          BY <4>2, AllAlbums
        <4> QED  BY <4>1, <4>3 DEF Lineup
      <3>8. k \notin {"event", "venue", "map"}
        BY <2>1, <3>1, <3>6
      <3> QED  BY <3>7, <3>8
    <2>2. ASSUME ~isShowTab  PROVE asked # {}
      <3>1. CASE genre = "unknown"
        BY <3>1 DEF GoesOn
      <3>2. CASE venueAsked # 0
        BY <2>2, <3>2 DEF GoesOn
      <3>3. CASE genre = "music" /\ venueAsked = 0
        <4>1. artists \in Nat /\ artists > 0 /\ cnt # artists
          BY <3>3, DetailAssumption DEF GoesOn, DetailAssumption
        <4>2. cnt = Cardinality(albums) /\ albums # 1 .. artists /\ albums \subseteq 1 .. artists
          BY <4>1, LineupSize DEF Barrier, Lineups, Lineup
        <4>3. PICK i \in Lineup : i \notin albums
          BY <4>2 DEF Lineup
        <4> QED  BY <3>3, <4>3 DEF GoesOn
      <3> QED  BY <3>1, <3>2, <3>3 DEF GoesOn
    <2> QED  BY <2>1, <2>2
  <1> QED  BY <1>1, CourseAlways, PageInvariance, PTL

LEMMA AnswersCount ==
    ASSUME IInv, Course, [Next]_vars, NEW r \in Requests
    PROVE  /\ Over(r) => Over(r)'
           /\ ~faulty /\ r \in asked /\ r \notin asked' => ~Over(r) /\ Over(r)'
  <1> USE DEF IInv, TypeOK, Lineups, Once, Untouched, Course, Slots, Requests, Request, ArtistRequest,
              AlbumRequest, Answers, Over
  <1>1. CASE SpinnerAppears
    BY <1>1 DEF SpinnerAppears
  <1>2. ASSUME NEW n \in 0 .. MaxArtists, NEW g \in {"music", "other", "none"}, EventArrives(n, g)
        PROVE  /\ Over(r) => Over(r)'
               /\ ~faulty /\ r \in asked /\ r \notin asked' => ~Over(r) /\ Over(r)'
    <2>1. /\ genre = "unknown" /\ genre' = g /\ UNCHANGED <<details, albums, venue, isShowTab>>
          /\ asked \ asked' \subseteq {Request("event")}
      BY <1>2 DEF EventArrives, GetVenue
    <2> QED  BY <2>1
  <1>3. ASSUME NEW i \in Slots, ArtistArrives(i)
        PROVE  /\ Over(r) => Over(r)'
               /\ ~faulty /\ r \in asked /\ r \notin asked' => ~Over(r) /\ Over(r)'
    <2>1. /\ details' = details \cup {i} /\ UNCHANGED <<genre, albums, venue, isShowTab>>
          /\ asked \ asked' \subseteq {ArtistRequest(i)} /\ ArtistRequest(i) \in asked
      BY <1>3 DEF ArtistArrives
    <2> QED  BY <2>1
  <1>4. ASSUME NEW i \in Slots, AlbumArrives(i)
        PROVE  /\ Over(r) => Over(r)'
               /\ ~faulty /\ r \in asked /\ r \notin asked' => ~Over(r) /\ Over(r)'
    <2>1. /\ albums' = albums \cup {i} /\ UNCHANGED <<genre, details, venue, isShowTab>>
          /\ asked \ asked' \subseteq {AlbumRequest(i)} /\ AlbumRequest(i) \in asked
      BY <1>4 DEF AlbumArrives, GetVenue
    <2> QED  BY <2>1
  <1>5. CASE VenueArrives
    <2>1. /\ venue' = TRUE /\ UNCHANGED <<genre, details, albums, isShowTab>>
          /\ asked \ asked' \subseteq {Request("venue")} /\ Request("venue") \in asked
      BY <1>5 DEF VenueArrives
    <2> QED  BY <2>1
  <1>6. CASE MapArrives
    <2>1. /\ isShowTab' = TRUE /\ UNCHANGED <<genre, details, albums, venue>>
          /\ asked \ asked' \subseteq {Request("map")} /\ Request("map") \in asked
      BY <1>6 DEF MapArrives
    <2> QED  BY <2>1
  <1>7. ASSUME NEW q \in asked, RequestFails(q) \/ UnusableAnswer(q)
        PROVE  /\ Over(r) => Over(r)'
               /\ ~faulty /\ r \in asked /\ r \notin asked' => ~Over(r) /\ Over(r)'
    BY <1>7 DEF RequestFails, UnusableAnswer
  <1>8. CASE UNCHANGED vars
    BY <1>8 DEF vars
  <1> QED  BY <1>1, <1>2, <1>3, <1>4, <1>5, <1>6, <1>7, <1>8 DEF Next

\* On a page that stays every answer brings what was not there, and keeps it, so
\* that its requests come to an end (EventDetail.swift 62-139).
THEOREM AnswersOnlyAdd == PageSpec => EveryAnswerCounts
  <1>1. PInv /\ Course /\ [PageNext]_pageVars =>
           [page' = page /\ page # NoPage =>
               \A r \in Requests : /\ Over(r) => Over(r)'
                                   /\ ~faulty /\ r \in asked /\ r \notin asked' => ~Over(r) /\ Over(r)'
           ]_pageVars
    <2> SUFFICES ASSUME PInv, Course, [PageNext]_pageVars, page' = page, page # NoPage, NEW r \in Requests
                 PROVE  /\ Over(r) => Over(r)'
                        /\ ~faulty /\ r \in asked /\ r \notin asked' => ~Over(r) /\ Over(r)'
      OBVIOUS
    <2>1. [Next]_vars
      BY DEF PageNext, Launch, Kill, Back, Leave, Tap, Swipe, Open, Loads, pageVars
    <2> QED  BY <2>1, AnswersCount DEF PInv
  <1> QED  BY <1>1, CourseAlways, PageInvariance, PTL DEF PageSpec, EveryAnswerCounts
=============================================================================
