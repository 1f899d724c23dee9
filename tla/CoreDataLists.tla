---------------------------- MODULE CoreDataLists ----------------------------
(* ArtBookProject and TravelBook: a list of the objects of a Core Data        *)
(* context, and the page that shows an object or adds one.  The two programs  *)
(* differ in what the add button and an unlucky fetch do; the rest is one.    *)
CONSTANTS Ids,        \* UUIDs, more than are in use at once
          Names,      \* what may be typed into the name field
          Blank,      \* "", the name that also means: no object was chosen
          NoId,       \* nil
          Nothing     \* no page, and what the add button opens a page for

ASSUME ListsAssumption == Blank \in Names /\ Nothing \notin [id : Ids, name : Names]

VARIABLES
    app,        \* which of the two programs this is
    faults,     \* what may go wrong: saves of the context, fetches from it
    mode,       \* "off", "front" or "back", for background
    rows,       \* the parallel arrays of names and ids
    table,      \* the rows that the table shows since its last reload
    selected,   \* selectedPainting and its id, selectedTitle and its id
    page,       \* what is on the screen above the list, or Nothing
    context,    \* viewContext, with the changes that are not saved yet
    store       \* the persistent store

kind    == <<app, faults>>
list    == <<rows, table>>
objects == <<context, store>>
vars    == <<kind, mode, list, selected, page, objects>>

Object == [id : Ids, name : Names]
Choice == [name : Names, id : Ids \cup {NoId}]
\* "from" is history: the row that was tapped.  "shows" is what the fetch found.
Page   == [from : Object \cup {Nothing}, title : Names, shows : SUBSET Object]

TypeOK ==
    /\ app \in {"ArtBook", "TravelBook"} /\ faults \subseteq {"save", "fetch"}
    /\ mode \in {"off", "front", "back"}
    /\ rows \subseteq context /\ table \subseteq Object
    /\ selected \in Choice
    /\ page \in Page \cup {Nothing}
    /\ context \subseteq Object /\ store \subseteq Object
    /\ \A s \in {context, store} : \A o, q \in s : o.id = q.id => o = q

NoChoice == [name |-> Blank, id |-> NoId]

Init ==
    /\ app \in {"ArtBook", "TravelBook"} /\ faults \in SUBSET {"save", "fetch"}
    /\ mode = "off"
    /\ rows = {} /\ table = {}
    /\ selected = NoChoice /\ page = Nothing
    /\ context = {} /\ store = {}

-----------------------------------------------------------------------------
(* The context.  Its fetches see the changes that are not saved yet.          *)

\* Variant: the changes stay in the context.
NoSave(objs) == UNCHANGED store

\* context.save(): a failure leaves all changes pending.
Save(objs) ==
    \/ store' = objs
    \/ "save" \in faults /\ UNCHANGED store

\* The objects a fetch by id may return.  The predicate compares a UUID with a
\* string, which only the store does: an object that it lacks may be missed.
Found(i) ==
    LET all == {o \in context : o.id = i}
    IN  {all} \cup IF "fetch" \in faults \/ ~(all \subseteq store) THEN {{}} ELSE {}

Reloaded(objs) == objs # {} /\ rows' = objs /\ table' = objs

\* Without results, or when the fetch fails, reloadData is not called: ArtBook has
\* emptied its arrays by then.  Each appearance of the list adds an observer more,
\* so that after a save getData may run again, and fail after a reload.
NotReloadedInArtBook == rows' = {} /\ table' \in {table, {}}

\* TravelBook empties its arrays when there are results.
NotReloadedInTravelBook == UNCHANGED list

\* getData, over the objects of the context
GetData(objs) ==
    \/ Reloaded(objs)
    \/ /\ objs = {} \/ "fetch" \in faults
       /\ \/ app = "ArtBook" /\ NotReloadedInArtBook
          \/ app = "TravelBook" /\ NotReloadedInTravelBook

-----------------------------------------------------------------------------
(* The process.                                                              *)

\* viewDidLoad of the list
Launch ==
    /\ mode = "off"
    /\ mode' = "front"
    /\ GetData(context)
    /\ UNCHANGED <<kind, selected, page, objects>>

\* The process ends: what is not in the store is gone.
Die ==
    /\ mode' = "off"
    /\ rows' = {} /\ table' = {} /\ selected' = NoChoice /\ page' = Nothing
    /\ context' = store
    /\ UNCHANGED <<kind, store>>

Kill == mode # "off" /\ Die

\* sceneDidEnterBackground: saveContext ends the process when it cannot save.
EnterBackground ==
    /\ mode = "front"
    /\ \/ /\ mode' = "back"
          /\ store' = context
          /\ UNCHANGED <<kind, list, selected, page, context>>
       \/ "save" \in faults /\ context # store /\ Die

EnterForeground ==
    /\ mode = "back"
    /\ mode' = "front"
    /\ UNCHANGED <<kind, list, selected, page, objects>>

-----------------------------------------------------------------------------
(* The list.                                                                 *)

OnList == mode = "front" /\ page = Nothing

\* The choice with which the add button opens a page: TravelBook keeps it.
ChoiceToAdd ==
    IF app = "ArtBook" THEN [selected EXCEPT !.name = Blank] ELSE selected

\* prepare(for:) and viewDidLoad of the page: a name that is not blank hides the
\* save button and has the object fetched by its id.
OpenPage(o, choice) ==
    /\ selected' = choice
    /\ \E f \in IF choice.name = Blank THEN {{}} ELSE Found(choice.id) :
          page' = [from |-> o, title |-> choice.name, shows |-> f]
    /\ UNCHANGED <<kind, mode, list, objects>>

AddButtonClicked == OnList /\ OpenPage(Nothing, ChoiceToAdd)

\* Variant: the id is taken at the first tap only.
FirstIdChosen(o) ==
    [name |-> o.name, id |-> IF selected.id = NoId THEN o.id ELSE selected.id]

Chosen(o) == [name |-> o.name, id |-> o.id]

DidSelectRow(o) ==
    /\ OnList
    /\ o \in table \cap rows
    /\ OpenPage(o, Chosen(o))

WithoutRow(found) == rows \ found

\* A row is swiped away; when the fetch fails or finds nothing, nothing happens.
Delete(o) ==
    /\ OnList
    /\ o \in table \cap rows
    /\ \E f \in Found(o.id) \ {{}} :
          /\ context' = context \ f
          /\ rows' = WithoutRow(f) /\ table' = rows'
          /\ Save(context')
    /\ UNCHANGED <<kind, mode, selected, page>>

\* A row of the table that the arrays lack is drawn, tapped or swiped.
IndexOutOfRange == OnList /\ ~(table \subseteq rows) /\ Die

-----------------------------------------------------------------------------
(* The page.                                                                 *)

Fresh == {i \in Ids \ {selected.id} : \A o \in context \cup store \cup table : o.id # i}

\* Variant: the list is not told.
SaveQuietly(i, n) ==
    /\ mode = "front" /\ page # Nothing /\ page.title = Blank
    /\ context' = context \cup {[id |-> i, name |-> n]}
    /\ Save(context')
    /\ page' = Nothing
    /\ UNCHANGED <<kind, mode, selected, list>>

\* saveButtonClicked, saveButton: whether or not the save succeeds the list is
\* told and comes back.  ArtBook's button waits for a picture to be picked.
SaveButtonClicked(i, n) ==
    /\ mode = "front" /\ page # Nothing /\ page.title = Blank
    /\ context' = context \cup {[id |-> i, name |-> n]}
    /\ Save(context')
    /\ GetData(context')
    /\ page' = Nothing
    /\ UNCHANGED <<kind, mode, selected>>

Back ==
    /\ mode = "front" /\ page # Nothing
    /\ page' = Nothing
    /\ UNCHANGED <<kind, mode, list, selected, objects>>

Next ==
    \/ Launch \/ Kill \/ EnterBackground \/ EnterForeground
    \/ AddButtonClicked
    \/ \E o \in table : DidSelectRow(o) \/ Delete(o)
    \/ IndexOutOfRange
    \/ \E i \in Fresh, n \in Names : SaveButtonClicked(i, n)
    \/ Back

Spec == Init /\ [][Next]_vars

-----------------------------------------------------------------------------
\* As long as fetches succeed the list is that of the objects in the context,
\* saved or not, and the table has a row for each and no other: no row that is
\* tapped or swiped is out of the range of the arrays (ListViewController.swift
\* 49-75, ViewController.swift 34-60 of ArtBookProject).
ListShowsContext ==
    (mode # "off" /\ "fetch" \notin faults) => (rows = context /\ table = context)

\* The page a named row opens shows the object of that row and no other, after
\* any number of additions and deletions, when neither saves nor fetches fail.
RowOpensItsObject ==
    (faults = {} /\ page # Nothing /\ page.from # Nothing /\ page.title # Blank)
        => page.shows = {page.from}

\* The objects are a set that only the user changes, one at a time: the list lets
\* him delete the objects of its rows, a page without a name add one, and no other
\* screen changes any, whatever fetches fail.  A process that ends loses what saves
\* failed to write: nothing when saves do not fail, and nothing in the background,
\* where saveContext has tried again ("Save changes in the application's managed
\* object context when the application transitions to the background",
\* SceneDelegate.swift 49).
IdsOf(objs) == {o.id : o \in objs}
OfferedIds ==
    IF mode # "front" THEN {}
    ELSE IF page = Nothing THEN IdsOf(table \cap rows)
    ELSE IF page.title = Blank THEN Ids \ IdsOf(context) ELSE {}
Durable == INSTANCE DurableSet WITH
               place <- mode, held <- IdsOf(context), kept <- IdsOf(store),
               offered <- OfferedIds, lossy <- "save" \in faults
ImplementsSet == Durable!Spec
=============================================================================
