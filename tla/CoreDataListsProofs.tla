------------------------- MODULE CoreDataListsProofs -------------------------
(* CoreDataLists for any number of objects, ids and names.                    *)
EXTENDS CoreDataLists, TLAPS

\* Between two processes nothing is left of the list, and the context is read
\* from the store.
NothingWhenOff ==
    mode = "off" => /\ rows = {} /\ table = {}
                    /\ selected = NoChoice /\ page = Nothing
                    /\ context = store

\* Saves that do not fail leave nothing in the context only.
SavedAtOnce == "save" \notin faults => context = store

\* A process that went to the background has saved what was pending.
SavedInBackground == mode = "back" => context = store

IInv ==
    /\ TypeOK
    /\ NothingWhenOff /\ SavedAtOnce
    /\ ListShowsContext /\ SavedInBackground
    /\ RowOpensItsObject

\* A fetch by id finds the object with that id, or nothing; nothing only if a
\* fetch can fail or the object is not saved.
LEMMA FetchById ==
    ASSUME TypeOK, NEW o \in context, NEW f \in Found(o.id)
    PROVE  /\ f = {o} \/ f = {}
           /\ ("fetch" \notin faults /\ context = store) => f = {o}
  <1>1. {q \in context : q.id = o.id} = {o}
    BY DEF TypeOK
  <1>. QED  BY <1>1 DEF Found

\* The end of a process leaves the invariant true.
LEMMA DieStep == IInv /\ Die => IInv'
  BY ListsAssumption DEF IInv, Die, TypeOK, Choice, NoChoice, NothingWhenOff, SavedAtOnce,
     ListShowsContext, SavedInBackground, RowOpensItsObject, kind

\* Opening a page, by the add button or from a row, leaves the invariant true.
LEMMA PageStep ==
    ASSUME IInv, OnList,
           NEW o \in Object \cup {Nothing}, NEW c \in Choice, OpenPage(o, c),
           o # Nothing => o \in context /\ c = Chosen(o)
    PROVE  IInv'
  <1>. PICK f \in IF c.name = Blank THEN {{}} ELSE Found(c.id) :
              page' = [from |-> o, title |-> c.name, shows |-> f]
    BY DEF OpenPage
  <1>1. UNCHANGED <<app, faults, mode, rows, table, context, store>> /\ selected' = c
    BY DEF OpenPage, kind, list, objects
  <1>2. TypeOK'
    <2>1. f \subseteq context
      BY DEF Found
    <2>2. page' \in Page
      BY <2>1 DEF Page, Choice, IInv, TypeOK
    <2>. QED  BY <1>1, <2>2 DEF IInv, TypeOK
  <1>3. NothingWhenOff' /\ SavedAtOnce' /\ ListShowsContext' /\ SavedInBackground'
    BY <1>1 DEF IInv, OnList, NothingWhenOff, SavedAtOnce, ListShowsContext, SavedInBackground
  <1>4. RowOpensItsObject'
    <2>. SUFFICES ASSUME faults = {}, o # Nothing, c.name # Blank
                  PROVE  f = {o}
      BY <1>1 DEF RowOpensItsObject
    <2>1. f \in Found(o.id)
      BY DEF Chosen
    <2>. QED  BY <2>1, FetchById DEF IInv, SavedAtOnce
  <1>. QED  BY <1>2, <1>3, <1>4 DEF IInv

\* Saving a new object leaves the invariant true.
LEMMA AddStep ==
    ASSUME IInv, NEW i \in Fresh, NEW n \in Names, SaveButtonClicked(i, n)
    PROVE  IInv'
  <1>. DEFINE new == [id |-> i, name |-> n]
  <1>0. /\ UNCHANGED <<app, faults, mode, selected>> /\ mode = "front" /\ page' = Nothing
        /\ context' = context \cup {new} /\ Save(context') /\ GetData(context')
    BY DEF SaveButtonClicked, kind
  <1>1. new \in Object /\ \A o \in context \cup store : o.id # i
    BY DEF Fresh, Object
  <1>2. store' = context' \/ (store' = store /\ "save" \in faults)
    BY <1>0 DEF Save
  <1>3. context' # {} /\ context' \subseteq Object
    BY <1>0, <1>1 DEF IInv, TypeOK
  <1>4. /\ rows' \subseteq context' /\ table' \subseteq Object
        /\ "fetch" \notin faults => rows' = context' /\ table' = context'
    BY <1>0, <1>3 DEF GetData, Reloaded, NotReloadedInArtBook, NotReloadedInTravelBook,
       IInv, TypeOK, list
  <1>5. \A o, q \in context' : o.id = q.id => o = q
    BY <1>0, <1>1 DEF IInv, TypeOK
  <1>6. \A o, q \in store' : o.id = q.id => o = q
    BY <1>2, <1>5 DEF IInv, TypeOK
  <1>7. TypeOK'
    BY <1>0, <1>2, <1>3, <1>4, <1>5, <1>6 DEF IInv, TypeOK
  <1>8. NothingWhenOff' /\ SavedAtOnce' /\ ListShowsContext' /\ SavedInBackground'
    BY <1>0, <1>2, <1>4 DEF NothingWhenOff, SavedAtOnce, ListShowsContext, SavedInBackground
  <1>9. RowOpensItsObject'
    BY <1>0 DEF RowOpensItsObject
  <1>. QED  BY <1>7, <1>8, <1>9 DEF IInv

\* Swiping a row away leaves the invariant true.
LEMMA DeleteStep ==
    ASSUME IInv, NEW o \in table, Delete(o)
    PROVE  IInv'
  <1>0. /\ OnList /\ o \in rows /\ UNCHANGED <<app, faults, mode, selected, page>>
    BY DEF Delete, kind
  <1>1. o \in context
    BY <1>0 DEF IInv, TypeOK
  <1>2. PICK f \in Found(o.id) \ {{}} : /\ context' = context \ f
                                       /\ rows' = rows \ f /\ table' = rows'
                                       /\ Save(context')
    BY DEF Delete, WithoutRow
  <1>3. store' = context' \/ (store' = store /\ "save" \in faults)
    BY <1>2 DEF Save
  <1>4. TypeOK'
    BY <1>0, <1>2, <1>3 DEF IInv, TypeOK
  <1>5. NothingWhenOff' /\ SavedAtOnce' /\ ListShowsContext' /\ SavedInBackground'
    BY <1>0, <1>2, <1>3 DEF IInv, OnList, NothingWhenOff, SavedAtOnce, ListShowsContext,
       SavedInBackground
  <1>6. RowOpensItsObject'
    BY <1>0 DEF OnList, RowOpensItsObject
  <1>. QED  BY <1>4, <1>5, <1>6 DEF IInv

\* The invariant holds of every reachable state.
LEMMA Invariance == Spec => []IInv
  <1>1. Init => IInv
    BY ListsAssumption DEF Init, IInv, TypeOK, Choice, NoChoice, NothingWhenOff, SavedAtOnce,
       ListShowsContext, SavedInBackground, RowOpensItsObject
  <1>2. IInv /\ [Next]_vars => IInv'
    <2>. SUFFICES ASSUME IInv, [Next]_vars PROVE IInv'
      OBVIOUS
    <2>1. CASE Launch
      <3>1. /\ UNCHANGED <<app, faults, selected, page, context, store>>
            /\ mode = "off" /\ mode' = "front" /\ GetData(context)
        BY <2>1 DEF Launch, kind, objects
      <3>2. /\ rows' \subseteq context /\ table' \subseteq Object
            /\ "fetch" \notin faults => rows' = context /\ table' = context
        BY <3>1 DEF GetData, Reloaded, NotReloadedInArtBook, NotReloadedInTravelBook,
       IInv, TypeOK, NothingWhenOff, list
      <3>. QED  BY <3>1, <3>2 DEF IInv, TypeOK, NothingWhenOff, SavedAtOnce, ListShowsContext,
                   SavedInBackground, RowOpensItsObject
    <2>2. CASE Kill
      BY <2>2, DieStep DEF Kill
    <2>3. CASE EnterBackground
      <3>1. CASE Die
        BY <3>1, DieStep
      <3>2. CASE /\ mode' = "back" /\ store' = context
                 /\ UNCHANGED <<kind, list, selected, page, context>>
        BY <2>3, <3>2 DEF EnterBackground, IInv, TypeOK, NothingWhenOff, SavedAtOnce,
           ListShowsContext, SavedInBackground, RowOpensItsObject,
           kind, list
      <3>. QED  BY <2>3, <3>1, <3>2 DEF EnterBackground
    <2>4. CASE EnterForeground
      BY <2>4 DEF EnterForeground, IInv, TypeOK, NothingWhenOff, SavedAtOnce, ListShowsContext,
         SavedInBackground, RowOpensItsObject, kind, list, objects
    <2>5. CASE AddButtonClicked
      <3>1. ChoiceToAdd \in Choice
        BY ListsAssumption DEF ChoiceToAdd, Choice, IInv, TypeOK
      <3>. QED  BY <2>5, <3>1, PageStep DEF AddButtonClicked
    <2>6. ASSUME NEW o \in table, DidSelectRow(o) PROVE IInv'
      <3>1. o \in context /\ o \in Object /\ Chosen(o) \in Choice
        BY <2>6 DEF DidSelectRow, IInv, TypeOK, Chosen, Choice, Object
      <3>2. o # Nothing
        BY <3>1, ListsAssumption DEF Object
      <3>. QED  BY <2>6, <3>1, <3>2, PageStep DEF DidSelectRow
    <2>7. ASSUME NEW o \in table, Delete(o) PROVE IInv'
      BY <2>7, DeleteStep
    <2>8. CASE IndexOutOfRange
      BY <2>8, DieStep DEF IndexOutOfRange
    <2>9. ASSUME NEW i \in Fresh, NEW n \in Names, SaveButtonClicked(i, n) PROVE IInv'
      BY <2>9, AddStep
    <2>10. CASE Back
      BY <2>10 DEF Back, IInv, TypeOK, NothingWhenOff, SavedAtOnce, ListShowsContext,
         SavedInBackground, RowOpensItsObject, kind, list, objects
    <2>11. CASE UNCHANGED vars
      BY <2>11 DEF vars, IInv, TypeOK, NothingWhenOff, SavedAtOnce, ListShowsContext,
         SavedInBackground, RowOpensItsObject, kind, list, objects
    <2>. QED  BY <2>1, <2>2, <2>3, <2>4, <2>5, <2>6, <2>7, <2>8, <2>9, <2>10, <2>11 DEF Next
  <1>. QED  BY <1>1, <1>2, PTL DEF Spec

-----------------------------------------------------------------------------
\* Every variable keeps its type, the arrays hold objects of the context only,
\* and ids tell objects apart (getData, saveButtonClicked, the delete).
THEOREM TypeCorrect == Spec => []TypeOK
  BY Invariance, PTL DEF IInv

\* With fetches that succeed, the arrays and the table are the context, through
\* additions and deletions of any number of objects, saved or not (getData and
\* the delete of both programs).
THEOREM ListRight == Spec => []ListShowsContext
  BY Invariance, PTL DEF IInv

\* Without failures a named row opens the page of its own object
\* (didSelectRowAt, prepare(for:) and viewDidLoad of the page).
THEOREM RowOpens == Spec => []RowOpensItsObject
  BY Invariance, PTL DEF IInv

-----------------------------------------------------------------------------
(* Whatever fails, the objects are a DurableSet.                             *)

\* What a screen offers are ids, and only a process in the foreground has one;
\* after a step as before it.
LEMMA Offers ==
    ASSUME TypeOK, TypeOK'
    PROVE  /\ OfferedIds \subseteq Ids /\ (mode # "front" => OfferedIds = {})
           /\ OfferedIds' \subseteq Ids /\ (mode' # "front" => OfferedIds' = {})
  <1>1. (\A o \in table : o.id \in Ids) /\ (\A o \in table' : o.id \in Ids)
    BY DEF TypeOK, Object
  <1>2. (\A x \in IdsOf(table \cap rows) : x \in Ids)
        /\ (\A x \in IdsOf(table \cap rows)' : x \in Ids)
    BY <1>1 DEF IdsOf
  <1>. QED  BY <1>2 DEF OfferedIds

\* A step that leaves the objects alone, within a process or between two, is one of
\* DurableSet.
LEMMA QuietStep ==
    ASSUME IInv, IInv', UNCHANGED <<faults, context, store>>,
           mode = "off" => mode' \in {"off", "front"},
           mode = "front" => mode' = "front",
           mode = "back" => mode' \in {"back", "front"}
    PROVE  [Durable!Next]_(Durable!vars)
  <1>1. IdsOf(context)' = IdsOf(context) /\ IdsOf(store)' = IdsOf(store)
    BY DEF IdsOf
  <1>2. OfferedIds' \subseteq Ids /\ (mode # "front" => OfferedIds = {})
        /\ (mode' # "front" => OfferedIds' = {})
    BY Offers DEF IInv
  <1>3. mode \in {"off", "front", "back"}
    BY DEF IInv, TypeOK
  <1>. QED  BY <1>1, <1>2, <1>3 DEF Durable!vars, Durable!Next, Durable!Goes, Durable!Launch,
               Durable!Show, Durable!EnterForeground

LEMMA EndStep ==
    ASSUME IInv, IInv', mode # "off", Die
    PROVE  Durable!Next
  <1>1. mode' = "off" /\ context' = store /\ store' = store /\ faults' = faults
    BY DEF Die, kind
  <1>2. IdsOf(context)' = IdsOf(store) /\ IdsOf(store)' = IdsOf(store)
    BY <1>1 DEF IdsOf
  <1>3. OfferedIds' = {}
    BY <1>1 DEF OfferedIds
  <1>. QED  BY <1>1, <1>2, <1>3 DEF Durable!Next, Durable!End

\* Going to the background saves what was pending, or ends the process.
LEMMA BackgroundStep ==
    ASSUME IInv, IInv', EnterBackground
    PROVE  Durable!Next
  <1>1. CASE Die
    BY <1>1, EndStep DEF EnterBackground
  <1>2. CASE /\ mode' = "back" /\ store' = context
             /\ UNCHANGED <<kind, list, selected, page, context>>
    <2>1. IdsOf(context)' = IdsOf(context) /\ IdsOf(store)' = IdsOf(context) /\ OfferedIds' = {}
      BY <1>2 DEF IdsOf, OfferedIds
    <2>. QED  BY <1>2, <2>1 DEF EnterBackground, kind, Durable!Next, Durable!EnterBackground,
                 Durable!Goes
  <1>. QED  BY <1>1, <1>2 DEF EnterBackground

\* A row that is swiped away takes its object with it and no other.
LEMMA RemoveStep ==
    ASSUME IInv, IInv', NEW o \in table, Delete(o)
    PROVE  Durable!Next
  <1>1. /\ OnList /\ o \in rows /\ mode' = mode /\ faults' = faults
        /\ context' = context \ {o} /\ (store' = context' \/ (store' = store /\ "save" \in faults))
    BY FetchById DEF Delete, Save, kind, IInv, TypeOK
  <1>2. o \in context /\ o.id \in Ids
    BY <1>1 DEF IInv, TypeOK, Object
  <1>3. IdsOf(context)' = IdsOf(context) \ {o.id} /\ o.id \in IdsOf(context)
    BY <1>1, <1>2 DEF IdsOf, IInv, TypeOK
  <1>4. IdsOf(store)' = IdsOf(context)' \/ (IdsOf(store)' = IdsOf(store) /\ "save" \in faults)
    BY <1>1 DEF IdsOf
  <1>5. o.id \in OfferedIds
    BY <1>1 DEF OnList, OfferedIds, IdsOf
  <1>6. Durable!Change(o.id)
    <2>1. mode = "front" /\ mode' = "front"
      BY <1>1 DEF OnList
    <2>. QED  BY <2>1, <1>3, <1>4, <1>5 DEF Durable!Change, Durable!Goes
  <1>7. OfferedIds' \subseteq Ids /\ mode' = "front"
    BY <1>1, Offers DEF OnList, IInv
  <1>. QED  BY <1>1, <1>2, <1>6, <1>7 DEF Durable!Next

\* A new object has an id that no other has.
LEMMA SaveStep ==
    ASSUME IInv, IInv', NEW i \in Fresh, NEW n \in Names, SaveButtonClicked(i, n)
    PROVE  Durable!Next
  <1>. DEFINE new == [id |-> i, name |-> n]
  <1>1. /\ mode = "front" /\ page # Nothing /\ page.title = Blank /\ mode' = mode
        /\ faults' = faults /\ context' = context \cup {new}
        /\ (store' = context' \/ (store' = store /\ "save" \in faults))
    BY DEF SaveButtonClicked, Save, kind
  <1>2. i \in Ids /\ i \notin IdsOf(context) /\ new.id = i
    BY DEF Fresh, IdsOf
  <1>. HIDE DEF new
  <1>3. IdsOf(context)' = IdsOf(context) \cup {i}
    BY <1>1, <1>2 DEF IdsOf
  <1>4. IdsOf(store)' = IdsOf(context)' \/ (IdsOf(store)' = IdsOf(store) /\ "save" \in faults)
    BY <1>1 DEF IdsOf
  <1>5. i \in OfferedIds
    BY <1>1, <1>2 DEF OfferedIds
  <1>6. Durable!Change(i)
    BY <1>1, <1>2, <1>3, <1>4, <1>5 DEF Durable!Change, Durable!Goes
  <1>7. OfferedIds' \subseteq Ids /\ mode' = "front"
    BY <1>1, Offers DEF OnList, IInv
  <1>. QED  BY <1>1, <1>2, <1>6, <1>7 DEF Durable!Next

\* Whatever saves and fetches fail, both programs keep a DurableSet: the objects
\* change one at a time, where the screen offers it, and what a process leaves is
\* what was saved, which in the background is all of it (the save and the delete of
\* both programs, saveContext).
THEOREM Refinement == Spec => ImplementsSet
  <1>1. Init => Durable!Init
    BY DEF Init, Durable!Init, OfferedIds, IdsOf
  <1>2. IInv /\ IInv' /\ [Next]_vars => [Durable!Next]_(Durable!vars)
    <2>. SUFFICES ASSUME IInv, IInv', [Next]_vars PROVE [Durable!Next]_(Durable!vars)
      OBVIOUS
    <2>1. CASE Launch \/ EnterForeground \/ AddButtonClicked \/ Back \/ UNCHANGED vars
      <3>1. UNCHANGED <<faults, context, store>>
        BY <2>1 DEF Launch, EnterForeground, AddButtonClicked, OpenPage, Back, vars, kind, objects
      <3>2. /\ mode = "off" => mode' \in {"off", "front"}
            /\ mode = "front" => mode' = "front"
            /\ mode = "back" => mode' \in {"back", "front"}
        BY <2>1 DEF Launch, EnterForeground, AddButtonClicked, OnList, OpenPage, Back, vars
      <3>. QED  BY <3>1, <3>2, QuietStep
    <2>2. ASSUME NEW o \in table, DidSelectRow(o) PROVE [Durable!Next]_(Durable!vars)
      <3>1. UNCHANGED <<faults, context, store, mode>> /\ mode = "front"
        BY <2>2 DEF DidSelectRow, OnList, OpenPage, kind, objects
      <3>. QED  BY <3>1, QuietStep
    <2>3. CASE Kill \/ IndexOutOfRange
      BY <2>3, EndStep DEF Kill, IndexOutOfRange, OnList
    <2>. QED  BY <2>1, <2>2, <2>3, BackgroundStep, RemoveStep, SaveStep DEF Next
  <1>. QED  BY <1>1, <1>2, Invariance, PTL DEF Spec, ImplementsSet, Durable!Spec
=============================================================================
