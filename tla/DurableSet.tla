----------------------------- MODULE DurableSet -----------------------------
(* What a program that keeps a set of ids promises its user.  Only he changes *)
(* the set, an id at a time, and only where the screen offers him that id; a  *)
(* process that ends keeps what was saved and nothing else, which is all he   *)
(* sees when no save fails, and all of it in the background in any case.      *)
CONSTANT Ids

VARIABLES place,    \* "off", "front" or "back": where the process is
          held,     \* the set as the process has it
          kept,     \* the set as the next process would find it
          offered,  \* the ids that the screen lets the user add or remove
          lossy     \* whether the save of a change may fail

vars == <<place, held, kept, offered, lossy>>

Init ==
    /\ place = "off" /\ held = {} /\ kept = {} /\ offered = {}
    /\ lossy \in BOOLEAN

Goes(from, to) == place = from /\ place' = to

Launch          == Goes("off", "front") /\ UNCHANGED <<held, kept>>
Show            == Goes("front", "front") /\ UNCHANGED <<held, kept>>
EnterForeground == Goes("back", "front") /\ UNCHANGED <<held, kept>>

\* Whatever was not saved before is saved now.
EnterBackground == Goes("front", "back") /\ held' = held /\ kept' = held

\* The user adds i, or removes it.
Change(i) ==
    /\ Goes("front", "front")
    /\ i \in offered
    /\ held' = IF i \in held THEN held \ {i} ELSE held \cup {i}
    /\ kept' = held' \/ (lossy /\ kept' = kept)

\* The process ends, by itself or not, wherever it is.
End == place # "off" /\ place' = "off" /\ held' = kept /\ kept' = kept

Next ==
    /\ \/ Launch \/ Show \/ EnterForeground \/ EnterBackground \/ End
       \/ \E i \in Ids : Change(i)
    /\ offered' \subseteq Ids /\ (place' # "front" => offered' = {})
    /\ UNCHANGED lossy

Spec == Init /\ [][Next]_vars
=============================================================================
