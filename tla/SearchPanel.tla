----------------------------- MODULE SearchPanel -----------------------------
(* What the results section of a search form shows: nothing, a spinner once a *)
(* search is submitted, then its outcome; an outcome only ever follows the    *)
(* spinner, and clearing the form clears the section.                         *)
VARIABLE panel

Init == panel = "idle"

Submit == panel' = "loading"
Answer == panel = "loading" /\ panel' \in {"empty", "results"}
Clear  == panel' = "idle"

Next == Submit \/ Answer \/ Clear

Spec == Init /\ [][Next]_panel
=============================================================================
