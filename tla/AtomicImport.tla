---------------------------- MODULE AtomicImport -----------------------------
(***************************************************************************)
(* What the migration of the old event file promises: whoever reads the    *)
(* history sees none of the old file's lines, or all of them once, never   *)
(* something between.                                                      *)
(***************************************************************************)
EXTENDS MigrationParams, Naturals

VARIABLES
    history,  \* how often each line is in the history
    source    \* the old file's lines; empty when there is nothing to import

Empty == [l \in Lines |-> 0]
Once(S) == [l \in Lines |-> IF l \in S THEN 1 ELSE 0]

Import == history = Empty /\ history' = Once(source) /\ source' = {}
Add(l) == history[l] = 0 /\ history' = [history EXCEPT ![l] = 1] /\ UNCHANGED source
Drop(D) == /\ history' = [l \in Lines |-> IF DayOf[l] \in D THEN 0 ELSE history[l]]
           /\ UNCHANGED source
Bring == source = {} /\ source' \in SUBSET Lines /\ UNCHANGED history

Init == history = Empty /\ source \in SUBSET Lines
Next == \/ Import
        \/ \E l \in Lines : Add(l)
        \/ \E D \in SUBSET Days : Drop(D)
        \/ Bring
Spec == Init /\ [][Next]_<<history, source>>
=============================================================================
