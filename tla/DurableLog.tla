----------------------------- MODULE DurableLog ------------------------------
(***************************************************************************)
(* What an event log promises, said without files, handles or threads: an  *)
(* event is added once, whole days are dropped, and losing power may take  *)
(* from the log only what was never made safe.                             *)
(***************************************************************************)
EXTENDS Naturals

CONSTANTS Days, MaxEvents

Events == [id : 1 .. MaxEvents, day : Days]

VARIABLES
    log,   \* the events the log holds
    safe   \* those that survive a loss of power

Add(e) == /\ \A f \in log : f.id < e.id
          /\ log' = log \cup {e}
          /\ safe' = safe

MakeSafe == /\ safe' \in SUBSET log /\ safe \subseteq safe'
            /\ log' = log

Without(S, D) == {e \in S : e.day \notin D}
DropDays(D) == log' = Without(log, D) /\ safe' = Without(safe, D)

LosePower == /\ log' \in SUBSET log /\ safe \subseteq log'
             /\ safe' = log'

Init == log = {} /\ safe = {}
Next == \/ \E e \in Events : Add(e)
        \/ MakeSafe
        \/ \E D \in SUBSET Days : DropDays(D)
        \/ LosePower
Spec == Init /\ [][Next]_<<log, safe>>
=============================================================================
