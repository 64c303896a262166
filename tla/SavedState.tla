----------------------------- MODULE SavedState ------------------------------
(***************************************************************************)
(* What the snapshot file promises: a save replaces, at one instant, what  *)
(* the next start will find by what memory holds; nothing else changes it  *)
(* but an erasure or a file that rots, for which there is a spare.         *)
(***************************************************************************)
EXTENDS Naturals

CONSTANTS
    Versions,  \* the contents memory may have
    Empty,     \* memory with nothing in it
    Nothing    \* no content to be found

VARIABLES
    mem,    \* what the running service holds
    value,  \* what a start would find
    spare,  \* what it would find without the newest file
    rotten  \* has a file ever rotted?
vars == <<mem, value, spare, rotten>>

Init == mem = Empty /\ value = Nothing /\ spare = Nothing /\ rotten = FALSE

Change == mem' \in Versions \cup {Empty} /\ UNCHANGED <<value, spare, rotten>>
Find == /\ mem' = IF value = Nothing THEN Empty ELSE value
        /\ UNCHANGED <<value, spare, rotten>>
Store == value' = mem /\ UNCHANGED <<mem, spare, rotten>>
Keep == spare' = value /\ UNCHANGED <<mem, value, rotten>>
Erase == mem = Empty /\ value' = spare /\ UNCHANGED <<mem, spare, rotten>>
Rot == /\ rotten' = TRUE
       /\ value' \in {value, spare, Nothing} /\ spare' \in {spare, Nothing}
       /\ UNCHANGED mem
Lose == rotten /\ value' = Nothing /\ spare' = Nothing /\ UNCHANGED <<mem, rotten>>

Next == Change \/ Find \/ Store \/ Keep \/ Erase \/ Rot \/ Lose
Spec == Init /\ [][Next]_vars
=============================================================================
