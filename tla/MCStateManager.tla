--------------------------- MODULE MCStateManager ---------------------------
(* StateManager on two channels and one more radio than the table holds.   *)
EXTENDS StateManager, TLC

(* Snapshots found on disk: none, or one from before the cap, with every   *)
(* radio in it, in any order of insertion.                                 *)
MCSnapshots ==
    {[r \in {} |-> r]} \cup
    {t \in [Radios -> [lastSeen : {1}, encrypted : {FALSE},
                       pos : 0 .. Cardinality(Radios)]] : Ranked(t)}

MCSymmetry == Permutations(Radios) \cup Permutations(Channels)
=============================================================================
