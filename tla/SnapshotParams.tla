--------------------------- MODULE SnapshotParams ----------------------------
(***************************************************************************)
(* What a snapshot.json may hold; the parameters of SnapshotFile.          *)
(***************************************************************************)
EXTENDS Naturals

CONSTANTS
    MaxVersion,  \* bound: events heard
    MaxRots,     \* bound: files that rot
    Missing,     \* a file that does not exist
    Bad          \* a file that is empty or does not parse

Empty == 0
Versions == 1..MaxVersion
Saved == Versions \cup {Empty}
Content == Saved \cup {Missing, Bad}

ASSUME SnapshotAssumption ==
    /\ MaxVersion \in Nat /\ MaxRots \in Nat
    /\ Missing \notin Nat /\ Bad \notin Nat /\ Missing # Bad
=============================================================================
