--------------------------- MODULE MCSnapshotFile ----------------------------
(* The snapshot file with a few events and a file that rots. *)
EXTENDS SnapshotFile
=============================================================================
