--------------------------- MODULE MigrationParams ---------------------------
(***************************************************************************)
(* The lines the migration of the old event file deals with; the           *)
(* parameters of Migration and of what it promises, AtomicImport.          *)
(***************************************************************************)
CONSTANTS
    Lines,  \* the lines of the old file and those the service appends
    Days,   \* the days they fall on
    DayOf   \* the day of each line

ASSUME MigrationAssumption == DayOf \in [Lines -> Days]
=============================================================================
