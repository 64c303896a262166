------------------------------ MODULE Migration ------------------------------
(***************************************************************************)
(* The first start of a release that keeps one event file a day, on a      *)
(* machine that holds a single old one: migrate_monolith in                *)
(* backend/export.py, run by backend/cli.py before the log is opened.      *)
(*                                                                         *)
(* One action per change of the file system, so that the process may die   *)
(* between any two of them and begin again.  Buckets are written in        *)
(* .migrate-tmp; the marker COMPLETE says they are whole; renames then     *)
(* move them among the day files, the old file is set aside and the marker *)
(* removed.  The service then appends, and retention or a reset drops      *)
(* days.                                                                   *)
(*                                                                         *)
(* Abstracted: a line is a value with a day, "unknown-date" being a day    *)
(* like the others; a file is the number of copies of each line it holds;  *)
(* the order of lines is left out.  The file system keeps the order of     *)
(* renames; what a dead process had buffered is lost with its bucket.      *)
(***************************************************************************)
EXTENDS MigrationParams, Naturals, Functions

VARIABLES
    pc,       \* where the process stands
    legacy,   \* the old file's lines
    present,  \* does the old file exist?
    aside,    \* lines of <name>.migrated
    read,     \* the lines bucketed so far
    buckets,  \* the files of .migrate-tmp
    marker,   \* does COMPLETE exist?
    files,    \* the day files
    stray     \* observer: the old file was put there after the first start
vars == <<pc, legacy, present, aside, read, buckets, marker, files, stray>>

NoFiles == [d \in {} |-> d]
Blank == [l \in Lines |-> 0]

(* A line written to the file of its day, which is created if need be. *)
WriteTo(f, l) ==
    LET d == DayOf[l]
        old == IF d \in DOMAIN f THEN f[d] ELSE Blank
    IN  [c \in DOMAIN f \cup {d} |-> IF c = d THEN [old EXCEPT ![l] = @ + 1] ELSE f[c]]

Without(f, D) == Restrict(f, DOMAIN f \ D)

Init ==
    /\ pc = "down"
    /\ legacy \in SUBSET Lines /\ present \in BOOLEAN
    /\ present \/ legacy = {}
    /\ aside = {} /\ read = {} /\ stray = FALSE
    /\ buckets = NoFiles /\ marker = FALSE /\ files = NoFiles

(* A seeded slip: buckets that are there are taken for whole. *)
StartTrusting ==
    /\ pc = "down"
    /\ pc' = IF marker \/ DOMAIN buckets # {} THEN "renaming"
             ELSE IF ~present THEN "running"
             ELSE IF DOMAIN files # {} THEN "refused" ELSE "wiping"
    /\ UNCHANGED <<legacy, present, aside, read, buckets, marker, files, stray>>

(* A seeded slip: day files that are there do not matter. *)
StartBlind ==
    /\ pc = "down"
    /\ pc' = IF marker THEN "renaming" ELSE IF present THEN "wiping" ELSE "running"
    /\ UNCHANGED <<legacy, present, aside, read, buckets, marker, files, stray>>

(* Resume, nothing to do, refuse, or begin. *)
Start ==
    /\ pc = "down"
    /\ pc' = IF marker THEN "renaming"
             ELSE IF ~present THEN "running"
             ELSE IF DOMAIN files # {} THEN "refused" ELSE "wiping"
    /\ UNCHANGED <<legacy, present, aside, read, buckets, marker, files, stray>>

(* A seeded slip: buckets of an earlier attempt appended to. *)
WipeNothing ==
    /\ pc = "wiping"
    /\ read' = {} /\ pc' = "bucketing"
    /\ UNCHANGED <<legacy, present, aside, buckets, marker, files, stray>>

(* rmtree of .migrate-tmp, file by file. *)
Wipe ==
    /\ pc = "wiping"
    /\ \/ /\ \E d \in DOMAIN buckets : buckets' = Without(buckets, {d})
          /\ UNCHANGED <<pc, read>>
       \/ /\ DOMAIN buckets = {}
          /\ read' = {} /\ pc' = "bucketing"
          /\ UNCHANGED buckets
    /\ UNCHANGED <<legacy, present, aside, marker, files, stray>>

Bucket(l) ==
    /\ pc = "bucketing"
    /\ l \in legacy \ read
    /\ read' = read \cup {l}
    /\ buckets' = WriteTo(buckets, l)
    /\ UNCHANGED <<pc, legacy, present, aside, marker, files, stray>>

(* Every bucket is flushed and synced, then the marker is written. *)
Mark ==
    /\ pc = "bucketing"
    /\ legacy \subseteq read
    /\ marker' = TRUE
    /\ pc' = "renaming"
    /\ UNCHANGED <<legacy, present, aside, read, buckets, files, stray>>

Rename(d) ==
    /\ pc = "renaming"
    /\ d \in DOMAIN buckets
    /\ files' = [c \in DOMAIN files \cup {d} |-> IF c = d THEN buckets[d] ELSE files[c]]
    /\ buckets' = Without(buckets, {d})
    /\ UNCHANGED <<pc, legacy, present, aside, read, marker, stray>>

(* A seeded slip: the marker removed before the old file is set aside. *)
SetAsideUnmarked ==
    /\ pc = "renaming"
    /\ DOMAIN buckets = {}
    /\ marker' = FALSE
    /\ pc' = IF present /\ marker THEN "renaming" ELSE "cleanup"
    /\ IF marker THEN UNCHANGED <<legacy, present, aside>>
       ELSE /\ aside' = IF present THEN legacy ELSE aside
            /\ legacy' = {} /\ present' = FALSE
    /\ UNCHANGED <<read, buckets, files, stray>>

(* The old file is renamed to <name>.migrated, over one that may be there. *)
SetAside ==
    /\ pc = "renaming"
    /\ DOMAIN buckets = {}
    /\ pc' = "cleanup"
    /\ aside' = IF present THEN legacy ELSE aside
    /\ legacy' = {} /\ present' = FALSE
    /\ UNCHANGED <<read, buckets, marker, files, stray>>

(* A marker that cannot be removed is left, without a word. *)
Cleanup ==
    /\ pc = "cleanup"
    /\ pc' = "running"
    /\ marker' \in {FALSE, marker}
    /\ UNCHANGED <<legacy, present, aside, read, buckets, files, stray>>

-----------------------------------------------------------------------------
(* The service and its surroundings.                                       *)

Count(f, l) == IF DayOf[l] \in DOMAIN f THEN f[DayOf[l]][l] ELSE 0
Copies(l) == Count(files, l) + (IF marker THEN Count(buckets, l) ELSE 0)

Append(l) ==
    /\ pc = "running"
    /\ Copies(l) = 0
    /\ files' = WriteTo(files, l)
    /\ UNCHANGED <<pc, legacy, present, aside, read, buckets, marker, stray>>

(* Retention or a reset: day files are unlinked. *)
DropDays(D) ==
    /\ pc = "running"
    /\ files' = Without(files, D)
    /\ UNCHANGED <<pc, legacy, present, aside, read, buckets, marker, stray>>

(* The process is killed, stops, or gives up on an error of the file       *)
(* system; a bucket being written may lose what was not flushed.           *)
Crash ==
    /\ pc # "down"
    /\ pc' = "down"
    /\ IF pc = "bucketing"
       THEN \E D \in SUBSET DOMAIN buckets :
               buckets' = [d \in DOMAIN buckets |-> IF d \in D THEN Blank ELSE buckets[d]]
       ELSE UNCHANGED buckets
    /\ UNCHANGED <<legacy, present, aside, read, marker, files, stray>>

(* An old release, or a copy put back by hand, makes an old file again. *)
Stray ==
    /\ pc = "down" /\ ~present
    /\ present' = TRUE
    /\ legacy' \in SUBSET Lines
    /\ stray' = TRUE
    /\ UNCHANGED <<pc, aside, read, buckets, marker, files>>

Next ==
    \/ Start \/ Wipe \/ Mark \/ SetAside \/ Cleanup
    \/ \E l \in Lines : Bucket(l)
    \/ \E d \in Days : Rename(d)
    \/ \E l \in Lines : Append(l)
    \/ \E D \in SUBSET Days : DropDays(D)
    \/ Crash
    \/ Stray

Spec == Init /\ [][Next]_vars

-----------------------------------------------------------------------------
(* Every variable has its type, and no line is twice in a file.            *)
Contents == [Lines -> {0, 1}]
TypeOK ==
    /\ pc \in {"down", "wiping", "bucketing", "renaming", "cleanup", "running",
               "refused"}
    /\ legacy \in SUBSET Lines /\ present \in BOOLEAN
    /\ aside \in SUBSET Lines /\ read \in SUBSET Lines
    /\ buckets \in UNION {[D -> Contents] : D \in SUBSET Days}
    /\ files \in UNION {[D -> Contents] : D \in SUBSET Days}
    /\ marker \in BOOLEAN /\ stray \in BOOLEAN

(* A migration interrupted at any point is taken up again: the refusal is  *)
(* for an old file that somebody put back, never for our own half-done     *)
(* work.                                                                   *)
RefusesOnlyStrays == pc = "refused" => stray

(* A bucket is never renamed over a day file, which may hold newer events. *)
NothingClobbered ==
    [][\A d \in Days : Rename(d) => d \notin DOMAIN files]_vars

(* Through crashes and repeated starts the import happens at once and      *)
(* exactly once: the history is the day files and, once marked, the        *)
(* buckets still to be renamed.                                            *)
Atomic == INSTANCE AtomicImport WITH
              history <- [l \in Lines |-> Copies(l)],
              source <- IF marker THEN {} ELSE legacy
AtomicImportSpec == Atomic!Spec
=============================================================================
