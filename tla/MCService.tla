----------------------------- MODULE MCService ------------------------------
(***************************************************************************)
(* Three parts of the service in one run: the live session with two        *)
(* tunings and room for a child too many, the snapshot file with a few     *)
(* events and files that rot, and the migration of three lines on two days.*)
(*                                                                         *)
(* The three share no state, so every behaviour belongs to one of them:    *)
(* part says to which, and the other two stay in one initial state.  What  *)
(* TLC explores is the union of the three state spaces.                    *)
(***************************************************************************)
EXTENDS LiveSession, SnapshotParams, MigrationParams, TLC

CONSTANTS a, b, c
MCDayOf == (a :> 1) @@ (b :> 1) @@ (c :> 2)

VARIABLES
    part,  \* "session", "save" or "import"
    savePc, mem, main, bak, top, rots, newest, wiped, erased,
    importPc, legacy, present, aside, read, buckets, marker, files, stray
saveVars == <<savePc, mem, main, bak, top, rots, newest, wiped, erased>>
importVars == <<importPc, legacy, present, aside, read, buckets, marker, files, stray>>

Save == INSTANCE SnapshotFile WITH pc <- savePc
Import == INSTANCE Migration WITH pc <- importPc

ServiceInit ==
    /\ part \in {"session", "save", "import"}
    /\ Init /\ Save!Init /\ Import!Init
    /\ part # "session" => proc = CHOOSE k \in Children : TRUE
    /\ part # "import" => ~present

ServiceNext ==
    /\ \/ part = "session" /\ Next /\ UNCHANGED <<saveVars, importVars>>
       \/ part = "save" /\ Save!Next /\ UNCHANGED <<vars, importVars>>
       \/ part = "import" /\ Import!Next /\ UNCHANGED <<vars, saveVars>>
    /\ UNCHANGED part

(* The session's fairness.  Only the session's behaviours satisfy it, and  *)
(* only the session has liveness properties; those of the other two are    *)
(* invariants and action properties, which owe nothing to fairness.        *)
ServiceSpec ==
    /\ ServiceInit
    /\ [][ServiceNext]_<<part, vars, saveVars, importVars>>
    /\ Fairness

-----------------------------------------------------------------------------
(* SnapshotFile: wherever the process dies, and whichever rename failed,   *)
(* the next start finds the content of the last completed save.            *)
NothingSavedIsLost == Save!NothingSavedIsLost

(* SnapshotFile: the renames of a save amount to one instant at which what *)
(* a start finds becomes what memory holds, with files that rot, too.      *)
SavedStateSpec == Save!SavedStateSpec

(* Migration: every variable has its type, and no line is twice in a file. *)
ImportTypeOK == Import!TypeOK

(* Migration: a start refuses only an old file that somebody put back,     *)
(* never our own half-done work.                                           *)
RefusesOnlyStrays == Import!RefusesOnlyStrays

(* Migration: a bucket is never renamed over a day file, which may hold    *)
(* newer events.                                                           *)
NothingClobbered == Import!NothingClobbered

(* Migration: through crashes and repeated starts the import happens at    *)
(* once and exactly once.                                                  *)
AtomicImportSpec == Import!AtomicImportSpec
=============================================================================
