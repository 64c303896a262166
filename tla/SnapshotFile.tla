---------------------------- MODULE SnapshotFile -----------------------------
(***************************************************************************)
(* snapshot.json: atomic_write_text and load_snapshot of backend/state.py, *)
(* the saves of backend/cli.py (every 30 s and once more on the way out)   *)
(* and the reset of backend/server.py.                                     *)
(*                                                                         *)
(* Saves and resets run on the event loop without an await: nothing of the *)
(* process comes between their steps, but the process may die there, and a *)
(* file may rot at any time.  One action per change of a file.             *)
(*                                                                         *)
(* Abstracted: what memory holds is a version, new with every event; the   *)
(* temporary file has a fresh name every time, so one that a dead process  *)
(* left is never read and is forgotten here.  A save that fails before it  *)
(* renames anything changes nothing.                                       *)
(***************************************************************************)
EXTENDS SnapshotParams

VARIABLES
    pc,      \* "down", "running", "written", "backed", "resetting"
    mem,     \* the version in memory
    main,    \* snapshot.json
    bak,     \* snapshot.json.bak
    top,     \* the newest version there ever was
    rots,    \* files that rotted
    newest,  \* observer: content of the last save that completed
    wiped,   \* observer: a reset completed, and no save since
    erased   \* observer: the newest version a reset has erased
vars == <<pc, mem, main, bak, top, rots, newest, wiped, erased>>

(* The first candidate that exists and parses. *)
Load(m, b) == IF m \in Saved THEN m ELSE IF b \in Saved THEN b ELSE Missing
Found == Load(main, bak)

Init ==
    /\ pc = "down" /\ mem = Empty
    /\ main = Missing /\ bak = Missing
    /\ top = 0 /\ rots = 0
    /\ newest = Missing /\ wiped = FALSE /\ erased = 0

Start ==
    /\ pc = "down"
    /\ pc' = "running"
    /\ mem' = IF Found = Missing THEN Empty ELSE Found
    /\ UNCHANGED <<main, bak, top, rots, newest, wiped, erased>>

Hear ==
    /\ pc = "running" /\ top < MaxVersion
    /\ top' = top + 1 /\ mem' = top'
    /\ UNCHANGED <<pc, main, bak, rots, newest, wiped, erased>>

(* The temporary file is written and synced. *)
Write ==
    /\ pc = "running"
    /\ pc' = "written"
    /\ UNCHANGED <<mem, main, bak, top, rots, newest, wiped, erased>>

(* A seeded slip: the old file is removed to make room for the new one. *)
BackupUnlinks ==
    /\ pc = "written"
    /\ pc' = "backed"
    /\ main' = Missing
    /\ UNCHANGED <<mem, bak, top, rots, newest, wiped, erased>>

(* The old file becomes the backup, whatever it holds; if that fails the   *)
(* save goes on.                                                           *)
Backup ==
    /\ pc = "written"
    /\ pc' = "backed"
    /\ \/ main # Missing /\ bak' = main /\ main' = Missing
       \/ UNCHANGED <<main, bak>>
    /\ UNCHANGED <<mem, top, rots, newest, wiped, erased>>

(* A seeded slip: a save that could not back up gives up in silence. *)
SwapKeepsOld ==
    /\ pc = "backed"
    /\ pc' = "running"
    /\ main' = IF main = Missing THEN mem ELSE main
    /\ newest' = mem /\ wiped' = FALSE
    /\ UNCHANGED <<mem, bak, top, rots, erased>>

Swap ==
    /\ pc = "backed"
    /\ pc' = "running"
    /\ main' = mem
    /\ newest' = mem /\ wiped' = FALSE
    /\ UNCHANGED <<mem, bak, top, rots, erased>>

(* The last rename fails: the temporary file is removed, the backup stays  *)
(* the only copy until the next save.                                      *)
SwapFails ==
    /\ pc = "backed"
    /\ pc' = "running"
    /\ UNCHANGED <<mem, main, bak, top, rots, newest, wiped, erased>>

Reset ==
    /\ pc = "running"
    /\ pc' = "resetting" /\ mem' = Empty
    /\ UNCHANGED <<main, bak, top, rots, newest, wiped, erased>>

(* snapshot.json is unlinked, or an error ignored; the other file unlinked *)
(* is snapshot.bak, which nothing writes.                                  *)
Unlink ==
    /\ pc = "resetting"
    /\ pc' = "running"
    /\ \/ main' = Missing /\ erased' = top
       \/ main # Missing /\ UNCHANGED <<main, erased>>
    /\ wiped' = TRUE
    /\ UNCHANGED <<mem, bak, top, rots, newest>>

Crash ==
    /\ pc # "down"
    /\ pc' = "down" /\ mem' = Empty
    /\ UNCHANGED <<main, bak, top, rots, newest, wiped, erased>>

(* A file is found truncated or corrupt. *)
Rot ==
    /\ rots < MaxRots
    /\ rots' = rots + 1
    /\ \/ main \in Saved /\ main' = Bad /\ UNCHANGED bak
       \/ bak \in Saved /\ bak' = Bad /\ UNCHANGED main
    /\ UNCHANGED <<pc, mem, top, newest, wiped, erased>>

Next == \/ Start \/ Hear \/ Write \/ Backup \/ Swap \/ SwapFails
        \/ Reset \/ Unlink \/ Crash \/ Rot
Spec == Init /\ [][Next]_vars

-----------------------------------------------------------------------------
(* Every variable has its type; memory never holds what does not parse.    *)
TypeOK ==
    /\ pc \in {"down", "running", "written", "backed", "resetting"}
    /\ mem \in Saved
    /\ main \in Content /\ bak \in Content
    /\ top \in 0..MaxVersion /\ rots \in 0..MaxRots
    /\ newest \in Saved \cup {Missing} /\ wiped \in BOOLEAN
    /\ erased \in 0..MaxVersion

(* Wherever the process dies, and whichever rename failed, the next start  *)
(* finds the content of the last completed save.                           *)
NothingSavedIsLost == rots = 0 /\ ~wiped => Found = newest

(* The renames of a save amount to one instant at which what a start finds *)
(* becomes what memory holds, with files that rot, too.                    *)
State == INSTANCE SavedState WITH
             Nothing <- Missing,
             value <- Found,
             spare <- Load(Missing, bak),
             rotten <- rots > 0
SavedStateSpec == State!Spec

(* "Erase all accumulated state: radios, events, SQLite index, and         *)
(* snapshot file": once the reset has unlinked its files, no start brings  *)
(* back what it erased.                                                    *)
ResetIsFinal == mem # Empty => mem > erased
=============================================================================
