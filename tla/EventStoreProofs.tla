-------------------------- MODULE EventStoreProofs ---------------------------
(***************************************************************************)
(* Theorems about EventStore, for any number of days, events, timers and   *)
(* any batch and chunk size.                                               *)
(*                                                                         *)
(* The index is a machine of its own: IndexOK is preserved by each of its  *)
(* fragments, whoever calls it, and each fragment says what it does to the *)
(* rows held (committed or not).  The store's inductive invariant StoreOK  *)
(* then only has to follow files, handle and observers.                    *)
(***************************************************************************)
EXTENDS EventStore, FiniteSetTheorems, TLAPS

Held == rows \cup pending

(* The part of the invariant that is the index's own. *)
IndexTyped ==
    /\ rows \in SUBSET Events /\ pending \in SUBSET Events
    /\ timer \in Timers \cup {None}
    /\ threads \in [Timers -> {"free", "armed", "fired"}]
    /\ closed \in BOOLEAN /\ stuck \in BOOLEAN
(* _timer names a thread that will still run; a closed index holds nothing. *)
TimerLives == timer # None => threads[timer] # "free"
ClosedIsIdle == closed => pending = {} /\ timer = None
IndexOK == IndexTyped /\ TimerLives /\ ClosedIsIdle /\ PendingIsWatched

USE EventIndexAssumption, EventStoreAssumption

LEMMA CancelledTyped ==
  ASSUME IndexTyped
  PROVE  Cancelled \in [Timers -> {"free", "armed", "fired"}]
  BY DEF IndexTyped, Cancelled

(* Whatever batch a commit takes, the index is in order after it. *)
LEMMA CommitKeepsIndex ==
  ASSUME IndexTyped, NEW batch \in SUBSET Events, NEW ok \in BOOLEAN,
         CommitLocked(batch, ok), closed => batch = {}
  PROVE  IndexOK' /\ Held' = rows \cup batch /\ closed' = closed
<1>1. Cancelled \in [Timers -> {"free", "armed", "fired"}]
  BY CancelledTyped
<1>2. threads' = Cancelled /\ timer' = None /\ closed' = closed
  BY DEF CommitLocked
<1>3. /\ rows' = IF ok THEN rows \cup batch ELSE rows
      /\ pending' = IF ok THEN {} ELSE batch
      /\ stuck' = (~ok /\ batch # {})
  BY DEF CommitLocked, Committed
<1>4. rows' \in SUBSET Events /\ pending' \in SUBSET Events /\ stuck' \in BOOLEAN
  BY <1>3 DEF IndexTyped
<1>5. IndexTyped'
  BY <1>1, <1>2, <1>4 DEF IndexTyped
<1>6. pending' # {} => stuck'
  BY <1>3
<1>7. closed' => pending' = {}
  BY <1>2, <1>3
<1>8. Held' = rows \cup batch
  BY <1>3 DEF Held
<1> QED
  BY <1>2, <1>5, <1>6, <1>7, <1>8
     DEF IndexOK, TimerLives, ClosedIsIdle, PendingIsWatched

LEMMA ArmKeepsTypes ==
  ASSUME IndexTyped, Arm
  PROVE  /\ threads' \in [Timers -> {"free", "armed", "fired"}]
         /\ timer' \in Timers /\ threads'[timer'] # "free"
<1>1. PICK t \in Timers : /\ threads[t] = "free"
                          /\ threads' = [threads EXCEPT ![t] = "armed"]
                          /\ timer' = t
  BY DEF Arm
<1> QED
  BY <1>1 DEF IndexTyped

(* append() leaves a row with someone to commit it. *)
LEMMA InsertKeepsIndex ==
  ASSUME IndexOK, NEW e \in Events, NEW inserted \in BOOLEAN, NEW due \in BOOLEAN,
         Insert(e, inserted, due)
  PROVE  /\ IndexOK' /\ closed' = closed
         /\ Held \subseteq Held' /\ Held' \subseteq Held \cup {e}
         /\ inserted /\ ~closed => e \in Held'
<1> DEFINE batch == pending \cup {e}
<1>b. IndexTyped /\ batch \in SUBSET Events
  BY DEF IndexOK, IndexTyped
<1>1. CASE closed \/ ~inserted
  <2>1. UNCHANGED index
    BY <1>1 DEF Insert
  <2> QED
    BY <2>1, <1>1 DEF index, IndexOK, IndexTyped, TimerLives, ClosedIsIdle,
                      PendingIsWatched, Held
<1>2. CASE ~closed /\ inserted /\ (due \/ Cardinality(batch) >= BatchSize)
  <2>1. PICK ok \in BOOLEAN : CommitLocked(batch, ok)
    BY <1>2 DEF Insert
  <2>2. IndexOK' /\ Held' = rows \cup batch /\ closed' = closed
    BY <2>1, <1>b, <1>2, CommitKeepsIndex
  <2> QED
    BY <2>2 DEF Held
<1>3. CASE ~closed /\ inserted /\ ~(due \/ Cardinality(batch) >= BatchSize)
  <2>1. /\ pending' = batch
        /\ IF timer = None THEN Arm ELSE UNCHANGED <<timer, threads>>
        /\ UNCHANGED <<rows, closed, stuck>>
    BY <1>3 DEF Insert
  <2>2. /\ threads' \in [Timers -> {"free", "armed", "fired"}]
        /\ timer' \in Timers /\ threads'[timer'] # "free"
    <3>1. CASE timer = None
      BY <3>1, <2>1, <1>b, ArmKeepsTypes
    <3>2. CASE timer # None
      BY <3>2, <2>1 DEF IndexOK, IndexTyped, TimerLives
    <3> QED
      BY <3>1, <3>2
  <2>3. IndexOK'
    BY <2>1, <2>2, <1>b, <1>3
       DEF IndexOK, IndexTyped, TimerLives, ClosedIsIdle, PendingIsWatched
  <2> QED
    BY <2>1, <2>3 DEF Held
<1> QED
  BY <1>1, <1>2, <1>3

(* A timer thread takes nothing away and leaves no row unwatched. *)
LEMMA TimerKeepsIndex ==
  ASSUME IndexOK, NEW t \in Timers, Fire(t) \/ TimedCommit(t)
  PROVE  IndexOK' /\ Held' = Held /\ closed' = closed
<1>1. CASE Fire(t)
  <2>1. threads' \in [Timers -> {"free", "armed", "fired"}]
    BY <1>1 DEF Fire, IndexOK, IndexTyped
  <2>2. \A u \in Timers : threads[u] # "free" => threads'[u] # "free"
    BY <1>1 DEF Fire, IndexOK, IndexTyped
  <2> QED
    BY <1>1, <2>1, <2>2 DEF Fire, IndexOK, IndexTyped, TimerLives, ClosedIsIdle,
                            PendingIsWatched, Held
<1>2. CASE TimedCommit(t) /\ closed
  <2>1. threads' \in [Timers -> {"free", "armed", "fired"}]
    BY <1>2 DEF TimedCommit, IndexOK, IndexTyped
  <2>2. pending' = {} /\ timer' = None /\ UNCHANGED <<rows, pending, closed, stuck>>
    BY <1>2 DEF TimedCommit, IndexOK, ClosedIsIdle
  <2> QED
    BY <2>1, <2>2 DEF IndexOK, IndexTyped, TimerLives, ClosedIsIdle,
                      PendingIsWatched, Held
<1>3. CASE TimedCommit(t) /\ ~closed
  <2>1. threads' \in [Timers -> {"free", "armed", "fired"}]
    BY <1>3 DEF TimedCommit, IndexOK, IndexTyped
  <2>2. PICK ok \in BOOLEAN : Committed(pending, ok)
    BY <1>3 DEF TimedCommit
  <2>3. timer' = None /\ ~closed' /\ closed' = closed
    BY <1>3 DEF TimedCommit
  <2>4. /\ rows' = IF ok THEN rows \cup pending ELSE rows
        /\ pending' = IF ok THEN {} ELSE pending
        /\ stuck' = (~ok /\ pending # {})
    BY <2>2 DEF Committed
  <2>5. pending' # {} => stuck'
    BY <2>4
  <2>6. rows' \in SUBSET Events /\ pending' \in SUBSET Events /\ stuck' \in BOOLEAN
    BY <2>4 DEF IndexOK, IndexTyped
  <2>7. Held' = Held
    BY <2>4 DEF Held
  <2> QED
    BY <2>1, <2>3, <2>5, <2>6, <2>7 DEF IndexOK, IndexTyped, TimerLives,
       ClosedIsIdle, PendingIsWatched
<1> QED
  BY <1>1, <1>2, <1>3

LEMMA CommitPendingKeepsIndex ==
  ASSUME IndexOK, NEW ok \in BOOLEAN, CommitLocked(pending, ok)
  PROVE  IndexOK' /\ Held' = Held /\ closed' = closed
<1>1. IndexTyped /\ pending \in SUBSET Events /\ (closed => pending = {})
  BY DEF IndexOK, IndexTyped, ClosedIsIdle
<1> QED
  BY <1>1, CommitKeepsIndex DEF Held

(* A chunk takes old rows, and no others. *)
LEMMA DeleteKeepsIndex ==
  ASSUME IndexOK, ~closed, NEW old, NEW gone, DeleteChunkOf(old, gone)
  PROVE  /\ IndexOK' /\ closed' = closed
         /\ Held' = Held \ gone /\ gone \subseteq old
<1>1. Cancelled \in [Timers -> {"free", "armed", "fired"}]
  BY CancelledTyped DEF IndexOK
<1>2. /\ gone \subseteq old
      /\ threads' = Cancelled /\ timer' = None /\ closed' = closed
      /\ rows' = Held \ gone /\ pending' = {} /\ stuck' = FALSE
  BY DEF DeleteChunkOf, Held
<1>3. rows' \in SUBSET Events
  BY <1>2 DEF IndexOK, IndexTyped, Held
<1> QED
  BY <1>1, <1>2, <1>3 DEF IndexOK, IndexTyped, TimerLives, ClosedIsIdle,
                          PendingIsWatched, Held

LEMMA DeleteAllKeepsIndex ==
  ASSUME IndexOK, DeleteAll
  PROVE  IndexOK' /\ closed' = closed /\ Held' = {}
<1>1. Cancelled \in [Timers -> {"free", "armed", "fired"}]
  BY CancelledTyped DEF IndexOK
<1> QED
  BY <1>1 DEF DeleteAll, IndexOK, IndexTyped, TimerLives, ClosedIsIdle,
              PendingIsWatched, Held

LEMMA CloseKeepsIndex ==
  ASSUME IndexOK, NEW ok \in BOOLEAN, CloseIndex(ok)
  PROVE  /\ IndexOK' /\ Held' \subseteq Held
         /\ Held \subseteq Held' \cup IF ok THEN {} ELSE pending
<1>1. Cancelled \in [Timers -> {"free", "armed", "fired"}]
  BY CancelledTyped DEF IndexOK
<1>2. CASE closed
  BY <1>2 DEF CloseIndex, index, IndexOK, IndexTyped, TimerLives, ClosedIsIdle,
              PendingIsWatched, Held
<1>3. CASE ~closed
  <2>1. /\ closed' = TRUE /\ threads' = Cancelled /\ timer' = None
        /\ rows' = IF ok THEN rows \cup pending ELSE rows
        /\ pending' = {} /\ stuck' = FALSE
    BY <1>3 DEF CloseIndex
  <2>2. rows' \in SUBSET Events
    BY <2>1 DEF IndexOK, IndexTyped
  <2> QED
    BY <1>1, <2>1, <2>2 DEF IndexOK, IndexTyped, TimerLives, ClosedIsIdle,
                            PendingIsWatched, Held
<1> QED
  BY <1>2, <1>3

LEMMA GoneKeepsIndex ==
  ASSUME IndexGone, rows' \in SUBSET Events
  PROVE  IndexOK' /\ Held' = rows'
  BY DEF IndexGone, Idle, IndexOK, IndexTyped, TimerLives, ClosedIsIdle,
         PendingIsWatched, Held

-----------------------------------------------------------------------------
(* The files                                                               *)

FilesTyped ==
    /\ lines \in UNION {[D -> SUBSET Events] : D \in SUBSET Days}
    /\ disk \in SUBSET Events
    /\ fh \in Days \cup {None} /\ curDay \in Days \cup {None}
    /\ fh # None => fh = curDay
(* The handle's file has not been unlinked. *)
OpenFileExists == fh # None => fh \in DOMAIN lines
SafeIsLogged == disk \subseteq AllLines
Numbered == \A e \in AllLines : e.id <= last
FilesOK == FilesTyped /\ OpenFileExists /\ SafeIsLogged /\ LinesInTheirDay /\ Numbered

LEMMA LinesShape ==
  ASSUME FilesTyped
  PROVE  /\ DOMAIN lines \subseteq Days
         /\ lines = [d \in DOMAIN lines |-> lines[d]]
         /\ \A d \in DOMAIN lines : lines[d] \subseteq Events
         /\ AllLines \subseteq Events
<1>1. PICK D \in SUBSET Days : lines \in [D -> SUBSET Events]
  BY DEF FilesTyped
<1>2. DOMAIN lines = D /\ lines = [d \in D |-> lines[d]]
  BY <1>1
<1>3. \A d \in D : lines[d] \subseteq Events
  BY <1>1
<1> QED
  BY <1>2, <1>3 DEF AllLines, Logged

LEMMA LinesTyped ==
  ASSUME NEW D \in SUBSET Days, NEW f \in [D -> SUBSET Events]
  PROVE  f \in UNION {[E -> SUBSET Events] : E \in SUBSET Days}
  OBVIOUS

(* Whole files go, and with them exactly their days. *)
LEMMA KeepingDropsDays ==
  ASSUME FilesOK, NEW D \in SUBSET DOMAIN lines, Keeping(D)
  PROVE  /\ lines' \in UNION {[E -> SUBSET Events] : E \in SUBSET Days}
         /\ DOMAIN lines' = D
         /\ disk' \in SUBSET Events /\ disk' \subseteq AllLines'
         /\ LinesInTheirDay'
         /\ AllLines' = {e \in AllLines : e.day \in D}
         /\ disk' = {e \in disk : e.day \in D}
<1>1. /\ DOMAIN lines \subseteq Days
      /\ \A d \in DOMAIN lines : lines[d] \subseteq Events
  BY LinesShape DEF FilesOK
<1>2. lines' = [d \in D |-> lines[d]] /\ disk' = disk \cap Logged(lines')
  BY DEF Keeping, Restrict
<1>3. lines' \in [D -> SUBSET Events] /\ D \in SUBSET Days
  BY <1>1, <1>2
<1>4. lines' \in UNION {[E -> SUBSET Events] : E \in SUBSET Days}
  BY <1>3, LinesTyped
<1>5. DOMAIN lines' = D /\ \A d \in D : lines'[d] = lines[d]
  BY <1>2
<1>6. LinesInTheirDay'
  BY <1>5 DEF FilesOK, LinesInTheirDay
<1>7. AllLines' = {e \in AllLines : e.day \in D}
  BY <1>5 DEF FilesOK, LinesInTheirDay, AllLines, Logged
<1>8. disk' = disk \cap AllLines' /\ disk \subseteq AllLines
  BY <1>2 DEF AllLines, FilesOK, SafeIsLogged
<1>9. disk' \in SUBSET Events /\ disk' \subseteq AllLines'
  BY <1>8 DEF FilesOK, FilesTyped
<1>10. disk' = {e \in disk : e.day \in D}
  BY <1>7, <1>8
<1> QED
  BY <1>4, <1>5, <1>6, <1>7, <1>9, <1>10

LEMMA KeepingKeepsFiles ==
  ASSUME FilesOK, NEW D \in SUBSET DOMAIN lines, Keeping(D), last' = last,
         (fh' = None /\ curDay' = None) \/ (fh' = fh /\ curDay' = curDay),
         fh' # None => fh' \in D
  PROVE  FilesOK' /\ AllLines' \subseteq AllLines
<1>1. /\ lines' \in UNION {[E -> SUBSET Events] : E \in SUBSET Days}
      /\ DOMAIN lines' = D
      /\ disk' \in SUBSET Events /\ disk' \subseteq AllLines'
      /\ LinesInTheirDay' /\ AllLines' \subseteq AllLines
  BY KeepingDropsDays
<1>2. FilesTyped' /\ OpenFileExists'
  BY <1>1 DEF FilesOK, FilesTyped, OpenFileExists
<1>3. Numbered'
  BY <1>1 DEF FilesOK, Numbered
<1> QED
  BY <1>1, <1>2, <1>3 DEF FilesOK, SafeIsLogged

(* A line goes to its day's file, or the failure is counted. *)
LEMMA WriteKeepsFiles ==
  ASSUME FilesOK, NEW e \in Events, e.id = last + 1, last' = last + 1, last \in Nat,
         NEW opens \in BOOLEAN, NEW writes \in BOOLEAN,
         WriteLine(e, opens, writes), disk' = disk
  PROVE  /\ FilesOK'
         /\ \/ AllLines' = AllLines /\ errors' = errors + 1
            \/ AllLines' = AllLines \cup {e} /\ errors' = errors
<1> DEFINE day == e.day
           w == Writer(day, opens)
           f == Opened(day, opens)
           ok == w # None /\ writes
<1>1. day \in Days
  BY DEF Events
<1>2. /\ DOMAIN lines \subseteq Days
      /\ lines = [d \in DOMAIN lines |-> lines[d]]
      /\ \A d \in DOMAIN lines : lines[d] \subseteq Events
  BY LinesShape DEF FilesOK
<1>3. w = None \/ (w = day /\ day \in DOMAIN f)
  BY DEF Writer, Opened, FilesOK, FilesTyped, OpenFileExists
<1>4. /\ DOMAIN lines \subseteq DOMAIN f /\ DOMAIN f \subseteq Days
      /\ f = [d \in DOMAIN f |-> f[d]]
      /\ \A d \in DOMAIN f : f[d] = IF d \in DOMAIN lines THEN lines[d] ELSE {}
  BY <1>1, <1>2 DEF Opened
<1>5. /\ fh' = w /\ curDay' = IF w = None THEN curDay ELSE day
      /\ lines' = IF ok THEN Written(f, w, e) ELSE f
      /\ errors' = IF ok THEN errors ELSE errors + 1
  BY DEF WriteLine
<1> HIDE DEF w, f
<1>6. /\ DOMAIN lines' = DOMAIN f
      /\ \A d \in DOMAIN f :
            lines'[d] = (IF d \in DOMAIN lines THEN lines[d] ELSE {})
                        \cup (IF ok /\ d = day THEN {e} ELSE {})
      /\ lines' = [d \in DOMAIN f |-> lines'[d]]
  BY <1>3, <1>4, <1>5 DEF Written
<1>7. lines' \in [DOMAIN f -> SUBSET Events]
  BY <1>2, <1>6
<1>8. lines' \in UNION {[E -> SUBSET Events] : E \in SUBSET Days}
  BY <1>4, <1>7, LinesTyped
<1>9. FilesTyped'
  BY <1>1, <1>3, <1>5, <1>8 DEF FilesOK, FilesTyped
<1>10. OpenFileExists'
  BY <1>3, <1>5, <1>6 DEF OpenFileExists
<1>11. LinesInTheirDay'
  BY <1>6 DEF FilesOK, LinesInTheirDay
<1>12. AllLines' = AllLines \cup (IF ok THEN {e} ELSE {})
  BY <1>3, <1>4, <1>6 DEF AllLines, Logged
<1>13. SafeIsLogged'
  BY <1>12 DEF FilesOK, SafeIsLogged
<1>14. \A g \in AllLines : g.id \in Int
  BY LinesShape DEF FilesOK, Events
<1>15. Numbered'
  BY <1>12, <1>14 DEF FilesOK, Numbered
<1>16. FilesOK'
  BY <1>9, <1>10, <1>11, <1>13, <1>15 DEF FilesOK
<1>17. CASE ok
  BY <1>5, <1>12, <1>16, <1>17
<1>18. CASE ~ok
  <2>1. AllLines' = AllLines
    BY <1>12, <1>18
  <2> QED
    BY <1>5, <1>16, <1>18, <2>1
<1> QED
  BY <1>17, <1>18

LEMMA UnchangedFiles ==
  ASSUME FilesOK, UNCHANGED lines, last' = last,
         disk' \subseteq AllLines,
         (fh' = None \/ fh' = fh) /\ curDay' = curDay
  PROVE  FilesOK' /\ AllLines' = AllLines
<1>1. AllLines' = AllLines /\ AllLines \subseteq Events
  BY LinesShape DEF AllLines, Logged, FilesOK
<1> QED
  BY <1>1 DEF FilesOK, FilesTyped, OpenFileExists, SafeIsLogged, LinesInTheirDay,
              Numbered

(* Losing power takes only lines that were not safe. *)
LEMMA PowerLossKeepsFiles ==
  ASSUME FilesOK, PowerLoss
  PROVE  /\ FilesOK' /\ AllLines' \subseteq AllLines
         /\ disk \subseteq AllLines' /\ disk' = AllLines'
<1>1. PICK kept \in SUBSET (AllLines \ disk) :
         lines' = [d \in DOMAIN lines |-> lines[d] \cap (disk \cup kept)]
  BY DEF PowerLoss
<1>2. /\ DOMAIN lines \subseteq Days
      /\ \A d \in DOMAIN lines : lines[d] \subseteq Events
  BY LinesShape DEF FilesOK
<1>3. /\ DOMAIN lines' = DOMAIN lines
      /\ \A d \in DOMAIN lines : lines'[d] = lines[d] \cap (disk \cup kept)
  BY <1>1
<1>4. lines' \in [DOMAIN lines -> SUBSET Events]
  BY <1>1, <1>2
<1>5. lines' \in UNION {[E -> SUBSET Events] : E \in SUBSET Days}
  BY <1>2, <1>4, LinesTyped
<1>6. AllLines' = AllLines \cap (disk \cup kept)
  BY <1>3 DEF AllLines, Logged
<1>7. disk' = AllLines' /\ fh' = None /\ curDay' = None /\ last' = last
  BY DEF PowerLoss, Gone, AllLines
<1>8. AllLines' \subseteq AllLines /\ disk \subseteq AllLines'
  BY <1>6 DEF FilesOK, SafeIsLogged
<1>9. AllLines' \subseteq Events
  BY <1>8, LinesShape DEF FilesOK
<1>10. LinesInTheirDay'
  BY <1>3 DEF FilesOK, LinesInTheirDay
<1> QED
  BY <1>5, <1>7, <1>8, <1>9, <1>10
     DEF FilesOK, FilesTyped, OpenFileExists, SafeIsLogged, Numbered

-----------------------------------------------------------------------------
(* The whole store                                                         *)

PassType == [pc : {"idle", "rows", "vacuum", "files"}, hours : BOOLEAN,
             cutoff : Days, upto : 0 .. MaxEvents, deleted : BOOLEAN]
Phases == {"down", "up", "closed", "rebuilding"}
RestTyped ==
    /\ phase \in Phases /\ loop \in {"free", "clearing"}
    /\ buf \in SUBSET Events /\ last \in 0 .. MaxEvents /\ errors \in Nat
    /\ pass \in PassType
    /\ lost \in SUBSET Events /\ excused \in SUBSET Events
    /\ wiped \in 0 .. MaxEvents
(* A service that runs has its index open; a reset empties the live buffer *)
(* first and is the loop's business until it ends.                         *)
UpIsOpen == phase = "up" => ~closed
ClearingIsEmpty == loop = "clearing" => buf = {}
DownIsFree == ~Serving => loop = "free"
WipedIsPast == wiped <= last
LossOK == IsFiniteSet(lost) /\ LossIsCounted
StoreOK ==
    /\ IndexOK /\ FilesOK /\ RestTyped /\ LossOK
    /\ UpIsOpen /\ ClearingIsEmpty /\ DownIsFree /\ WipedIsPast
    /\ RowsFollowLines /\ WipedStaysWiped

(* No new event, nothing that was not there before. *)
LEMMA NothingNewStaysWiped ==
  ASSUME StoreOK, last' = last, wiped' = wiped,
         buf' \subseteq buf \cup AllLines, AllLines' \subseteq AllLines,
         Held' \subseteq Held \cup AllLines
  PROVE  WipedStaysWiped' /\ WipedIsPast'
  BY DEF StoreOK, WipedStaysWiped, WipedIsPast, Held

LEMMA OneMore ==
  ASSUME NEW S, IsFiniteSet(S), NEW x, NEW T, T = S \cup {x}
  PROVE  /\ IsFiniteSet(T) /\ Cardinality(T) \in Nat
         /\ Cardinality(T) <= Cardinality(S) + 1
<1>1. Cardinality(S) \in Nat
  BY FS_CardinalityType
<1>2. CASE T = S
  <2>1. IsFiniteSet(T) /\ Cardinality(T) = Cardinality(S)
    BY <1>2, Zenon
  <2> QED
    BY <1>1, <2>1
<1>3. CASE T # S
  <2>1. x \notin S
    BY <1>3
  <2>2. IsFiniteSet(T) /\ Cardinality(T) = Cardinality(S) + 1
    BY <2>1, FS_AddElement, Zenon
  <2> QED
    BY <1>1, <2>2
<1> QED
  BY <1>2, <1>3

LEMMA AppendKeepsStore ==
  ASSUME StoreOK, NEW day \in Days, NEW opens \in BOOLEAN, NEW writes \in BOOLEAN,
         NEW inserts \in BOOLEAN, NEW due \in BOOLEAN,
         Append(day, opens, writes, inserts, due)
  PROVE  StoreOK'
<1> DEFINE e == [id |-> last + 1, day |-> day]
<1>1. /\ phase = "up" /\ loop = "free" /\ last < MaxEvents
      /\ last' = last + 1 /\ buf' = Newest(buf \cup {e})
      /\ WriteLine(e, opens, writes) /\ Insert(e, inserts, due)
      /\ excused' = IF inserts THEN excused ELSE excused \cup {e}
      /\ phase' = phase /\ loop' = loop /\ disk' = disk /\ pass' = pass
      /\ wiped' = wiped
  BY DEF Append
<1>2. last \in Nat /\ last' \in 0 .. MaxEvents /\ wiped \in Nat
  BY <1>1 DEF StoreOK, RestTyped
<1>3. e \in Events /\ e.id = last + 1
  BY <1>1, <1>2 DEF Events
<1> HIDE DEF e
<1>4. /\ IndexOK' /\ closed' = closed
      /\ Held \subseteq Held' /\ Held' \subseteq Held \cup {e}
      /\ inserts /\ ~closed => e \in Held'
  BY <1>1, <1>3, InsertKeepsIndex DEF StoreOK
<1>5. /\ FilesOK'
      /\ \/ AllLines' = AllLines /\ errors' = errors + 1
         \/ AllLines' = AllLines \cup {e} /\ errors' = errors
  BY <1>1, <1>2, <1>3, WriteKeepsFiles DEF StoreOK
<1>6. lost' = IF e \in AllLines' THEN lost ELSE lost \cup {e}
  BY <1>1 DEF WriteLine, AllLines
<1>7. RestTyped'
  BY <1>1, <1>2, <1>3, <1>5, <1>6 DEF StoreOK, RestTyped, Newest
<1>8. LossOK'
  <2>1. /\ IsFiniteSet(lost) /\ Cardinality(lost) \in Nat
        /\ Cardinality(lost) <= errors /\ errors \in Nat
    BY FS_CardinalityType DEF StoreOK, LossOK, LossIsCounted, RestTyped
  <2>2. CASE e \in AllLines'
    BY <2>1, <2>2, <1>5, <1>6 DEF LossOK, LossIsCounted
  <2>3. CASE e \notin AllLines'
    <3>1. lost' = lost \cup {e} /\ errors' = errors + 1
      BY <2>3, <1>5, <1>6
    <3>2. /\ IsFiniteSet(lost') /\ Cardinality(lost') \in Nat
          /\ Cardinality(lost') <= Cardinality(lost) + 1
      BY <3>1, <2>1, OneMore
    <3> QED
      BY <2>1, <3>1, <3>2 DEF LossOK, LossIsCounted
  <2> QED
    BY <2>2, <2>3
<1>9. UpIsOpen' /\ ClearingIsEmpty' /\ DownIsFree'
  BY <1>1, <1>4 DEF StoreOK, UpIsOpen, ClearingIsEmpty, DownIsFree, Serving
<1>10. RowsFollowLines'
  BY <1>1, <1>4, <1>5 DEF StoreOK, RowsFollowLines, UpIsOpen, Held
<1>11. WipedStaysWiped' /\ WipedIsPast'
  <2>1. buf' \subseteq buf \cup {e}
    BY <1>1 DEF Newest
  <2>2. e.id > wiped /\ wiped <= last
    BY <1>2, <1>3 DEF StoreOK, WipedIsPast
  <2>3. AllLines' \subseteq AllLines \cup {e} /\ Held' \subseteq Held \cup {e}
    BY <1>4, <1>5
  <2>4. \A g \in buf' \cup AllLines' \cup Held' : g.id > wiped
    BY <2>1, <2>2, <2>3 DEF StoreOK, WipedStaysWiped, Held
  <2>5. WipedStaysWiped'
    BY <1>1, <2>4 DEF WipedStaysWiped, Held
  <2>6. WipedIsPast'
    BY <1>1, <1>2, <2>2 DEF WipedIsPast
  <2> QED
    BY <2>5, <2>6
<1> QED
  BY <1>4, <1>5, <1>7, <1>8, <1>9, <1>10, <1>11 DEF StoreOK

LEMMA FsyncKeepsStore ==
  ASSUME StoreOK, Fsync
  PROVE  StoreOK' /\ AllLines' = AllLines /\ disk \subseteq disk' /\ disk' \subseteq AllLines
<1>1. /\ UNCHANGED <<index, phase, loop, lines, fh, curDay, buf, last, pass,
                      lost, excused, wiped>>
      /\ \/ /\ disk' = disk \cup (IF fh \in DOMAIN lines THEN lines[fh] ELSE {})
            /\ errors' = errors
         \/ disk' = disk /\ errors' = errors + 1
  BY DEF Fsync, observers
<1>2. disk \subseteq disk' /\ disk' \subseteq AllLines
  BY <1>1 DEF StoreOK, FilesOK, SafeIsLogged, AllLines, Logged
<1>3. FilesOK' /\ AllLines' = AllLines
  BY <1>1, <1>2, UnchangedFiles DEF StoreOK
<1>4. IndexOK' /\ Held' = Held
  BY <1>1 DEF StoreOK, index, IndexOK, IndexTyped, TimerLives, ClosedIsIdle,
              PendingIsWatched, Held
<1>5. RestTyped'
  BY <1>1 DEF StoreOK, RestTyped
<1>6. LossOK'
  BY <1>1, FS_CardinalityType DEF StoreOK, LossOK, LossIsCounted, RestTyped
<1>7. WipedStaysWiped' /\ WipedIsPast'
  BY <1>1, <1>3, <1>4, NothingNewStaysWiped
<1>8. UpIsOpen' /\ ClearingIsEmpty' /\ DownIsFree' /\ RowsFollowLines'
  BY <1>1, <1>3, <1>4 DEF StoreOK, UpIsOpen, ClearingIsEmpty, DownIsFree, Serving, RowsFollowLines,
                          Held, index
<1> QED
  BY <1>2, <1>3, <1>4, <1>5, <1>6, <1>7, <1>8 DEF StoreOK

(* What the index does on its own, or retention and reset do to it. *)
LEMMA IndexStepKeepsStore ==
  ASSUME StoreOK, UNCHANGED <<loop, files, buf, last, errors, lost, wiped>>,
         phase' = phase \/ (~Serving /\ ~Serving' /\ phase' \in Phases),
         IndexOK', closed' = closed, Held' \subseteq Held \cup AllLines,
         AllLines \subseteq Held' \cup excused', excused' \in SUBSET Events,
         pass' \in PassType
  PROVE  StoreOK' /\ UNCHANGED <<AllLines, disk>>
<1>1. FilesOK' /\ AllLines' = AllLines /\ disk' = disk
  <2>1. UNCHANGED <<lines, disk, fh, curDay>>
    BY DEF files
  <2> QED
    BY <2>1, UnchangedFiles DEF StoreOK, FilesOK, SafeIsLogged
<1>2. WipedStaysWiped' /\ WipedIsPast'
  BY <1>1, NothingNewStaysWiped
<1>3. RestTyped' /\ LossOK'
  BY DEF StoreOK, RestTyped, Phases, LossOK, LossIsCounted
<1>4. UpIsOpen' /\ ClearingIsEmpty' /\ DownIsFree'
  BY DEF StoreOK, UpIsOpen, ClearingIsEmpty, DownIsFree, Serving
<1>5. RowsFollowLines'
  BY <1>1 DEF RowsFollowLines, Held
<1> QED
  BY <1>1, <1>2, <1>3, <1>4, <1>5 DEF StoreOK

LEMMA AloneKeepsStore ==
  ASSUME StoreOK, FlushStep \/ \E t \in Timers : TimerStep(t)
  PROVE  StoreOK' /\ UNCHANGED <<AllLines, disk>>
<1>1. UNCHANGED <<phase, loop, files, buf, last, errors, pass, lost, excused, wiped>>
  BY DEF FlushStep, TimerStep, Alone, observers
<1>2. IndexOK' /\ Held' = Held /\ closed' = closed
  <2>1. CASE FlushStep
    <3>1. PICK ok \in BOOLEAN : CommitLocked(pending, ok)
      BY <2>1 DEF FlushStep, Flush
    <3> QED
      BY <3>1, CommitPendingKeepsIndex DEF StoreOK
  <2>2. ASSUME NEW t \in Timers, TimerStep(t)
        PROVE  IndexOK' /\ Held' = Held /\ closed' = closed
    BY <2>2, TimerKeepsIndex DEF TimerStep, StoreOK
  <2> QED
    BY <2>1, <2>2
<1>3. AllLines \subseteq Held' \cup excused' /\ excused' \in SUBSET Events
  BY <1>1, <1>2 DEF StoreOK, RowsFollowLines, RestTyped, Held
<1>4. pass' \in PassType
  BY <1>1 DEF StoreOK, RestTyped
<1> QED
  BY <1>1, <1>2, <1>3, <1>4, IndexStepKeepsStore

LEMMA NoPassType == NoPass \in PassType
  BY DEF NoPass, PassType, Days

LEMMA PassSteps ==
  ASSUME NEW p \in PassType
  PROVE  /\ On(p, "vacuum") \in PassType
         /\ RowsEnd(p) => pass' \in PassType
         /\ [p EXCEPT !.deleted = TRUE] \in PassType
  BY NoPassType DEF On, RowsEnd, NoPass, PassType, Days

(* A chunk of either kind of retention. *)
LEMMA ChunkKeepsStore ==
  ASSUME StoreOK, NEW p \in PassType, PruneChunk(p)
  PROVE  StoreOK' /\ UNCHANGED <<AllLines, disk>>
<1>1. UNCHANGED <<phase, loop, files, buf, last, errors, lost, wiped>>
  BY DEF PruneChunk
<1>2. /\ AllLines \subseteq Events /\ excused \subseteq Events /\ Held \subseteq Events
      /\ AllLines \subseteq Held \cup excused
  BY LinesShape DEF StoreOK, FilesOK, RestTyped, RowsFollowLines, IndexOK, IndexTyped, Held
<1>3. CASE /\ closed /\ RowsEnd(p) /\ UNCHANGED <<index, excused>>
  <2>1. IndexOK' /\ Held' = Held /\ closed' = closed
    BY <1>3 DEF StoreOK, index, IndexOK, IndexTyped, TimerLives, ClosedIsIdle,
                PendingIsWatched, Held
  <2> QED
    BY <1>1, <1>2, <1>3, <2>1, PassSteps, IndexStepKeepsStore
<1>4. ASSUME NEW ok \in BOOLEAN, CommitLocked(pending, ok), RowsEnd(p), excused' = excused
      PROVE  StoreOK' /\ UNCHANGED <<AllLines, disk>>
  <2>1. IndexOK' /\ Held' = Held /\ closed' = closed
    BY <1>4, CommitPendingKeepsIndex DEF StoreOK
  <2> QED
    BY <1>1, <1>2, <1>4, <2>1, PassSteps, IndexStepKeepsStore
<1>5. ASSUME ~closed, NEW gone,
             IF p.hours THEN DeleteOlderChunk(p.cutoff, p.upto, gone)
             ELSE DeleteChunk(p.cutoff, gone),
             excused' = excused \cup OlderToo(AllLines, p.cutoff, p.upto),
             pass' = [p EXCEPT !.deleted = TRUE] \/ pass' = On(p, "vacuum") \/ RowsEnd(p)
      PROVE  StoreOK' /\ UNCHANGED <<AllLines, disk>>
  <2>1. Older(Held, p.cutoff) \subseteq OlderToo(Held, p.cutoff, p.upto)
    BY DEF Older, OlderToo
  <2>2. \/ DeleteChunkOf(OlderToo(Held, p.cutoff, p.upto), gone)
        \/ DeleteChunkOf(Older(Held, p.cutoff), gone)
    BY <1>5 DEF DeleteChunk, DeleteOlderChunk, Held
  <2>3. /\ IndexOK' /\ closed' = closed
        /\ Held' = Held \ gone /\ gone \subseteq OlderToo(Held, p.cutoff, p.upto)
    BY <1>5, <2>1, <2>2, DeleteKeepsIndex DEF StoreOK
  <2>4. AllLines \subseteq Held' \cup excused'
    BY <1>2, <1>5, <2>3 DEF OlderToo
  <2>5. excused' \in SUBSET Events
    BY <1>2, <1>5 DEF OlderToo
  <2> QED
    BY <1>1, <1>5, <2>3, <2>4, <2>5, PassSteps, IndexStepKeepsStore
<1>6. CASE /\ ~closed
           /\ \E ok \in BOOLEAN : CommitLocked(pending, ok)
           /\ RowsEnd(p) /\ UNCHANGED excused
  BY <1>4, <1>6
<1>7. CASE /\ ~closed
           /\ \E gone \in SUBSET (rows \cup pending) :
                /\ IF p.hours THEN DeleteOlderChunk(p.cutoff, p.upto, gone)
                   ELSE DeleteChunk(p.cutoff, gone)
                /\ IF Cardinality(gone) = Chunk
                   THEN pass' = [p EXCEPT !.deleted = TRUE]
                   ELSE IF gone # {} \/ p.deleted
                   THEN pass' = On(p, "vacuum") ELSE RowsEnd(p)
           /\ excused' = excused \cup OlderToo(AllLines, p.cutoff, p.upto)
  <2>1. PICK gone :
           /\ IF p.hours THEN DeleteOlderChunk(p.cutoff, p.upto, gone)
              ELSE DeleteChunk(p.cutoff, gone)
           /\ pass' = [p EXCEPT !.deleted = TRUE] \/ pass' = On(p, "vacuum") \/ RowsEnd(p)
    BY <1>7
  <2> QED
    BY <1>5, <1>7, <2>1
<1> QED
  BY <1>3, <1>6, <1>7 DEF PruneChunk

LEMMA PassKeepsStore ==
  ASSUME StoreOK,
         \/ PruneRows \/ Vacuum
         \/ \E cutoff \in Days, upto \in 0 .. last : PruneHours(cutoff, upto)
  PROVE  StoreOK' /\ UNCHANGED <<AllLines, disk>>
<1>1. pass \in PassType /\ last \in 0 .. MaxEvents
  BY DEF StoreOK, RestTyped
<1>2. CASE PruneRows
  BY <1>1, <1>2, ChunkKeepsStore DEF PruneRows
<1>3. ASSUME NEW cutoff \in Days, NEW upto \in 0 .. last, PruneHours(cutoff, upto)
      PROVE  StoreOK' /\ UNCHANGED <<AllLines, disk>>
  <2> DEFINE p == [pc |-> "rows", hours |-> TRUE, cutoff |-> cutoff, upto |-> upto,
                   deleted |-> FALSE]
  <2>1. p \in PassType
    BY <1>1 DEF PassType
  <2>2. PruneChunk(p)
    BY <1>3 DEF PruneHours
  <2> QED
    BY <2>1, <2>2, ChunkKeepsStore
<1>4. CASE Vacuum
  <2>1. /\ UNCHANGED <<phase, loop, files, buf, last, errors, lost, excused, wiped>>
        /\ pass' \in PassType
    BY <1>1, <1>4, PassSteps DEF Vacuum, observers
  <2>2. IndexOK' /\ Held' = Held /\ closed' = closed
    <3>1. CASE UNCHANGED index
      BY <3>1 DEF StoreOK, index, IndexOK, IndexTyped, TimerLives, ClosedIsIdle,
                  PendingIsWatched, Held
    <3>2. ASSUME NEW ok \in BOOLEAN, CommitLocked(pending, ok)
          PROVE  IndexOK' /\ Held' = Held /\ closed' = closed
      BY <3>2, CommitPendingKeepsIndex DEF StoreOK
    <3> QED
      BY <1>4, <3>1, <3>2 DEF Vacuum
  <2>3. AllLines \subseteq Held' \cup excused' /\ excused' \in SUBSET Events
    BY <2>1, <2>2 DEF StoreOK, RowsFollowLines, RestTyped, Held
  <2> QED
    BY <2>1, <2>2, <2>3, IndexStepKeepsStore
<1> QED
  BY <1>2, <1>3, <1>4

LEMMA RebuildKeepsStore ==
  ASSUME StoreOK, RebuildDrop \/ RebuildCommit
  PROVE  StoreOK' /\ UNCHANGED <<AllLines, disk>>
<1>0. ~Serving /\ ~Serving' /\ phase' \in Phases
  BY DEF RebuildDrop, RebuildCommit, Serving, Phases
<1>1. /\ UNCHANGED <<loop, files, buf, last, errors, lost, wiped, pass>>
      /\ UNCHANGED <<pending, timer, threads, closed, stuck>>
      /\ \/ rows' = {} /\ excused' = AllLines
         \/ rows' = AllLines /\ excused' = {}
  BY DEF RebuildDrop, RebuildCommit
<1>2. AllLines \subseteq Events
  BY LinesShape DEF StoreOK, FilesOK
<1>3. IndexOK'
  BY <1>1, <1>2 DEF StoreOK, IndexOK, IndexTyped, TimerLives, ClosedIsIdle, PendingIsWatched
<1>4. /\ Held' \subseteq Held \cup AllLines /\ AllLines \subseteq Held' \cup excused'
      /\ excused' \in SUBSET Events
  BY <1>1, <1>2 DEF Held
<1> QED
  BY <1>0, <1>1, <1>3, <1>4, IndexStepKeepsStore DEF StoreOK, RestTyped

(* The two halves of a reset, and the unlinking of old days. *)
LEMMA DropKeepsStore ==
  ASSUME StoreOK, \/ \E kept \in SUBSET DOMAIN lines : ClearLog(kept)
                  \/ \E cutoff \in Days : PruneFiles(cutoff)
                  \/ PruneFilesLast
  PROVE  /\ StoreOK'
         /\ \E D \in SUBSET DOMAIN lines : Keeping(D)
<1>1. PICK D \in SUBSET DOMAIN lines :
        /\ Keeping(D)
        /\ UNCHANGED <<index, phase, last, errors, lost, excused, wiped>>
        /\ \/ /\ fh' = None /\ curDay' = None /\ buf' = {}
              /\ phase = "up" /\ loop' = "clearing" /\ pass' = pass
           \/ /\ fh' = fh /\ curDay' = curDay /\ buf' = buf /\ loop' = loop
              /\ (fh # None => fh \in D)
              /\ pass' \in PassType
  <2>1. CASE \E kept \in SUBSET DOMAIN lines : ClearLog(kept)
    BY <2>1 DEF ClearLog, observers
  <2>2. ASSUME NEW cutoff, Unlink(cutoff),
               UNCHANGED <<index, phase, loop, fh, curDay, buf, last, errors, observers>>,
               pass' \in PassType
        PROVE  \E D \in SUBSET DOMAIN lines :
                 /\ Keeping(D)
                 /\ UNCHANGED <<index, phase, last, errors, lost, excused, wiped>>
                 /\ fh' = fh /\ curDay' = curDay /\ buf' = buf /\ loop' = loop
                 /\ (fh # None => fh \in D)
                 /\ pass' \in PassType
    <3>1. PICK gone \in SUBSET OldDays(cutoff) : Keeping(DOMAIN lines \ gone)
      BY <2>2 DEF Unlink
    <3>2. fh # None => fh \in DOMAIN lines \ gone
      BY <3>1 DEF OldDays, StoreOK, FilesOK, FilesTyped, OpenFileExists
    <3>3. DOMAIN lines \ gone \in SUBSET DOMAIN lines
      OBVIOUS
    <3> QED
      BY <2>2, <3>1, <3>2, <3>3 DEF observers
  <2>3. \A cutoff \in Days : [NoPass EXCEPT !.pc = "rows", !.cutoff = cutoff] \in PassType
    BY NoPassType DEF PassType
  <2>4. CASE \E cutoff \in Days : PruneFiles(cutoff)
    BY <2>2, <2>3, <2>4 DEF PruneFiles
  <2>5. CASE PruneFilesLast
    BY <2>2, <2>5, NoPassType DEF PruneFilesLast
  <2> QED
    BY <2>1, <2>4, <2>5
<1>2. FilesOK' /\ AllLines' \subseteq AllLines
  <2>1. \/ fh' = None /\ curDay' = None
        \/ fh' = fh /\ curDay' = curDay
    BY <1>1
  <2>2. Keeping(D) /\ last' = last /\ (fh' # None => fh' \in D)
    BY <1>1
  <2> QED
    BY <2>1, <2>2, KeepingKeepsFiles DEF StoreOK
<1>3. IndexOK' /\ Held' = Held /\ closed' = closed
  BY <1>1 DEF StoreOK, index, IndexOK, IndexTyped, TimerLives, ClosedIsIdle,
              PendingIsWatched, Held
<1>4. RestTyped' /\ LossOK'
  <2>1. buf' \in SUBSET Events /\ loop' \in {"free", "clearing"}
    BY <1>1 DEF StoreOK, RestTyped
  <2>2. pass' \in PassType
    BY <1>1 DEF StoreOK, RestTyped
  <2> QED
    BY <1>1, <2>1, <2>2 DEF StoreOK, RestTyped, PassType, LossOK, LossIsCounted
<1>5. WipedStaysWiped' /\ WipedIsPast'
  <2>1. buf' \subseteq buf
    BY <1>1
  <2> QED
    BY <1>1, <1>2, <1>3, <2>1, NothingNewStaysWiped
<1>6. UpIsOpen' /\ ClearingIsEmpty' /\ DownIsFree'
  BY <1>1, <1>3 DEF StoreOK, UpIsOpen, ClearingIsEmpty, DownIsFree, Serving
<1>7. RowsFollowLines'
  BY <1>1, <1>2, <1>3 DEF StoreOK, RowsFollowLines, Held
<1> QED
  BY <1>1, <1>2, <1>3, <1>4, <1>5, <1>6, <1>7 DEF StoreOK

LEMMA ClearIndexKeepsStore ==
  ASSUME StoreOK, ClearIndex
  PROVE  StoreOK' /\ UNCHANGED <<AllLines, disk>>
<1>1. /\ loop = "clearing" /\ loop' = "free"
      /\ UNCHANGED <<phase, files, buf, last, errors, pass, lost>>
  BY DEF ClearIndex
<1>2. /\ last \in 0 .. MaxEvents /\ buf = {} /\ wiped \in 0 .. MaxEvents /\ wiped <= last
      /\ AllLines \subseteq Events /\ excused \subseteq Events
  BY <1>1, LinesShape DEF StoreOK, FilesOK, RestTyped, ClearingIsEmpty, WipedIsPast
<1>3. FilesOK' /\ AllLines' = AllLines /\ disk' = disk
  <2>1. UNCHANGED <<lines, disk, fh, curDay, last>>
    BY <1>1 DEF files
  <2> QED
    BY <2>1, UnchangedFiles DEF StoreOK, FilesOK, SafeIsLogged
<1>4. /\ IndexOK' /\ closed' = closed
      /\ \/ /\ Held' = {} /\ excused' = excused \cup AllLines
            /\ wiped' = IF AllLines = {} THEN last ELSE wiped
         \/ Held' = Held /\ excused' = excused /\ wiped' = wiped
  <2>1. CASE /\ DeleteAll /\ excused' = excused \cup AllLines
             /\ wiped' = IF AllLines = {} THEN last ELSE wiped
    BY <2>1, DeleteAllKeepsIndex DEF StoreOK
  <2>2. ASSUME NEW ok \in BOOLEAN, CommitLocked(pending, ok)
        PROVE  IndexOK' /\ closed' = closed /\ Held' = Held
    BY <2>2, CommitPendingKeepsIndex DEF StoreOK
  <2> QED
    BY <2>1, <2>2 DEF ClearIndex
<1>5. RestTyped' /\ LossOK'
  BY <1>1, <1>2, <1>4 DEF StoreOK, RestTyped, Phases, LossOK, LossIsCounted
<1>6. WipedStaysWiped' /\ WipedIsPast'
  <2>1. \A e \in buf' \cup AllLines' \cup Held' : e.id > wiped'
    BY <1>1, <1>2, <1>3, <1>4 DEF StoreOK, WipedStaysWiped, Held
  <2>2. WipedStaysWiped'
    BY <2>1 DEF WipedStaysWiped, Held
  <2>3. WipedIsPast'
    BY <1>1, <1>2, <1>4 DEF WipedIsPast
  <2> QED
    BY <2>2, <2>3
<1>7. UpIsOpen' /\ ClearingIsEmpty' /\ DownIsFree'
  BY <1>1, <1>4 DEF StoreOK, UpIsOpen, ClearingIsEmpty, DownIsFree, Serving
<1>8. RowsFollowLines'
  BY <1>3, <1>4 DEF StoreOK, RowsFollowLines, Held
<1> QED
  BY <1>3, <1>4, <1>5, <1>6, <1>7, <1>8 DEF StoreOK

LEMMA CloseKeepsStore ==
  ASSUME StoreOK, Close
  PROVE  StoreOK' /\ AllLines' = AllLines /\ disk \subseteq disk' /\ disk' \subseteq AllLines
<1>1. /\ phase = "up" /\ loop = "free" /\ phase' = "closed" /\ fh' = None
      /\ UNCHANGED <<loop, lines, curDay, buf, last, errors, pass, lost, wiped>>
  BY DEF Close
<1>2. disk \subseteq disk' /\ disk' \subseteq AllLines
  BY DEF Close, StoreOK, FilesOK, SafeIsLogged, AllLines, Logged
<1>3. FilesOK' /\ AllLines' = AllLines
  BY <1>1, <1>2, UnchangedFiles DEF StoreOK
<1>4. /\ IndexOK' /\ Held' \subseteq Held /\ excused' \in SUBSET Events
      /\ Held \subseteq Held' \cup excused' /\ excused \subseteq excused'
  <2>1. ASSUME NEW ok \in BOOLEAN, CloseIndex(ok),
               excused' = IF ok THEN excused ELSE excused \cup pending
        PROVE  /\ IndexOK' /\ Held' \subseteq Held /\ excused' \in SUBSET Events
               /\ Held \subseteq Held' \cup excused' /\ excused \subseteq excused'
    <3>1. /\ IndexOK' /\ Held' \subseteq Held
          /\ Held \subseteq Held' \cup IF ok THEN {} ELSE pending
      BY <2>1, CloseKeepsIndex DEF StoreOK
    <3> QED
      BY <2>1, <3>1 DEF StoreOK, RestTyped, IndexOK, IndexTyped
  <2>2. CASE UNCHANGED <<index, disk, excused>>
    BY <2>2 DEF StoreOK, RestTyped, index, IndexOK, IndexTyped, TimerLives,
                ClosedIsIdle, PendingIsWatched, Held
  <2> QED
    BY <2>1, <2>2 DEF Close
<1>5. RestTyped' /\ LossOK'
  BY <1>1, <1>4 DEF StoreOK, RestTyped, Phases, LossOK, LossIsCounted
<1>6. WipedStaysWiped' /\ WipedIsPast'
  BY <1>1, <1>3, <1>4, NothingNewStaysWiped
<1>7. UpIsOpen' /\ ClearingIsEmpty' /\ DownIsFree'
  BY <1>1 DEF StoreOK, UpIsOpen, ClearingIsEmpty, DownIsFree, Serving
<1>8. RowsFollowLines'
  BY <1>3, <1>4 DEF StoreOK, RowsFollowLines, Held
<1> QED
  BY <1>2, <1>3, <1>4, <1>5, <1>6, <1>7, <1>8 DEF StoreOK

(* The process is gone, with or without the power. *)
LEMMA GoneKeepsStore ==
  ASSUME StoreOK, Gone, FilesOK', AllLines' \subseteq AllLines, rows' \subseteq rows,
         excused' \in SUBSET Events, AllLines' \subseteq rows' \cup excused'
  PROVE  StoreOK'
<1>1. /\ phase' = "down" /\ loop' = "free" /\ buf' = {} /\ lost' = {} /\ errors' = 0
      /\ pass' = NoPass /\ IndexGone /\ UNCHANGED <<last, wiped>>
  BY DEF Gone
<1>2. rows' \in SUBSET Events
  BY DEF StoreOK, IndexOK, IndexTyped
<1>3. IndexOK' /\ Held' = rows'
  BY <1>1, <1>2, GoneKeepsIndex
<1>4. RestTyped'
  BY <1>1, NoPassType DEF StoreOK, RestTyped, Phases
<1>5. LossOK'
  BY <1>1, FS_EmptySet DEF LossOK, LossIsCounted
<1>6. WipedStaysWiped' /\ WipedIsPast'
  BY <1>1, <1>3, NothingNewStaysWiped DEF Held
<1>7. UpIsOpen' /\ ClearingIsEmpty' /\ DownIsFree'
  BY <1>1 DEF UpIsOpen, ClearingIsEmpty, DownIsFree, Serving
<1>8. RowsFollowLines'
  BY <1>3 DEF RowsFollowLines, Held
<1> QED
  BY <1>3, <1>4, <1>5, <1>6, <1>7, <1>8 DEF StoreOK

LEMMA ExitKeepsStore ==
  ASSUME StoreOK, Exit
  PROVE  StoreOK' /\ UNCHANGED <<AllLines, disk>>
<1>1. /\ Gone /\ UNCHANGED <<rows, lines, disk>> /\ excused' = excused \cup pending
      /\ fh' = None /\ curDay' = None /\ last' = last
  BY DEF Exit, Gone
<1>2. AllLines' = AllLines
  BY <1>1 DEF AllLines, Logged
<1>3. FilesOK'
  BY <1>1, <1>2 DEF StoreOK, FilesOK, FilesTyped, OpenFileExists, SafeIsLogged,
                    LinesInTheirDay, Numbered
<1>4. excused' \in SUBSET Events /\ AllLines' \subseteq rows' \cup excused'
  BY <1>1, <1>2 DEF StoreOK, RestTyped, IndexOK, IndexTyped, RowsFollowLines
<1> QED
  BY <1>1, <1>2, <1>3, <1>4, GoneKeepsStore

LEMMA PowerLossKeepsStore ==
  ASSUME StoreOK, PowerLoss
  PROVE  /\ StoreOK' /\ AllLines' \subseteq AllLines
         /\ disk \subseteq AllLines' /\ disk' = AllLines'
<1>1. /\ FilesOK' /\ AllLines' \subseteq AllLines
      /\ disk \subseteq AllLines' /\ disk' = AllLines'
  BY PowerLossKeepsFiles DEF StoreOK
<1>2. Gone /\ rows' \subseteq rows /\ excused' = disk'
  BY DEF PowerLoss
<1>3. excused' \in SUBSET Events
  BY <1>1, <1>2 DEF FilesOK, FilesTyped
<1> QED
  BY <1>1, <1>2, <1>3, GoneKeepsStore

LEMMA StartKeepsStore ==
  ASSUME StoreOK, NEW today \in Days, Start(today)
  PROVE  StoreOK' /\ UNCHANGED <<AllLines, disk>>
<1>1. /\ phase = "down" /\ phase' = "up" /\ closed' = FALSE
      /\ UNCHANGED <<rows, pending, timer, threads, stuck, loop, lines, disk, fh, curDay,
                      last, errors, pass, lost, excused, wiped>>
  BY DEF Start, files, observers
<1>2. buf' \subseteq AllLines /\ AllLines \subseteq Events
  BY LinesShape DEF Start, Newest, AllLines, Logged, StoreOK, FilesOK
<1>3. FilesOK' /\ AllLines' = AllLines
  BY <1>1, UnchangedFiles DEF StoreOK, FilesOK, SafeIsLogged
<1>4. IndexOK' /\ Held' = Held
  BY <1>1 DEF StoreOK, IndexOK, IndexTyped, TimerLives, ClosedIsIdle, PendingIsWatched, Held
<1>5. RestTyped' /\ LossOK'
  BY <1>1, <1>2 DEF StoreOK, RestTyped, Phases, LossOK, LossIsCounted
<1>6. WipedStaysWiped' /\ WipedIsPast'
  BY <1>1, <1>2, <1>3, <1>4, NothingNewStaysWiped
<1>7. UpIsOpen' /\ ClearingIsEmpty' /\ DownIsFree'
  BY <1>1 DEF StoreOK, UpIsOpen, ClearingIsEmpty, DownIsFree, Serving
<1>8. RowsFollowLines'
  BY <1>1, <1>3 DEF StoreOK, RowsFollowLines
<1> QED
  BY <1>1, <1>3, <1>4, <1>5, <1>6, <1>7, <1>8 DEF StoreOK

LEMMA InitOK == Init => StoreOK
<1> SUFFICES ASSUME Init PROVE StoreOK
  OBVIOUS
<1>1. lines \in [{} -> SUBSET Events] /\ DOMAIN lines = {} /\ AllLines = {}
  BY DEF Init, AllLines, Logged
<1>2. FilesOK
  BY <1>1, LinesTyped DEF Init, FilesOK, FilesTyped, OpenFileExists, SafeIsLogged,
                          LinesInTheirDay, Numbered
<1>3. IndexOK
  BY DEF Init, Idle, IndexOK, IndexTyped, TimerLives, ClosedIsIdle, PendingIsWatched
<1>4. RestTyped
  BY NoPassType DEF Init, RestTyped, Phases
<1>5. LossOK
  BY FS_EmptySet DEF Init, LossOK, LossIsCounted
<1> QED
  BY <1>1, <1>2, <1>3, <1>4, <1>5
     DEF Init, StoreOK, UpIsOpen, ClearingIsEmpty, DownIsFree, Serving, WipedIsPast,
         RowsFollowLines, WipedStaysWiped

(* Each step keeps the invariant and is a step of the durable log. *)
LEMMA StepOK ==
  ASSUME StoreOK, Next
  PROVE  StoreOK' /\ (Abstract!Next \/ UNCHANGED <<AllLines, disk>>)
<1>1. ASSUME NEW day \in Days, NEW opens \in BOOLEAN, NEW writes \in BOOLEAN,
             NEW inserts \in BOOLEAN, NEW due \in BOOLEAN,
             Append(day, opens, writes, inserts, due)
      PROVE  StoreOK' /\ (Abstract!Next \/ UNCHANGED <<AllLines, disk>>)
  <2> DEFINE e == [id |-> last + 1, day |-> day]
  <2>1. StoreOK'
    BY <1>1, AppendKeepsStore
  <2>2. /\ last \in Nat /\ last < MaxEvents /\ last' = last + 1
        /\ WriteLine(e, opens, writes) /\ disk' = disk
    BY <1>1 DEF Append, StoreOK, RestTyped
  <2>3. e \in Events /\ e.id = last + 1
    BY <2>2 DEF Events
  <2> HIDE DEF e
  <2>4. AllLines' = AllLines \/ AllLines' = AllLines \cup {e}
    BY <2>2, <2>3, WriteKeepsFiles DEF StoreOK
  <2>5. \A f \in AllLines : f.id \in Nat /\ f.id <= last
    BY LinesShape DEF StoreOK, FilesOK, Numbered, Events
  <2>6. CASE AllLines' = AllLines \cup {e}
    <3>1. Abstract!Add(e)
      BY <2>2, <2>3, <2>5, <2>6 DEF Abstract!Add
    <3> QED
      BY <2>1, <2>3, <3>1 DEF Abstract!Next, Abstract!Events, Events
  <2> QED
    BY <2>1, <2>2, <2>4, <2>6
<1>2. ASSUME Fsync \/ Close
      PROVE  StoreOK' /\ (Abstract!Next \/ UNCHANGED <<AllLines, disk>>)
  <2>1. StoreOK' /\ AllLines' = AllLines /\ disk \subseteq disk' /\ disk' \subseteq AllLines
    BY <1>2, FsyncKeepsStore, CloseKeepsStore
  <2> QED
    BY <2>1 DEF Abstract!Next, Abstract!MakeSafe
<1>3. ASSUME \/ \E kept \in SUBSET DOMAIN lines : ClearLog(kept)
             \/ \E cutoff \in Days : PruneFiles(cutoff)
             \/ PruneFilesLast
      PROVE  StoreOK' /\ (Abstract!Next \/ UNCHANGED <<AllLines, disk>>)
  <2>1. StoreOK'
    BY <1>3, DropKeepsStore
  <2>2. PICK D \in SUBSET DOMAIN lines : Keeping(D)
    BY <1>3, DropKeepsStore
  <2>3. /\ AllLines' = {e \in AllLines : e.day \in D}
        /\ disk' = {e \in disk : e.day \in D}
    BY <2>2, KeepingDropsDays DEF StoreOK
  <2>4. \A e \in AllLines \cup disk : e.day \in DOMAIN lines
    BY DEF StoreOK, FilesOK, SafeIsLogged, LinesInTheirDay, AllLines, Logged
  <2> DEFINE G == DOMAIN lines \ D
  <2>5. G \in SUBSET Days
    BY LinesShape DEF StoreOK, FilesOK
  <2>6. Abstract!DropDays(G)
    BY <2>3, <2>4 DEF Abstract!DropDays, Abstract!Without
  <2> QED
    BY <2>1, <2>5, <2>6 DEF Abstract!Next
<1>4. ASSUME \/ ClearIndex \/ PruneRows \/ Vacuum \/ FlushStep \/ Exit
             \/ RebuildDrop \/ RebuildCommit
             \/ \E t \in Timers : TimerStep(t)
             \/ \E today \in Days : Start(today)
             \/ \E cutoff \in Days, upto \in 0 .. last : PruneHours(cutoff, upto)
      PROVE  StoreOK' /\ (Abstract!Next \/ UNCHANGED <<AllLines, disk>>)
  BY <1>4, ClearIndexKeepsStore, PassKeepsStore, AloneKeepsStore, ExitKeepsStore,
     RebuildKeepsStore, StartKeepsStore
<1>5. ASSUME PowerLoss
      PROVE  StoreOK' /\ (Abstract!Next \/ UNCHANGED <<AllLines, disk>>)
  <2>1. /\ StoreOK' /\ AllLines' \subseteq AllLines
        /\ disk \subseteq AllLines' /\ disk' = AllLines'
    BY <1>5, PowerLossKeepsStore
  <2> QED
    BY <2>1 DEF Abstract!Next, Abstract!LosePower
<1> QED
  BY <1>1, <1>2, <1>3, <1>4, <1>5 DEF Next

LEMMA StutterOK ==
  ASSUME StoreOK, UNCHANGED vars
  PROVE  StoreOK' /\ UNCHANGED <<AllLines, disk>>
<1>1. /\ UNCHANGED <<phase, loop, files, buf, last, errors, lost, wiped, pass, excused>>
      /\ UNCHANGED <<rows, pending, timer, threads, closed, stuck>>
  BY DEF vars, observers, index
<1>2. IndexOK' /\ Held' = Held /\ closed' = closed
  BY <1>1 DEF StoreOK, IndexOK, IndexTyped, TimerLives, ClosedIsIdle, PendingIsWatched, Held
<1> QED
  BY <1>1, <1>2, IndexStepKeepsStore DEF StoreOK, RestTyped, RowsFollowLines, Held

(* The inductive invariant holds in every reachable state. *)
THEOREM StoreInvariant == Spec => []StoreOK
<1>1. StoreOK /\ [Next]_vars => StoreOK'
  BY StepOK, StutterOK
<1> QED
  BY InitOK, <1>1, PTL DEF Spec

(* Every variable of the store keeps its type, and an open handle is that  *)
(* of the current day's file.                                              *)
THEOREM TypeInvariant == Spec => []TypeOK
<1>1. StoreOK => TypeOK
  BY DEF StoreOK, TypeOK, IndexOK, IndexTyped, FilesOK, FilesTyped, RestTyped, Phases, PassType
<1> QED
  BY StoreInvariant, <1>1, PTL

(* A day file holds that day's events only, whatever rollover failed.      *)
THEOREM LinesInTheirDayInvariant == Spec => []LinesInTheirDay
<1>1. StoreOK => LinesInTheirDay
  BY DEF StoreOK, FilesOK
<1> QED
  BY StoreInvariant, <1>1, PTL

(* No more events are missing from the files than write_errors counts.     *)
THEOREM LossIsCountedInvariant == Spec => []LossIsCounted
<1>1. StoreOK => LossIsCounted
  BY DEF StoreOK, LossOK
<1> QED
  BY StoreInvariant, <1>1, PTL

(* Uncommitted rows have a live timer thread, unless the last commit       *)
(* failed, whichever threads cancel, commit and arm meanwhile.             *)
THEOREM PendingIsWatchedInvariant == Spec => []PendingIsWatched
<1>1. StoreOK => PendingIsWatched
  BY DEF StoreOK, IndexOK
<1> QED
  BY StoreInvariant, <1>1, PTL

(* The index misses no line but those whose loss is accounted for.         *)
THEOREM RowsFollowLinesInvariant == Spec => []RowsFollowLines
<1>1. StoreOK => RowsFollowLines
  BY DEF StoreOK
<1> QED
  BY StoreInvariant, <1>1, PTL

(* What a completed reset erased never comes back, in memory, in the files *)
(* or in the index.                                                        *)
THEOREM WipedStaysWipedInvariant == Spec => []WipedStaysWiped
<1>1. StoreOK => WipedStaysWiped
  BY DEF StoreOK
<1> QED
  BY StoreInvariant, <1>1, PTL

(* What fsync covers: all the lines of the day being written, because each *)
(* of them is in the file the handle writes to.                            *)
THEOREM FsyncCoversItsDayInvariant == Spec => FsyncCoversItsDay
<1>1. ASSUME StoreOK, Fsync, errors' = errors, NEW e \in AllLines \ disk'
      PROVE  e.day # curDay
  <2>1. fh = curDay /\ errors \in Nat /\ LinesInTheirDay
    BY <1>1 DEF StoreOK, FilesOK, FilesTyped, RestTyped, Fsync
  <2>2. disk' = disk \cup (IF fh \in DOMAIN lines THEN lines[fh] ELSE {})
    BY <1>1, <2>1 DEF Fsync
  <2>3. PICK d \in DOMAIN lines : e \in lines[d]
    BY DEF AllLines, Logged
  <2>4. e.day = d
    BY <2>1, <2>3 DEF LinesInTheirDay
  <2> QED
    BY <1>1, <2>1, <2>2, <2>3, <2>4
<1>2. StoreOK => [Fsync /\ errors' = errors =>
                    \A e \in AllLines \ disk' : e.day # curDay]_vars
  BY <1>1
<1> QED
  BY StoreInvariant, <1>2, PTL DEF Spec, FsyncCoversItsDay

(* The store implements the durable log, for any number of days and events *)
(* and any index settings: events are added once and in order, whole days  *)
(* are dropped, and a loss of power takes only what no fsync covered.      *)
THEOREM ImplementsDurableLog == Spec => DurableLogSpec
<1>1. Init => Abstract!Init
  <2>1. Init => AllLines = {} /\ disk = {}
    BY DEF Init, AllLines, Logged
  <2> QED
    BY <2>1 DEF Abstract!Init
<1>2. StoreOK /\ [Next]_vars => [Abstract!Next]_<<AllLines, disk>>
  BY StepOK, StutterOK
<1> QED
  BY StoreInvariant, <1>1, <1>2, PTL DEF Spec, DurableLogSpec, Abstract!Spec
=============================================================================
