-------------------------- MODULE MigrationProofs ----------------------------
(***************************************************************************)
(* Theorems about Migration, for any lines and days and any number of      *)
(* crashes.  The inductive invariant says what each place of the process   *)
(* may rely on: no day file exists before the marker does, the buckets     *)
(* hold what was read once each, and no bucket left under a marker has a   *)
(* day file of its name.                                                   *)
(***************************************************************************)
EXTENDS Migration, TLAPS

Folders == UNION {[D -> Contents] : D \in SUBSET Days}

(* An old file that does not exist has no lines, and a service runs        *)
(* without one.                                                            *)
LegacyOK == /\ ~present => legacy = {}
            /\ pc = "running" => ~present
FirstPass ==
    pc \in {"wiping", "bucketing"} => present /\ ~marker /\ DOMAIN files = {}
BucketsExact ==
    pc = "bucketing" =>
       /\ read \subseteq legacy
       /\ \A l \in Lines : Count(buckets, l) = IF l \in read THEN 1 ELSE 0
Marked ==
    /\ pc \in {"renaming", "cleanup"} => marker
    /\ pc = "cleanup" => DOMAIN buckets = {} /\ ~present
    /\ pc = "running" /\ marker => DOMAIN buckets = {}
    /\ marker => DOMAIN buckets \cap DOMAIN files = {}
Unmarked == ~marker /\ present => DOMAIN files = {} \/ stray
MigrationOK ==
    /\ TypeOK /\ LegacyOK /\ FirstPass /\ BucketsExact /\ Marked /\ Unmarked
    /\ RefusesOnlyStrays

USE MigrationAssumption

LEMMA FolderShape ==
  ASSUME NEW f \in Folders
  PROVE  /\ DOMAIN f \subseteq Days
         /\ f = [d \in DOMAIN f |-> f[d]]
         /\ \A d \in DOMAIN f : f[d] \in Contents
         /\ \A l \in Lines : Count(f, l) \in {0, 1}
<1>1. PICK D \in SUBSET Days : f \in [D -> Contents]
  BY DEF Folders
<1> QED
  BY <1>1 DEF Count, Contents

LEMMA FolderTyped ==
  ASSUME NEW D \in SUBSET Days, NEW f \in [D -> Contents]
  PROVE  f \in Folders
  BY DEF Folders

LEMMA BlankContents == Blank \in Contents
  BY DEF Blank, Contents

LEMMA WithoutFolder ==
  ASSUME NEW f \in Folders, NEW D \in SUBSET Days, NEW g, g = Without(f, D)
  PROVE  /\ g \in Folders
         /\ DOMAIN g = DOMAIN f \ D
         /\ \A l \in Lines : Count(g, l) = IF DayOf[l] \in D THEN 0 ELSE Count(f, l)
<1>1. /\ DOMAIN f \subseteq Days
      /\ \A d \in DOMAIN f : f[d] \in Contents
  BY FolderShape
<1>2. g = [d \in DOMAIN f \ D |-> f[d]]
  BY DEF Without, Restrict
<1>3. g \in [DOMAIN f \ D -> Contents]
  BY <1>1, <1>2
<1>4. g \in Folders
  BY <1>1, <1>3, FolderTyped
<1> QED
  BY <1>2, <1>4 DEF Count

(* A line written to a folder is there once more, and no other line moves. *)
LEMMA WriteFolder ==
  ASSUME NEW f \in Folders, NEW l \in Lines, Count(f, l) = 0
  PROVE  /\ WriteTo(f, l) \in Folders
         /\ DOMAIN WriteTo(f, l) = DOMAIN f \cup {DayOf[l]}
         /\ \A k \in Lines : Count(WriteTo(f, l), k) = IF k = l THEN 1 ELSE Count(f, k)
<1> DEFINE d == DayOf[l]
           old == IF d \in DOMAIN f THEN f[d] ELSE Blank
           g == WriteTo(f, l)
<1>1. /\ DOMAIN f \subseteq Days /\ d \in Days
      /\ \A c \in DOMAIN f : f[c] \in Contents
  BY FolderShape
<1>2. old \in Contents /\ old[l] = 0
  BY <1>1, BlankContents DEF Count, Blank
<1>3. [old EXCEPT ![l] = @ + 1] \in Contents
  BY <1>2 DEF Contents
<1>4. g = [c \in DOMAIN f \cup {d} |-> IF c = d THEN [old EXCEPT ![l] = @ + 1] ELSE f[c]]
  BY DEF WriteTo
<1>5. g \in [DOMAIN f \cup {d} -> Contents]
  BY <1>1, <1>3, <1>4
<1>6. g \in Folders
  BY <1>1, <1>5, FolderTyped
<1>7. \A k \in Lines : Count(g, k) = IF k = l THEN 1 ELSE Count(f, k)
  <2> SUFFICES ASSUME NEW k \in Lines
               PROVE  Count(g, k) = IF k = l THEN 1 ELSE Count(f, k)
    OBVIOUS
  <2>1. CASE DayOf[k] # d
    BY <1>4, <2>1 DEF Count
  <2>2. CASE DayOf[k] = d
    <3>1. Count(g, k) = [old EXCEPT ![l] = @ + 1][k]
      BY <1>4, <2>2 DEF Count
    <3>2. Count(f, k) = old[k]
      BY <2>2 DEF Count, Blank
    <3> QED
      BY <1>2, <3>1, <3>2 DEF Contents
  <2> QED
    BY <2>1, <2>2
<1> QED
  BY <1>4, <1>6, <1>7

(* A rename moves a bucket's lines among the day files.                    *)
LEMMA RenameFolder ==
  ASSUME NEW f \in Folders, NEW b \in Folders, NEW d \in DOMAIN b, d \notin DOMAIN f,
         NEW g, g = [c \in DOMAIN f \cup {d} |-> IF c = d THEN b[d] ELSE f[c]]
  PROVE  /\ g \in Folders /\ DOMAIN g = DOMAIN f \cup {d}
         /\ \A l \in Lines : Count(g, l) = IF DayOf[l] = d THEN Count(b, l) ELSE Count(f, l)
<1>1. /\ DOMAIN f \subseteq Days /\ d \in Days /\ b[d] \in Contents
      /\ \A c \in DOMAIN f : f[c] \in Contents
  BY FolderShape
<1>2. g \in [DOMAIN f \cup {d} -> Contents]
  BY <1>1
<1>3. g \in Folders
  BY <1>1, <1>2, FolderTyped
<1> QED
  BY <1>3 DEF Count

-----------------------------------------------------------------------------
(* What one step does to the history a reader would see.                   *)

Sees(h) == \A l \in Lines : Copies(l)' = h[l]
Now == [l \in Lines |-> Copies(l)]
SourceNow == IF marker THEN {} ELSE legacy
Stutters == Sees(Now) /\ SourceNow' = SourceNow
Steps == Atomic!Next \/ Stutters

LEMMA TypedFolders ==
  ASSUME MigrationOK
  PROVE  buckets \in Folders /\ files \in Folders
  BY DEF MigrationOK, TypeOK, Folders

LEMMA InitOK == Init => MigrationOK
<1> SUFFICES ASSUME Init PROVE MigrationOK
  OBVIOUS
<1>1. NoFiles \in [{} -> Contents] /\ DOMAIN NoFiles = {}
  BY DEF NoFiles
<1>2. NoFiles \in Folders
  BY <1>1, FolderTyped
<1> QED
  BY <1>1, <1>2 DEF Init, MigrationOK, TypeOK, LegacyOK, FirstPass, BucketsExact, Marked,
                    Unmarked, RefusesOnlyStrays, Folders

(* Steps that leave every file as it is. *)
LEMMA StartStep ==
  ASSUME MigrationOK, Start
  PROVE  MigrationOK' /\ Stutters
<1>1. UNCHANGED <<legacy, present, aside, read, buckets, marker, files, stray>>
  BY DEF Start
<1>2. pc' \in {"wiping", "renaming", "running", "refused"}
  BY DEF Start
<1>3. MigrationOK'
  <2>1. TypeOK'
    BY <1>1, <1>2 DEF MigrationOK, TypeOK
  <2>2. LegacyOK' /\ FirstPass' /\ RefusesOnlyStrays' /\ Unmarked'
    BY <1>1 DEF Start, MigrationOK, LegacyOK, FirstPass, Unmarked, RefusesOnlyStrays
  <2>3. BucketsExact' /\ Marked'
    BY <1>1, <1>2 DEF Start, MigrationOK, BucketsExact, Marked
  <2> QED
    BY <2>1, <2>2, <2>3 DEF MigrationOK
<1> QED
  BY <1>1, <1>3 DEF Stutters, Sees, Now, SourceNow, Copies, Count

LEMMA WipeStep ==
  ASSUME MigrationOK, Wipe
  PROVE  MigrationOK' /\ Stutters
<1>1. /\ pc = "wiping" /\ ~marker /\ present /\ DOMAIN files = {}
      /\ UNCHANGED <<legacy, present, aside, marker, files, stray>>
  BY DEF Wipe, MigrationOK, FirstPass
<1>2. Stutters
  BY <1>1 DEF Stutters, Sees, Now, SourceNow, Copies, Count
<1>3. CASE \E d \in DOMAIN buckets : /\ buckets' = Without(buckets, {d})
                                    /\ UNCHANGED <<pc, read>>
  <2>1. buckets' \in Folders
    <3>1. PICK d \in DOMAIN buckets : buckets' = Without(buckets, {d})
      BY <1>3
    <3>2. {d} \in SUBSET Days /\ buckets \in Folders
      BY <3>1, TypedFolders, FolderShape
    <3> QED
      BY <3>1, <3>2, WithoutFolder
  <2> QED
    BY <1>1, <1>2, <1>3, <2>1
       DEF MigrationOK, TypeOK, LegacyOK, FirstPass, BucketsExact, Marked, Unmarked,
           RefusesOnlyStrays, Folders
<1>4. CASE /\ DOMAIN buckets = {} /\ read' = {} /\ pc' = "bucketing"
           /\ UNCHANGED buckets
  <2>1. \A l \in Lines : Count(buckets, l)' = 0
    BY <1>4 DEF Count
  <2> QED
    BY <1>1, <1>2, <1>4, <2>1
       DEF MigrationOK, TypeOK, LegacyOK, FirstPass, BucketsExact, Marked, Unmarked,
           RefusesOnlyStrays
<1> QED
  BY <1>3, <1>4 DEF Wipe

LEMMA BucketStep ==
  ASSUME MigrationOK, NEW l \in Lines, Bucket(l)
  PROVE  MigrationOK' /\ Stutters
<1>1. /\ pc = "bucketing" /\ ~marker /\ present /\ DOMAIN files = {}
      /\ l \in legacy \ read /\ read' = read \cup {l} /\ buckets' = WriteTo(buckets, l)
      /\ UNCHANGED <<pc, legacy, present, aside, marker, files, stray>>
  BY DEF Bucket, MigrationOK, FirstPass
<1>2. Stutters
  BY <1>1 DEF Stutters, Sees, Now, SourceNow, Copies, Count
<1>3. /\ read \subseteq legacy
      /\ \A k \in Lines : Count(buckets, k) = IF k \in read THEN 1 ELSE 0
  BY <1>1 DEF MigrationOK, BucketsExact
<1>4. /\ buckets' \in Folders
      /\ \A k \in Lines : Count(buckets', k) = IF k = l THEN 1 ELSE Count(buckets, k)
  BY <1>1, <1>3, TypedFolders, WriteFolder
<1>5. \A k \in Lines : Count(buckets, k)' = IF k \in read' THEN 1 ELSE 0
  BY <1>1, <1>3, <1>4 DEF Count
<1> QED
  BY <1>1, <1>2, <1>3, <1>4, <1>5
     DEF MigrationOK, TypeOK, LegacyOK, FirstPass, BucketsExact, Marked, Unmarked,
         RefusesOnlyStrays, Folders

(* The marker is the moment of the import. *)
LEMMA MarkStep ==
  ASSUME MigrationOK, Mark
  PROVE  MigrationOK' /\ Atomic!Import
<1>1. /\ pc = "bucketing" /\ ~marker /\ present /\ DOMAIN files = {}
      /\ legacy \subseteq read /\ marker' = TRUE /\ pc' = "renaming"
      /\ UNCHANGED <<legacy, present, aside, read, buckets, files, stray>>
  BY DEF Mark, MigrationOK, FirstPass
<1>2. MigrationOK'
  BY <1>1 DEF MigrationOK, TypeOK, LegacyOK, FirstPass, BucketsExact, Marked, Unmarked,
              RefusesOnlyStrays
<1>3. \A l \in Lines : Count(buckets, l) = IF l \in legacy THEN 1 ELSE 0
  BY <1>1 DEF MigrationOK, BucketsExact
<1>4. \A l \in Lines : Count(files, l) = 0 /\ Count(files, l)' = 0
  BY <1>1 DEF Count
<1>5. \A l \in Lines : Copies(l) = 0
  BY <1>1, <1>4 DEF Copies
<1>6. \A l \in Lines : Copies(l)' = IF l \in legacy THEN 1 ELSE 0
  BY <1>1, <1>3, <1>4 DEF Copies, Count
<1> QED
  BY <1>1, <1>2, <1>5, <1>6 DEF Atomic!Import, Atomic!Empty, Atomic!Once

(* A rename moves lines the reader already saw, and overwrites nothing. *)
LEMMA RenameStep ==
  ASSUME MigrationOK, NEW d \in Days, Rename(d)
  PROVE  MigrationOK' /\ Stutters /\ d \notin DOMAIN files
<1>1. /\ pc = "renaming" /\ marker /\ d \in DOMAIN buckets /\ d \notin DOMAIN files
      /\ files' = [c \in DOMAIN files \cup {d} |-> IF c = d THEN buckets[d] ELSE files[c]]
      /\ buckets' = Without(buckets, {d})
      /\ UNCHANGED <<pc, legacy, present, aside, read, marker, stray>>
  BY DEF Rename, MigrationOK, Marked
<1>2. /\ files' \in Folders /\ DOMAIN files' = DOMAIN files \cup {d}
      /\ \A l \in Lines : Count(files', l)
                            = IF DayOf[l] = d THEN Count(buckets, l) ELSE Count(files, l)
  BY <1>1, TypedFolders, RenameFolder
<1>3. /\ buckets' \in Folders /\ DOMAIN buckets' = DOMAIN buckets \ {d}
      /\ \A l \in Lines : Count(buckets', l) = IF DayOf[l] \in {d} THEN 0 ELSE Count(buckets, l)
  <2>1. {d} \in SUBSET Days /\ buckets \in Folders
    BY TypedFolders
  <2>2. buckets' = Without(buckets, {d})
    BY <1>1
  <2> QED
    BY <2>1, <2>2, WithoutFolder
<1>4. \A l \in Lines : DayOf[l] = d => Count(files, l) = 0
  BY <1>1 DEF Count
<1>5. \A l \in Lines : /\ Count(files, l) \in {0, 1} /\ Count(buckets, l) \in {0, 1}
                        /\ Copies(l)' = Count(files', l) + Count(buckets', l)
                        /\ Copies(l) = Count(files, l) + Count(buckets, l)
  BY <1>1, TypedFolders, FolderShape DEF Copies, Count
<1>6. \A l \in Lines : Copies(l)' = Copies(l)
  BY <1>2, <1>3, <1>4, <1>5
<1>7. Stutters
  BY <1>1, <1>6 DEF Stutters, Sees, Now, SourceNow
<1> QED
  BY <1>1, <1>2, <1>3, <1>7
     DEF MigrationOK, TypeOK, LegacyOK, FirstPass, BucketsExact, Marked, Unmarked,
         RefusesOnlyStrays, Folders

LEMMA SetAsideStep ==
  ASSUME MigrationOK, SetAside
  PROVE  MigrationOK' /\ Stutters
<1>1. /\ pc = "renaming" /\ marker /\ DOMAIN buckets = {} /\ pc' = "cleanup"
      /\ aside' = (IF present THEN legacy ELSE aside) /\ legacy' = {} /\ present' = FALSE
      /\ UNCHANGED <<read, buckets, marker, files, stray>>
  BY DEF SetAside, MigrationOK, Marked
<1>2. Stutters
  BY <1>1 DEF Stutters, Sees, Now, SourceNow, Copies, Count
<1> QED
  BY <1>1, <1>2 DEF MigrationOK, TypeOK, LegacyOK, FirstPass, BucketsExact, Marked, Unmarked,
                    RefusesOnlyStrays

LEMMA CleanupStep ==
  ASSUME MigrationOK, Cleanup
  PROVE  MigrationOK' /\ Stutters
<1>1. /\ pc = "cleanup" /\ marker /\ DOMAIN buckets = {} /\ ~present /\ legacy = {}
      /\ pc' = "running" /\ marker' \in {FALSE, marker}
      /\ UNCHANGED <<legacy, present, aside, read, buckets, files, stray>>
  BY DEF Cleanup, MigrationOK, Marked, LegacyOK
<1>2. \A l \in Lines : /\ Count(buckets, l) = 0 /\ Count(buckets, l)' = 0
                        /\ Count(files, l)' = Count(files, l)
  BY <1>1 DEF Count
<1>3. \A l \in Lines : Copies(l)' = Copies(l)
  BY <1>1, <1>2 DEF Copies
<1>4. Stutters
  BY <1>1, <1>3 DEF Stutters, Sees, Now, SourceNow
<1> QED
  BY <1>1, <1>4 DEF MigrationOK, TypeOK, LegacyOK, FirstPass, BucketsExact, Marked, Unmarked,
                    RefusesOnlyStrays

LEMMA AppendStep ==
  ASSUME MigrationOK, NEW l \in Lines, Append(l)
  PROVE  MigrationOK' /\ Atomic!Add(l)
<1>1. /\ pc = "running" /\ Copies(l) = 0 /\ files' = WriteTo(files, l)
      /\ UNCHANGED <<pc, legacy, present, aside, read, buckets, marker, stray>>
      /\ ~present /\ (marker => DOMAIN buckets = {})
  BY DEF Append, MigrationOK, LegacyOK, Marked
<1>2. \A k \in Lines : /\ (marker => Count(buckets, k) = 0)
                        /\ Count(files, k) \in {0, 1}
  BY <1>1, TypedFolders, FolderShape DEF Count
<1>3. \A k \in Lines : Copies(k) = Count(files, k) /\ Copies(k)' = Count(files', k)
  <2>1. ASSUME NEW k \in Lines PROVE Copies(k) = Count(files, k)
    <3>1. CASE marker
      BY <1>2, <3>1 DEF Copies
    <3>2. CASE ~marker
      BY <1>2, <3>2 DEF Copies
    <3> QED
      BY <3>1, <3>2
  <2>2. \A k \in Lines : marker' => Count(buckets, k)' = 0
    BY <1>1, <1>2 DEF Count
  <2>3. \A k \in Lines : Count(files', k) \in {0, 1} => Copies(k)' = Count(files', k)
    BY <1>1, <2>2 DEF Copies, Count
  <2>4. Count(files, l) = 0 /\ files \in Folders
    BY <1>1, <2>1, TypedFolders
  <2>5. \A k \in Lines : Count(files', k) = IF k = l THEN 1 ELSE Count(files, k)
    BY <1>1, <2>4, WriteFolder
  <2> QED
    BY <1>2, <2>1, <2>3, <2>5
<1>4. /\ files' \in Folders
      /\ \A k \in Lines : Count(files', k) = IF k = l THEN 1 ELSE Count(files, k)
  BY <1>1, <1>3, TypedFolders, WriteFolder
<1>5. \A k \in Lines : Copies(k)' = IF k = l THEN 1 ELSE Copies(k)
  BY <1>3, <1>4
<1>6. Atomic!Add(l)
  BY <1>1, <1>5 DEF Atomic!Add
<1> QED
  BY <1>1, <1>4, <1>6
     DEF MigrationOK, TypeOK, LegacyOK, FirstPass, BucketsExact, Marked, Unmarked,
         RefusesOnlyStrays, Folders

LEMMA DropStep ==
  ASSUME MigrationOK, NEW D \in SUBSET Days, DropDays(D)
  PROVE  MigrationOK' /\ Atomic!Drop(D)
<1>1. /\ pc = "running" /\ files' = Without(files, D)
      /\ UNCHANGED <<pc, legacy, present, aside, read, buckets, marker, stray>>
      /\ ~present /\ (marker => DOMAIN buckets = {})
  BY DEF DropDays, MigrationOK, LegacyOK, Marked
<1>2. \A k \in Lines : /\ (marker => Count(buckets, k) = 0)
                        /\ Count(files, k) \in {0, 1}
  BY <1>1, TypedFolders, FolderShape DEF Count
<1>3. /\ files' \in Folders /\ DOMAIN files' = DOMAIN files \ D
      /\ \A k \in Lines : Count(files', k) = IF DayOf[k] \in D THEN 0 ELSE Count(files, k)
  <2>1. files \in Folders
    BY TypedFolders
  <2>2. files' = Without(files, D)
    BY <1>1
  <2> QED
    BY <2>1, <2>2, WithoutFolder
<1>4. \A k \in Lines : Copies(k) = Count(files, k) /\ Copies(k)' = Count(files', k)
  BY <1>1, <1>2, <1>3 DEF Copies, Count
<1>5. \A k \in Lines : Copies(k)' = IF DayOf[k] \in D THEN 0 ELSE Copies(k)
  BY <1>3, <1>4
<1>6. Atomic!Drop(D)
  BY <1>1, <1>5 DEF Atomic!Drop
<1> QED
  BY <1>1, <1>3, <1>6
     DEF MigrationOK, TypeOK, LegacyOK, FirstPass, BucketsExact, Marked, Unmarked,
         RefusesOnlyStrays, Folders

LEMMA CrashStep ==
  ASSUME MigrationOK, Crash
  PROVE  MigrationOK' /\ Stutters
<1>1. /\ pc' = "down"
      /\ UNCHANGED <<legacy, present, aside, read, marker, files, stray>>
  BY DEF Crash
<1>2. CASE pc = "bucketing"
  <2>1. ~marker
    BY <1>2 DEF MigrationOK, FirstPass
  <2>2. PICK D \in SUBSET DOMAIN buckets :
          buckets' = [d \in DOMAIN buckets |-> IF d \in D THEN Blank ELSE buckets[d]]
    BY <1>2 DEF Crash
  <2>3. /\ DOMAIN buckets \subseteq Days
        /\ \A d \in DOMAIN buckets : buckets[d] \in Contents
    BY TypedFolders, FolderShape
  <2>4. buckets' \in [DOMAIN buckets -> Contents]
    BY <2>2, <2>3, BlankContents
  <2>5. buckets' \in Folders
    BY <2>3, <2>4, FolderTyped
  <2>6. Stutters
    BY <1>1, <2>1 DEF Stutters, Sees, Now, SourceNow, Copies, Count
  <2> QED
    BY <1>1, <2>1, <2>5, <2>6
       DEF MigrationOK, TypeOK, LegacyOK, FirstPass, BucketsExact, Marked, Unmarked,
           RefusesOnlyStrays, Folders
<1>3. CASE pc # "bucketing"
  <2>1. buckets' = buckets
    BY <1>3 DEF Crash
  <2>2. Stutters
    BY <1>1, <2>1 DEF Stutters, Sees, Now, SourceNow, Copies, Count
  <2> QED
    BY <1>1, <2>1, <2>2
       DEF MigrationOK, TypeOK, LegacyOK, FirstPass, BucketsExact, Marked, Unmarked,
           RefusesOnlyStrays
<1> QED
  BY <1>2, <1>3

LEMMA StrayStep ==
  ASSUME MigrationOK, Stray
  PROVE  MigrationOK' /\ Steps
<1>1. /\ pc = "down" /\ ~present /\ legacy = {} /\ present' = TRUE
      /\ legacy' \in SUBSET Lines /\ stray' = TRUE
      /\ UNCHANGED <<pc, aside, read, buckets, marker, files>>
  BY DEF Stray, MigrationOK, LegacyOK
<1>2. MigrationOK'
  BY <1>1 DEF MigrationOK, TypeOK, LegacyOK, FirstPass, BucketsExact, Marked, Unmarked,
              RefusesOnlyStrays
<1>3. \A l \in Lines : Copies(l)' = Copies(l)
  BY <1>1 DEF Copies, Count
<1>4. CASE marker
  BY <1>1, <1>2, <1>3, <1>4 DEF Steps, Stutters, Sees, Now, SourceNow
<1>5. CASE ~marker
  <2>1. Atomic!Bring
    BY <1>1, <1>3, <1>5 DEF Atomic!Bring
  <2> QED
    BY <1>2, <2>1 DEF Steps, Atomic!Next
<1> QED
  BY <1>4, <1>5

LEMMA StepOK ==
  ASSUME MigrationOK, Next
  PROVE  MigrationOK' /\ Steps
<1>1. ASSUME NEW l \in Lines, Append(l) PROVE MigrationOK' /\ Steps
  BY <1>1, AppendStep DEF Steps, Atomic!Next
<1>2. ASSUME NEW D \in SUBSET Days, DropDays(D) PROVE MigrationOK' /\ Steps
  BY <1>2, DropStep DEF Steps, Atomic!Next
<1>3. ASSUME Mark PROVE MigrationOK' /\ Steps
  BY <1>3, MarkStep DEF Steps, Atomic!Next
<1> QED
  BY <1>1, <1>2, <1>3, StartStep, WipeStep, BucketStep, RenameStep, SetAsideStep,
     CleanupStep, CrashStep, StrayStep DEF Next, Steps

LEMMA StutterOK ==
  ASSUME MigrationOK, UNCHANGED vars
  PROVE  MigrationOK' /\ Stutters
  BY DEF vars, MigrationOK, TypeOK, LegacyOK, FirstPass, BucketsExact, Marked, Unmarked,
         RefusesOnlyStrays, Stutters, Sees, Now, SourceNow, Copies, Count

(* The inductive invariant holds in every reachable state. *)
THEOREM MigrationInvariant == Spec => []MigrationOK
<1>1. MigrationOK /\ [Next]_vars => MigrationOK'
  BY StepOK, StutterOK
<1> QED
  BY InitOK, <1>1, PTL DEF Spec

(* Every variable has its type: no day file or bucket holds a line twice,  *)
(* however often the migration was begun.                                  *)
THEOREM TypeInvariant == Spec => []TypeOK
<1>1. MigrationOK => TypeOK
  BY DEF MigrationOK
<1> QED
  BY MigrationInvariant, <1>1, PTL

(* An interrupted migration is never refused: only an old file put back    *)
(* later is.                                                               *)
THEOREM RefusalInvariant == Spec => []RefusesOnlyStrays
<1>1. MigrationOK => RefusesOnlyStrays
  BY DEF MigrationOK
<1> QED
  BY MigrationInvariant, <1>1, PTL

(* A rename never replaces a day file the service may have written to.     *)
THEOREM NoClobbering == Spec => NothingClobbered
<1>1. MigrationOK /\ [Next]_vars
        => [\A d \in Days : Rename(d) => d \notin DOMAIN files]_vars
  BY RenameStep
<1> QED
  BY MigrationInvariant, <1>1, PTL DEF Spec, NothingClobbered

(* The migration is an atomic import: through any crashes, the history     *)
(* holds none of the old file's lines or each of them once.                *)
THEOREM ImplementsAtomicImport == Spec => AtomicImportSpec
<1>1. Init => Atomic!Init
  <2> SUFFICES ASSUME Init PROVE Atomic!Init
    OBVIOUS
  <2>1. \A l \in Lines : Copies(l) = 0
    BY DEF Init, NoFiles, Copies, Count
  <2> QED
    BY <2>1 DEF Init, Atomic!Init, Atomic!Empty
<1>2. Stutters => UNCHANGED <<Now, SourceNow>>
  BY DEF Stutters, Sees, Now
<1>3. MigrationOK /\ [Next]_vars => [Atomic!Next]_<<Now, SourceNow>>
  BY <1>2, StepOK, StutterOK DEF Steps
<1> QED
  BY MigrationInvariant, <1>1, <1>3, PTL DEF Spec, AtomicImportSpec, Atomic!Spec, Now, SourceNow
=============================================================================
