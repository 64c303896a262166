----------------------------- MODULE EventStore ------------------------------
(***************************************************************************)
(* The event log (backend/event_log.py) as the service runs it: one JSONL  *)
(* file a day, a ring buffer for the live view and the index of EventIndex,*)
(* with the janitors of backend/cli.py.                                    *)
(*                                                                         *)
(* append, clear and close run on the event loop, so they exclude one      *)
(* another (loop is where clear stands); fsync and retention run on worker *)
(* threads and meet them between the log lock and the index lock.  The     *)
(* process may be killed and the power may fail at any step.               *)
(*                                                                         *)
(* Abstracted: an event is its number and its day; a line is its event;    *)
(* whatever was not fsynced may or may not survive a loss of power, and so *)
(* may a committed row (WAL, synchronous=NORMAL), while what was deleted   *)
(* stays deleted; the events of a day are as old as their numbers say.     *)
(* Left out: the single-file mode, which no command of the service selects,*)
(* and a service without an index.                                         *)
(***************************************************************************)
EXTENDS EventIndex, Functions

CONSTANTS
    LastDay,     \* days are 1..LastDay
    Capacity,    \* length of the ring buffer
    MaxEvents,   \* bound: events ever appended
    MaxErrors    \* bound: failures of fsync counted

ASSUME EventStoreAssumption ==
    /\ LastDay \in Nat \ {0} /\ Capacity \in Nat \ {0}
    /\ MaxEvents \in Nat /\ MaxErrors \in Nat

Days == 1 .. LastDay
Events == [id : 1 .. MaxEvents, day : Days]

VARIABLES
    phase,     \* the process: down, up, or closed (close() was called); or one of
               \* its own, rebuilding the index
    loop,      \* the event loop: free, or between the two halves of clear()
    lines,     \* the day files that exist and the lines in each
    disk,      \* the lines that survive a loss of power
    fh,        \* the day of the file _fh writes to, or None
    curDay,    \* _current_day
    buf,       \* the ring buffer
    last,      \* the number of the newest event
    errors,    \* _write_errors
    pass,      \* the retention pass: where it stands, by hours or by days, its
               \* cutoff (a day, and a number in it), did it delete
    lost,      \* observer: events of this process that reached no file
    excused,   \* observer: lines whose row may be missing
    wiped      \* observer: the newest event a completed clear() erased
files == <<lines, disk, fh, curDay>>
observers == <<lost, excused, wiped>>
vars == <<index, phase, loop, files, buf, last, errors, pass, observers>>

Logged(f) == UNION {f[d] : d \in DOMAIN f}
AllLines == Logged(lines)
Newest(S) == {e \in S : Cardinality({f \in S : f.id > e.id}) < Capacity}
Serving == phase \in {"up", "closed"}
NoPass == [pc |-> "idle", hours |-> FALSE, cutoff |-> 1, upto |-> 0, deleted |-> FALSE]

-----------------------------------------------------------------------------
(* append                                                                  *)

(* A seeded slip: the old day's handle kept when the new day's file will   *)
(* not open.                                                               *)
WriterStays(day, opens) == IF opens THEN day ELSE fh

(* The day _fh writes to after _ensure_day_writer_locked.  A switch closes *)
(* the old file first, without fsync.                                      *)
Writer(day, opens) == IF fh # None /\ curDay = day THEN fh
                      ELSE IF opens THEN day ELSE None

(* A seeded slip: mode "w". *)
OpenedAfresh(day, opens) ==
    IF ~opens \/ (fh # None /\ curDay = day) THEN lines
    ELSE [d \in DOMAIN lines \cup {day} |-> IF d = day THEN {} ELSE lines[d]]

(* open(..., "a") creates the file if need be. *)
Opened(day, opens) ==
    IF ~opens \/ (fh # None /\ curDay = day) \/ day \in DOMAIN lines THEN lines
    ELSE [d \in DOMAIN lines \cup {day} |-> IF d = day THEN {} ELSE lines[d]]

(* A handle whose file was unlinked would take the line with it. *)
Written(f, d, e) == IF d \in DOMAIN f THEN [f EXCEPT ![d] = @ \cup {e}] ELSE f

WriteLine(e, opens, writes) ==
    LET w == Writer(e.day, opens)
        ok == w # None /\ writes
        f == Opened(e.day, opens)
    IN  /\ fh' = w
        /\ curDay' = IF w = None THEN curDay ELSE e.day
        /\ lines' = IF ok THEN Written(f, w, e) ELSE f
        /\ errors' = IF ok THEN errors ELSE errors + 1
        /\ lost' = IF e \in Logged(lines') THEN lost ELSE lost \cup {e}

(* opens: the day file could be opened; writes: the line could be written; *)
(* inserts: the row could be inserted; due: the last commit is old.        *)
Append(day, opens, writes, inserts, due) ==
    LET e == [id |-> last + 1, day |-> day]
    IN  /\ phase = "up" /\ loop = "free"
        /\ last < MaxEvents
        /\ last' = last + 1
        /\ buf' = Newest(buf \cup {e})
        /\ WriteLine(e, opens, writes)
        /\ Insert(e, inserts, due)
        /\ excused' = IF inserts THEN excused ELSE excused \cup {e}
        /\ UNCHANGED <<phase, loop, disk, pass, wiped>>

-----------------------------------------------------------------------------
(* fsync_to_disk, every five seconds on a worker thread.                   *)

(* A seeded slip: the handle is looked up before the lock is held, and may *)
(* be that of a day left since.                                            *)
FsyncEarlierHandle ==
    /\ Serving /\ fh # None
    /\ \E d \in DOMAIN lines : disk' = disk \cup lines[d]
    /\ UNCHANGED <<index, phase, loop, lines, fh, curDay, buf, last, errors, pass,
                   observers>>

Fsync ==
    /\ Serving /\ fh # None
    /\ \/ /\ disk' = disk \cup (IF fh \in DOMAIN lines THEN lines[fh] ELSE {})
          /\ UNCHANGED errors
       \/ /\ errors < MaxErrors
          /\ errors' = errors + 1
          /\ UNCHANGED disk
    /\ UNCHANGED <<index, phase, loop, lines, fh, curDay, buf, last, pass,
                   observers>>

-----------------------------------------------------------------------------
(* clear(), of POST /api/reset: the log under its lock, then the index.    *)
(* Some files may refuse to go; the commit or the DELETE may fail.         *)

Keeping(D) == lines' = Restrict(lines, D) /\ disk' = disk \cap Logged(lines')

ClearLog(kept) ==
    /\ phase = "up" /\ loop = "free"
    /\ loop' = "clearing"
    /\ buf' = {}
    /\ fh' = None /\ curDay' = None
    /\ Keeping(kept)
    /\ UNCHANGED <<index, phase, last, errors, pass, observers>>

ClearIndex ==
    /\ loop = "clearing"
    /\ loop' = "free"
    /\ \/ /\ ~closed /\ DeleteAll
          /\ wiped' = IF AllLines = {} THEN last ELSE wiped
          /\ excused' = excused \cup AllLines
       \/ /\ ~closed /\ \E ok \in BOOLEAN : CommitLocked(pending, ok)
          /\ UNCHANGED <<wiped, excused>>
    /\ UNCHANGED <<phase, files, buf, last, errors, pass, lost>>

-----------------------------------------------------------------------------
(* Retention, hourly on a worker thread: by days, the files under the log  *)
(* lock and then the rows chunk by chunk under the index lock; by hours,   *)
(* the rows first.  A command line asks for one of them.                   *)

(* A seeded slip: the day being written is not spared. *)
OldDaysAll(cutoff) == {d \in DOMAIN lines : d < cutoff}
OldDays(cutoff) == {d \in DOMAIN lines : d < cutoff /\ d # curDay}

Unlink(cutoff) == \E gone \in SUBSET OldDays(cutoff) : Keeping(DOMAIN lines \ gone)

(* prune_days_older_than begins. *)
PruneFiles(cutoff) ==
    /\ Serving /\ pass.pc = "idle"
    /\ Unlink(cutoff)
    /\ pass' = [NoPass EXCEPT !.pc = "rows", !.cutoff = cutoff]
    /\ UNCHANGED <<index, phase, loop, fh, curDay, buf, last, errors, observers>>

(* What pass p still needs to know when it goes on to a step. *)
On(p, step) == [NoPass EXCEPT !.pc = step, !.hours = p.hours, !.cutoff = p.cutoff]
RowsEnd(p) == pass' = IF p.hours THEN On(p, "files") ELSE NoPass

(* A chunk of pass p.  The chunks end with one that is not full; VACUUM    *)
(* only if rows went.  A commit or a DELETE that fails ends the work on    *)
(* the rows.                                                               *)
PruneChunk(p) ==
    /\ \/ /\ closed
          /\ RowsEnd(p)
          /\ UNCHANGED <<index, excused>>
       \/ /\ ~closed
          /\ \E ok \in BOOLEAN : CommitLocked(pending, ok)
          /\ RowsEnd(p)
          /\ UNCHANGED excused
       \/ /\ ~closed
          /\ \E gone \in SUBSET (rows \cup pending) :
                /\ IF p.hours THEN DeleteOlderChunk(p.cutoff, p.upto, gone)
                   ELSE DeleteChunk(p.cutoff, gone)
                /\ IF Cardinality(gone) = Chunk
                   THEN pass' = [p EXCEPT !.deleted = TRUE]
                   ELSE IF gone # {} \/ p.deleted
                   THEN pass' = On(p, "vacuum") ELSE RowsEnd(p)
          /\ excused' = excused \cup OlderToo(AllLines, p.cutoff, p.upto)
    /\ UNCHANGED <<phase, loop, files, buf, last, errors, lost, wiped>>

PruneRows == pass.pc = "rows" /\ PruneChunk(pass)

(* _periodic_event_retention: until its first chunk a pass by hours has    *)
(* done nothing, so it begins there.                                       *)
PruneHours(cutoff, upto) ==
    /\ Serving /\ pass.pc = "idle"
    /\ PruneChunk([pc |-> "rows", hours |-> TRUE, cutoff |-> cutoff, upto |-> upto,
                   deleted |-> FALSE])

Vacuum ==
    /\ pass.pc = "vacuum"
    /\ RowsEnd(pass)
    /\ IF closed THEN UNCHANGED index
       ELSE \E ok \in BOOLEAN : CommitLocked(pending, ok)
    /\ UNCHANGED <<phase, loop, files, buf, last, errors, observers>>

(* prune_older_than comes to the files; the cutoff's own day is kept. *)
PruneFilesLast ==
    /\ pass.pc = "files"
    /\ Unlink(pass.cutoff)
    /\ pass' = NoPass
    /\ UNCHANGED <<index, phase, loop, fh, curDay, buf, last, errors, observers>>

-----------------------------------------------------------------------------
(* The index on its own: timers, and readers that flush before a query.    *)

Alone == /\ Serving
         /\ UNCHANGED <<phase, loop, files, buf, last, errors, pass, observers>>
TimerStep(t) == Alone /\ (Fire(t) \/ TimedCommit(t))
FlushStep == Alone /\ Flush

-----------------------------------------------------------------------------
(* close(), the end of the process, loss of power, and the next start.     *)

(* fsync may fail and is ignored; a failing flush skips the index. *)
Close ==
    /\ phase = "up" /\ loop = "free"
    /\ phase' = "closed"
    /\ fh' = None
    /\ \/ /\ disk' \in {disk, disk \cup UNION {lines[d] : d \in DOMAIN lines \cap {fh}}}
          /\ \E ok \in BOOLEAN :
                /\ CloseIndex(ok)
                /\ excused' = IF ok THEN excused ELSE excused \cup pending
       \/ /\ fh # None
          /\ UNCHANGED <<index, disk, excused>>
    /\ UNCHANGED <<loop, lines, curDay, buf, last, errors, pass, lost, wiped>>

Gone ==
    /\ phase' = "down" /\ loop' = "free"
    /\ fh' = None /\ curDay' = None
    /\ buf' = {} /\ lost' = {} /\ errors' = 0
    /\ pass' = NoPass
    /\ IndexGone
    /\ UNCHANGED <<last, wiped>>

(* Normal exit or a kill, of a rebuild too: the kernel keeps what it was   *)
(* given.                                                                  *)
Exit ==
    /\ phase # "down"
    /\ Gone
    /\ excused' = excused \cup pending
    /\ UNCHANGED <<rows, lines, disk>>

(* After a loss of power the index may lack any row until it is rebuilt. *)
PowerLoss ==
    /\ Gone
    /\ \E kept \in SUBSET (AllLines \ disk) :
          lines' = [d \in DOMAIN lines |-> lines[d] \cap (disk \cup kept)]
    /\ disk' = Logged(lines')
    /\ rows' \in SUBSET rows
    /\ excused' = disk'

(* --rebuild-index: the table is dropped and made again outside of any     *)
(* transaction, so at once ...                                             *)
RebuildDrop ==
    /\ phase = "down"
    /\ phase' = "rebuilding"
    /\ rows' = {}
    /\ excused' = AllLines
    /\ UNCHANGED <<pending, timer, threads, closed, stuck, loop, files, buf, last,
                   errors, pass, lost, wiped>>

(* ... and the rows, of every file, are committed at the end.  A process   *)
(* that ends between the two leaves an empty index that looks current.     *)
RebuildCommit ==
    /\ phase = "rebuilding"
    /\ phase' = "down"
    /\ rows' = AllLines
    /\ excused' = {}
    /\ UNCHANGED <<pending, timer, threads, closed, stuck, loop, files, buf, last,
                   errors, pass, lost, wiped>>

(* A new process; the ring buffer is primed from the file of its day. *)
Start(today) ==
    /\ phase = "down"
    /\ phase' = "up"
    /\ closed' = FALSE
    /\ buf' = IF today \in DOMAIN lines THEN Newest(lines[today]) ELSE {}
    /\ UNCHANGED <<rows, pending, timer, threads, stuck, loop, files, last,
                   errors, pass, observers>>

Init ==
    /\ rows = {} /\ pending = {} /\ timer = None /\ threads = Idle
    /\ closed = TRUE /\ stuck = FALSE
    /\ phase = "down" /\ loop = "free"
    /\ lines = [d \in {} |-> {}] /\ disk = {} /\ fh = None /\ curDay = None
    /\ buf = {} /\ last = 0 /\ errors = 0 /\ pass = NoPass
    /\ lost = {} /\ excused = {} /\ wiped = 0

Next ==
    \/ \E day \in Days, opens, writes, inserts, due \in BOOLEAN :
          Append(day, opens, writes, inserts, due)
    \/ Fsync
    \/ \E kept \in SUBSET DOMAIN lines : ClearLog(kept)
    \/ ClearIndex
    \/ \E cutoff \in Days : PruneFiles(cutoff)
    \/ \E cutoff \in Days, upto \in 0 .. last : PruneHours(cutoff, upto)
    \/ PruneFilesLast
    \/ PruneRows
    \/ Vacuum
    \/ \E t \in Timers : TimerStep(t)
    \/ FlushStep
    \/ Close
    \/ Exit
    \/ PowerLoss
    \/ RebuildDrop
    \/ RebuildCommit
    \/ \E today \in Days : Start(today)

Spec == Init /\ [][Next]_vars

(* Timer threads run: the operating system schedules them and every holder *)
(* of the index lock releases it.                                          *)
FairSpec == Spec /\ \A t \in Timers : WF_vars(TimerStep(t))

-----------------------------------------------------------------------------
(* Every variable has its type, and an open handle is that of the current  *)
(* day's file.                                                             *)
TypeOK ==
    /\ rows \in SUBSET Events /\ pending \in SUBSET Events
    /\ timer \in Timers \cup {None}
    /\ threads \in [Timers -> {"free", "armed", "fired"}]
    /\ closed \in BOOLEAN /\ stuck \in BOOLEAN
    /\ phase \in {"down", "up", "closed", "rebuilding"}
    /\ loop \in {"free", "clearing"}
    /\ lines \in UNION {[D -> SUBSET Events] : D \in SUBSET Days}
    /\ disk \in SUBSET Events
    /\ fh \in Days \cup {None} /\ curDay \in Days \cup {None}
    /\ fh # None => fh = curDay
    /\ buf \in SUBSET Events /\ last \in 0 .. MaxEvents /\ errors \in Nat
    /\ pass \in [pc : {"idle", "rows", "vacuum", "files"}, hours : BOOLEAN,
                 cutoff : Days, upto : 0 .. MaxEvents, deleted : BOOLEAN]
    /\ lost \in SUBSET Events /\ excused \in SUBSET Events
    /\ wiped \in 0 .. MaxEvents

(* A day file holds that day's events only, also after a rollover that     *)
(* failed, so that retention by whole files deletes what it means to.      *)
LinesInTheirDay == \A d \in DOMAIN lines : \A e \in lines[d] : e.day = d

(* An event that reached no file was counted in write_errors: no handle    *)
(* writes into a file that retention or a reset has unlinked.              *)
LossIsCounted == Cardinality(lost) <= errors

(* Rows are never left uncommitted with no timer to commit them, unless    *)
(* the last commit failed.                                                 *)
PendingIsWatched ==
    pending # {} => \/ stuck
                    \/ \E t \in Timers : threads[t] # "free"

(* The index has a row for every line, unless its INSERT failed, its       *)
(* process or the machine died first, a retention pass was past its day, a *)
(* reset past a file that would not go, or the last rebuild has not come to*)
(* its end: one that is killed leaves every line without a row, and        *)
(* nothing but another rebuild brings them back.                           *)
RowsFollowLines == AllLines \subseteq rows \cup pending \cup excused

(* What a completed reset erased is gone from the live buffer, the files   *)
(* and the index, whatever timer or janitor was in the middle of its work. *)
WipedStaysWiped == \A e \in buf \cup AllLines \cup rows \cup pending : e.id > wiped

(* The files of the store are a durable log.                               *)
Abstract == INSTANCE DurableLog WITH log <- AllLines, safe <- disk
DurableLogSpec == Abstract!Spec

(* A row does not wait for ever to be committed.                           *)
PendingGetsCommitted == (pending # {}) ~> (pending = {} \/ stuck)

(* What an fsync that succeeded does cover: every line of the day being    *)
(* written, whenever the file was closed and opened again.  Only lines of  *)
(* a day that was left before an fsync are at risk for longer.             *)
FsyncCoversItsDay ==
    [][Fsync /\ errors' = errors => \A e \in AllLines \ disk' : e.day # curDay]_vars

(* What fsync_to_disk says of itself: losing power costs a bounded window  *)
(* of recent events, so whatever was written before an fsync that          *)
(* succeeded survives.                                                     *)
FsyncBoundsLoss ==
    [][Fsync /\ errors' = errors => AllLines \subseteq disk']_vars
=============================================================================
