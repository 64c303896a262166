----------------------------- MODULE EventIndex ------------------------------
(***************************************************************************)
(* The SQLite sidecar (backend/event_index.py): rows are inserted into an  *)
(* open transaction and committed in batches, by a full batch, by age, by  *)
(* a reader's flush, or by a timer thread.  EventStore composes these steps*)
(* with the log's.                                                         *)
(*                                                                         *)
(* Every method holds the index lock from its first line to its last, so   *)
(* each is one step.  A timer is a thread that is armed, then fired and    *)
(* waiting for the lock; cancel() stops it only before it fires, so a fired*)
(* timer may find that the batch it was armed for is gone and that another *)
(* timer took its place.                                                   *)
(*                                                                         *)
(* Abstracted: a row is its event; the age of the last commit is a choice; *)
(* a commit that fails leaves its transaction open.                        *)
(***************************************************************************)
EXTENDS Naturals, FiniteSets

CONSTANTS
    Timers,      \* timer threads that may exist at a time (bound)
    BatchSize,   \* _BATCH_SIZE
    Chunk,       \* chunk_size of a retention pass
    None         \* no value

ASSUME EventIndexAssumption ==
    /\ IsFiniteSet(Timers) /\ None \notin Timers
    /\ BatchSize \in Nat \ {0} /\ Chunk \in Nat \ {0}

VARIABLES
    rows,      \* committed rows
    pending,   \* rows inserted and not committed
    timer,     \* _timer: the thread last armed, or None
    threads,   \* per timer thread: free, armed or fired
    closed,    \* _closed
    stuck      \* observer: the last commit failed
index == <<rows, pending, timer, threads, closed, stuck>>

Idle == [t \in Timers |-> "free"]
Cancelled == IF timer # None /\ threads[timer] = "armed"
             THEN [threads EXCEPT ![timer] = "free"] ELSE threads

(* conn.commit() of a transaction that holds batch. *)
Committed(batch, ok) ==
    /\ rows' = IF ok THEN rows \cup batch ELSE rows
    /\ pending' = IF ok THEN {} ELSE batch
    /\ stuck' = (~ok /\ batch # {})

(* A seeded slip: only the firing timer commits, the handle stays set. *)
CommitLockedKeepsTimer(batch, ok) ==
    /\ threads' = Cancelled
    /\ timer' = timer
    /\ Committed(batch, ok)
    /\ UNCHANGED closed

CommitLocked(batch, ok) ==
    /\ threads' = Cancelled
    /\ timer' = None
    /\ Committed(batch, ok)
    /\ UNCHANGED closed

Arm == \E t \in Timers : /\ threads[t] = "free"
                         /\ threads' = [threads EXCEPT ![t] = "armed"]
                         /\ timer' = t

(* append(): inserted is false if INSERT raises, due if the last commit is *)
(* old enough.                                                             *)
Insert(e, inserted, due) ==
    LET batch == pending \cup {e}
    IN  IF closed \/ ~inserted THEN UNCHANGED index
        ELSE IF due \/ Cardinality(batch) >= BatchSize
        THEN \E ok \in BOOLEAN : CommitLocked(batch, ok)
        ELSE /\ pending' = batch
             /\ IF timer = None THEN Arm ELSE UNCHANGED <<timer, threads>>
             /\ UNCHANGED <<rows, closed, stuck>>

(* The two seconds of a timer are over. *)
Fire(t) ==
    /\ threads[t] = "armed"
    /\ threads' = [threads EXCEPT ![t] = "fired"]
    /\ UNCHANGED <<rows, pending, timer, closed, stuck>>

(* A seeded slip: the timer, too, leaves a batch that is not full. *)
TimedCommitFull(t) ==
    /\ threads[t] = "fired"
    /\ threads' = [threads EXCEPT ![t] = "free"]
    /\ timer' = None
    /\ IF Cardinality(pending) < BatchSize THEN UNCHANGED <<rows, pending, stuck>>
       ELSE Committed(pending, TRUE)
    /\ UNCHANGED closed

(* _timed_commit(): whichever timer _timer names by now, it is forgotten. *)
TimedCommit(t) ==
    /\ threads[t] = "fired"
    /\ threads' = [threads EXCEPT ![t] = "free"]
    /\ IF closed THEN UNCHANGED <<rows, pending, timer, stuck>>
       ELSE timer' = None /\ \E ok \in BOOLEAN : Committed(pending, ok)
    /\ UNCHANGED closed

Flush == ~closed /\ \E ok \in BOOLEAN : CommitLocked(pending, ok)

(* Rows of the days before the cutoff, or, with the first ones of its own  *)
(* day, older than an instant of it.                                       *)
Older(S, cutoff) == {e \in S : e.day < cutoff}
OlderToo(S, cutoff, upto) == {e \in S : e.day < cutoff \/ (e.day = cutoff /\ e.id <= upto)}

(* One chunk of them. *)
DeleteChunkOf(old, gone) ==
    /\ gone \in SUBSET old
    /\ gone = old \/ Cardinality(gone) = Chunk
    /\ Cardinality(gone) <= Chunk
    /\ threads' = Cancelled
    /\ timer' = None
    /\ rows' = (rows \cup pending) \ gone
    /\ pending' = {}
    /\ stuck' = FALSE
    /\ UNCHANGED closed
(* A seeded slip: the day of the cutoff included. *)
DeleteChunkThrough(cutoff, gone) ==
    DeleteChunkOf(Older(rows \cup pending, cutoff + 1), gone)
DeleteChunk(cutoff, gone) ==
    DeleteChunkOf(Older(rows \cup pending, cutoff), gone)
DeleteOlderChunk(cutoff, upto, gone) ==
    DeleteChunkOf(OlderToo(rows \cup pending, cutoff, upto), gone)

(* A seeded slip: the open transaction survives. *)
DeleteCommitted == /\ rows' = {} /\ stuck' = FALSE
                   /\ UNCHANGED <<pending, timer, threads, closed>>

DeleteAll == /\ threads' = Cancelled
             /\ timer' = None
             /\ rows' = {} /\ pending' = {}
             /\ stuck' = FALSE
             /\ UNCHANGED closed

(* close(): what the last commit does not take is rolled back. *)
CloseIndex(ok) ==
    IF closed THEN UNCHANGED index
    ELSE /\ closed' = TRUE
         /\ threads' = Cancelled
         /\ timer' = None
         /\ rows' = IF ok THEN rows \cup pending ELSE rows
         /\ pending' = {}
         /\ stuck' = FALSE

(* The process is gone, and with it its threads and its transaction. *)
IndexGone == /\ pending' = {} /\ timer' = None /\ threads' = Idle
             /\ closed' = TRUE /\ stuck' = FALSE
=============================================================================
