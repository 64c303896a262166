# TLA+ models of the DMR monitor

The repository is a Python service that decodes DMR radio traffic with an
external program (`dsd-fme`), aggregates what it hears into a live dashboard,
keeps an event history on disk and lets an operator retune the receiver from the
browser. This directory holds specifications of the parts of it that keep state,
the TLC runs that check them on small instances, and TLAPS proofs of their
invariants for every value of the constants. `PROJECT.json` maps every
definition to the lines it models and lists the runs, the hazards and the
theorems.

    tlc -config MCStateManager.cfg MCStateManager     # likewise the other runs
    tlapm StateManagerProofs.tla                      # likewise the other proofs

## The system

```
 dsd-fme child --lines--> LineRunner --events--> StateManager --snapshot--> server, snapshot.json
   ^  (wrapper.py)         parser.py      |         (state.py)                    |
   |                                      +--> EventLog --> day files (JSONL)     | WebSocket
 supervisor (cli.py) <-- RfController     |        \------> EventIndex (SQLite)   v
                          (rf/control.py) +--> Alerts Evaluator --> queues --> browser
```

One asyncio event loop runs the tasks; worker threads (`asyncio.to_thread`) run
fsync, retention, snapshot computation and heavy queries; `threading.Timer`
threads commit the index; the child is a process of its own.

| Component | State | Operations | Hard because | Correct when |
|---|---|---|---|---|
| `StateManager` (state.py) | radios, active calls, channel context, last event time | apply(event), tick, reset, load/save snapshot, on_call_start/end | several clocks: one per channel, the wall clock, a restored snapshot; a cap with eviction | the cap holds; callbacks match calls; no frame joins a stale call; channels do not mix |
| Live session (cli.py, wrapper.py, rf/control.py) | config and its file, retune/toggle/stop events, the child | set_tuning, set_live_enabled, supervisor loop, respawn loop, reader, SIGTERM/SIGKILL, watchdog | requests arrive at every await; the child is another process | one child; no request lost; retune, pause, resume and shutdown take effect |
| `EventLog` (event_log.py) | day files, open handle, ring buffer, error counter | append, fsync, clear, retention, prime, close | worker threads, disk errors, power loss | a durable log of whole days; losses counted; a reset is final |
| `EventIndex` (event_index.py) | rows, open transaction, timer, closed | append, timed commit, flush, delete, clear, vacuum, rebuild, close | timers that fired but wait for the lock | rows follow lines; no row waits for ever |
| Snapshot and rules files (state.py, alerts.py, server.py) | main file, `.bak`, tmp | atomic write, load with fallback, reset | a crash between two renames | a reader finds the newest or the previous content |
| Migration (export.py) | legacy file, buckets, marker, day files | migrate, resume | a crash at each step, then appends | no line lost or repeated |
| `Evaluator` (alerts.py) | rules, cooldowns, latches, subscribers | on_event, tick, CRUD, save/load | two threads, several short critical sections | one alert per outage and cooldown |
| Web server (server.py) | WebSocket queues, cached payload, query slots | broadcast, subscribe, heavy queries, reset | slow clients, payloads computed on a thread | clients see the newest state; slots are returned |
| Multi-frequency run (rf/) | runners, activity times, pump, audio servers | lines, activity, block, stop, teardown | clocks of several parsers, midnight, one runner failing beside others | a channel with recent traffic is fed; a failure or a signal takes the run down |
| Parser (parser.py) | clock, LRRP binding | parse_line | text | no event is dated in the future |
| DSP, dossier, network graph, health, command builder, pages, scripts | none that outlives a call | — | — | — |

## Modules

`StateManager`, `LiveSession`, `EventStore`, `Migration`, `SnapshotFile`, `Alerts` and
`WebServer` are one component each. Three compose: `EventStore` EXTENDS `EventIndex` (the
log calls the index, so each of its actions conjoins an index step), `Multichannel` EXTENDS
`Scheduler` and that `Parser`, and `RulesFile` EXTENDS `SnapshotFile`. `SnapshotParams` and
`MigrationParams` hold the constants of two components, so that a module that
instantiates them can declare the same constants. `DurableLog`, `AtomicImport` and `SavedState`
are abstract specifications, of what an event log, a migration and a saved state
promise; `EventStore`, `Migration` and `SnapshotFile` are shown to implement them. `MC*` modules and `.cfg` files instantiate them for TLC;
`*Proofs` modules hold the theorems.

`MCService` puts three components that share no state into one run: a constant variable
`part` says which of them a behaviour is of, the other two stay in one initial state, and
TLC explores the union of the three state spaces. The fairness of the specification is
the session's, which only its own behaviours satisfy; the other two have no liveness
properties, and TLC checks their invariants and action properties on every step.

### StateManager

Every method runs on the event loop without an await, hence one action each:
`VoiceCall`, `RadioEvent`, `PairEvent`, `Encryption` and `OtherEvent` are the
handlers of `apply`, each with the prologue of `apply` (`Arrive`: channel
context and time; `Unexpired`/`Expired`: expiry before the handler); `Tick`,
`Reset` and `Restart` are `tick`, `reset` and `load_snapshot`. `Touch`, `Insert`
and `Evict` are `_touch_radio` and `_evict_radios`, with the stable sort of the
eviction (ties keep the order of the dict, variable field `pos`). Timestamps grow
per channel (`clock`), as each channel has a parser of its own; the wall clock is
free. `open` and `heard` are observers.

`open` is what a listener believes that goes by `on_call_start` and `on_call_end` alone.
`reset()` drops the calls in progress and calls nobody, so it leaves `open` as it is:
`CallbacksBalanced` says that every call is announced and that each way out of the table
but a reset is announced too. No document promises ends at a reset, and the service
registers no listener (cli.py:716).

Payload fields no property reads (positions, IPs, site, LSN states, quality
counters) are left out.

Run `state_manager`: three radios and a cap of two, two channels on one slot,
times 0..2 with a timeout of 1, so that a call can be fresh, at the limit and
stale, a snapshot can exceed the cap, and both channels can hold a call. Radios
and channels are symmetric. `Tick` takes any
time, in every mode, as cli.py:309-313 does: a call of a replayed log therefore ends at
the first wall-clock tick, although state.py:12-14 would have replay follow the log's own
timestamps.

### LiveSession

The supervisor, the generator it consumes and the reader under it are one thread
of control; `pc` names the await it stands at, and the code between two awaits is
one action. `SetTuning`, `SetLiveEnabled` and `Stop` are the requests;
`Supervise` and `WatchPause` the supervisor and its watcher task; `Spawn`,
`SpawnFails`, `Eof`, `LivenessTimeout`, `ReapTerminates`, `ReapFinds`, `Kill` and
`Respawn` the reader and respawn loop; `Terminate` the task that signals the
child; `ChildExits` and `ChildObeys` the child; `Restart` a new process that reads
the config file.

Fairness: the event loop runs each ready task, spawning ends one way or the other,
and a child that got SIGTERM and obeys exits. Nothing is assumed of a child that
was not signalled, of the operator, of disk writes or of the watchdog. Run
`service_parts` has two tunings and two child identities, one more than may be
alive. Run `stubborn_child` lets the child ignore SIGTERM: wrapper.py reads on and
its SIGKILL is never reached, against its docstring; a finding.

### EventStore, EventIndex, DurableLog

`append`, `clear` and `close` run on the event loop (`loop` says when it is between
the two halves of `clear`), `fsync` and retention on worker threads, timers and
readers on others. The log lock and the index lock are held from a method's first
line to its last, so a step is a method, or the part of it under one lock:
`ClearLog` and `ClearIndex`; a retention pass by days is
`PruneFiles`, `PruneRows` (a chunk at a time) and `Vacuum`; one by hours begins with its
first chunk (`PruneHours`), goes on with `PruneRows` and `Vacuum`, and comes to the files
last (`PruneFilesLast`). Either kind may be the one configured; one pass runs at a time. `Append` has its failures as inputs: the day file may not open, the line
may not be written, the row may not be inserted. A timer thread is free, armed or
fired (waiting for the lock); `cancel()` stops it only while armed.

`disk` is the part of the files that survives a loss of power: what was fsynced,
plus any subset of the rest, chosen by `PowerLoss`; index rows may likewise be
lost (WAL with `synchronous=NORMAL`). A process that is killed loses nothing the
kernel was given. What was deleted is assumed to stay deleted.

`rebuild-index` is a process of its own and two steps: `RebuildDrop` drops the table,
which SQLite commits at once with the mark that the index is current, and `RebuildCommit`
commits the rows of all files at its end. Killed in between it leaves an empty index
under existing lines, on which the service starts: those lines are `excused`, and only
another rebuild brings their rows back.

`DurableLog` says it without files or threads: an event is added once and in
order, whole days are dropped, losing power takes only what was not safe. The
refinement is `log <- AllLines, safe <- disk`.

Observers: `lost` (events of this process that reached no file), `excused` (lines
whose row may be missing, and why, at each assignment), `wiped` (the newest event
a completed reset erased).

Fairness: timer threads run; nothing else. Run `event_store` has two days, two
events, a batch of two and chunks of one, two timers, a ring of one and one counted
fsync failure: a rollover and a return to the older day, a timer that fires while
a full batch is committed, a pass of several chunks and a reset, a kill or a loss
of power in the middle of each, all occur, and so does a pass by hours that deletes rows
whose lines stay in the cutoff's own day file. Run `event_store_fsync` refutes the
claim of `fsync_to_disk` that a loss of power costs at most the last five seconds:
a rollover closes the old day's file without fsync and no later fsync reaches it;
a finding.

Left out: the single-file mode and its rewrite (no command of the service selects it), a
service without an index, schema migration, and the queries, which only read.

### Migration, AtomicImport

One action per change of the file system: `Start` (resume, nothing to do, refuse or
begin), `Wipe`, `Bucket`, `Mark`, `Rename`, `SetAside`, `Cleanup`, with a `Crash`
between any two. `Append` and `DropDays` are the service that runs between two starts
(`DropDays` covers retention and reset, and allows any set of days). `Stray` is the
environment: an old release, or an operator, makes an old file again; the refusal is
there for that case.

`AtomicImport` says that a reader sees none of the old file's lines or each of them
once. The instant of the import is the marker: the history is the day files and,
once marked, the buckets still to be renamed. A file is the number of copies of each
line, so that a line written twice shows.

The model also shows two things no document speaks of, and no property forbids: an
old file put back while a marker could not be removed is set aside without being
imported, and a second migration renames over the `.migrated` file of the first.

Run `service_parts` has three lines, two of them on one day. Left out: loss of power (the
buckets are fsynced before the marker is written, the directories are not), and the
order of lines within a day, which is that of the old file.

### SnapshotFile, SavedState

`Write`, `Backup` and `Swap` are the steps of `atomic_write_text`, `SwapFails` its error
path; `Start` is `load_snapshot`; `Reset` and `Unlink` the reset of server.py. Saves and
resets run on the event loop without an await, so only a `Crash` or a file that rots
(`Rot`) comes between their steps. What memory holds is a version number, new with
every event.

`SavedState` is a cell that a save changes at one instant, with a spare for a file that
rots. Its `Lose` says what the code allows after a rotten file: the next save makes the
corrupt file the backup, and a death before the second rename leaves nothing.

Run `service_parts` has four events and two rotten files, so that backup and main file
differ, rot apart, and are saved over. Run `snapshot_reset` refutes the docstring of
the reset: the backup is called `snapshot.json.bak`, the reset unlinks `snapshot.bak`,
and a start before the next save brings the erased radios back; a finding.

### RulesFile

EXTENDS `SnapshotFile`: the alert rules are saved by the same `atomic_write_text`, so its
`Backup`, `Swap`, `SwapFails`, `Crash` and `Rot` are used as they are, and a version is a
set of rules. `ChangeRules` is a change with the start of its save; `StartRules` is
`Evaluator.__init__`, which looks for the main file only, and `load_rules`. Run
`rules_file` refutes the docstring of `load_rules`: a death between the two renames
leaves the backup alone, and the next start goes on without rules; a finding.

### Alerts

`on_event` and the changes of the rules run on the event loop: `Voice`, `Encrypted`,
`Heartbeat`, `AddRule`, `RemoveRule`, `SetEnabled`. The tick runs on a worker thread, one
at a time, and takes the lock several times for one rule; its steps are its critical
sections: `TickStart` (copy the list), `Look` (flag, kind, latch or cooldown), `Latch`,
`Query`, `Record`, `TickEnd`. `on_event` is one step: after its first section it only
touches what belongs to its own kinds of rules, which the tick does not.

Run `alerts` has two rules of any kind with different watch lists and cooldowns, two
callers, times 0..2 with a lag of 1: a rule can fire, be silenced by its cooldown, fire
again, and be switched off or deleted at each step of a tick. Fairness: the worker
thread runs and the loop starts it again (cli.py does so every second).

Observers: `short` (rules whose last alert came within a cooldown of the one before;
alerts of one time count), `outage` and `late` (alerts since the last heartbeat, and since
the rule was switched off), `stale` (the rule a tick was about to latch when a heartbeat
ended the outage it had seen).

Two runs refute comments of the code; both are findings. `alerts_cooldown`: `cc_silent`
never asks its cooldown, so two outages within it give two alerts, against the comment at
alerts.py:46. `NoFlood` claims the cooldown for the other kinds, and of `cc_silent` that
it decides to fire once between two heartbeats (the alert itself may be recorded after
the next one). `alerts_outage`: a heartbeat between the tick's look and its latch leaves
the rule latched for an outage that is over; if it was the last heartbeat before the next
outage, that one is not reported, against alerts.py:264. `SilenceIsNoticed` says that
nothing else keeps an outage from being reported: its exception is `stale`.

Left out: the fan-out to subscribers. The rules file is in `RulesFile`.

### Parser, Scheduler, Multichannel

`Parser` is the clock of `DSDLogParser`, one per channel: only sync lines bear a time, it
has no date, and the parser dates it by the last one. `Scheduler` EXTENDS it with
`TrafficScheduler`, which learns from every event of every channel. `Multichannel`
EXTENDS that with the run around them: the runners (`SyncLine`, `Traffic`, `Grant`,
`BadSync`, `SourceEnds`, `RunnerEnds`), the stop event and its watcher (`Stop`, `Watch`),
the capture pump and the decoders that connect to its audio servers (`Block`, `PumpEnds`,
`Client`), and `_run_multichannel_live` and `_run` (`Gather`, `Teardown`, `Leave`). A
line is read at most a second after it was printed, so lines of one day are read on
the next; `printed` and `misdated` observe that.

Fairness: the event loop runs its tasks, and a line source ends some time after the stop
event, which is what `LiveSession` shows of a child that obeys SIGTERM (run
`stubborn_child` says what happens of one that does not). Nothing is assumed of lines, decoders,
the capture or the operator. Run `multichannel` has a control and a traffic channel, days
of two seconds and a hang time of one, from any second of the first day into the next:
the midnight before and after a line, silence shorter and longer than the hang time and
two lines in one second all occur, each with a decoder connected or not. A longer day or
more of them is the theorems' part.

Two things the model shows that `RecentTrafficIsFed` and `ClockNeverAhead` state as
exceptions. A parser whose first line was printed before midnight and read after it is
a day ahead, and as the scheduler measures from the latest activity it starves all other
channels. A parser that sees no sync line for a day stays a day behind; its channel then
counts as idle, which is why the property speaks of activity as the scheduler knows it.

The clock that prints the lines never steps back: after the end of daylight saving time,
or a correction by NTP across a second, parser.py:209 would count a day too many, as it
would for a misdated first line.

Left out: the budget and the energy detector of the scheduler, which no command
uses, and the radio a parser keeps for the position in a later line.

### WebServer

The state is a version, a payload the version it shows. `TickStart` and `Reset` ask for a
snapshot, as does a client that connects before there is one; `Begin`, `Finish` and `Fail`
are the worker thread, which may see any version since it began (the event loop changes the
radio table under it) or fail; `Push` is `push_snapshot`, eviction included. `Connect`,
`FirstFrame`, `Take`, `Sent`, `Lost` and `Quiet` are the handler of `/ws`, from await to
await. `Ask`, `QueryStart` and `QueryEnd` are the guard of heavy queries, which share the
threads.

Fairness: the event loop runs ready coroutines and timers; the threads take jobs in the
order they were queued, hence strong fairness of `Begin`; a snapshot ends. Sends end for
the clients in `Prompt` only, queries need never end: it is the semaphore, smaller than
the pool, that keeps a thread for snapshots. The other users of the
pool (recordings, fsync, retention, the alert tick) each end and are not counted. Run `web_server` has a client with a queue
of one, the broadcast loop and a reset, so that a snapshot of each is under way when
the other erases or pushes, the queue fills, and the client is evicted while it sends.

Left out: `/ws/alerts` and the endpoints that only read; `/api/snapshot` serves `cached`.

## Runs

| Run | Shows |
|---|---|
| `state_manager` | cap, eviction of the longest silent, callbacks but for a reset, expiry before handling, separation of channels |
| `service_parts` | live session: one child, no lost request, every request and shutdown takes effect, nothing is begun once a shutdown has reached the session; snapshot file: a start finds the last completed save, a save takes effect at one instant; migration: the import is all or nothing, once, clobbers nothing, is never refused for its own leftovers |
| `stubborn_child` (violated) | a child that ignores SIGTERM blocks the shutdown |
| `event_store` | the store is a durable log, index follows files but for a rebuild that was killed, an fsync covers its whole day, resets are final, rows get committed |
| `event_store_fsync` (violated) | the fsync loop does not cover the last lines of a day |
| `snapshot_reset` (violated) | a reset leaves the backup, which the next start may load |
| `rules_file` (violated) | a death between the renames of the rules file starts the service without rules |
| `alerts` | the rules that ask a cooldown keep it, `cc_silent` decides once between two heartbeats and reports every silence but one that follows a heartbeat in the middle of its tick, a rule switched off fires at most once more |
| `alerts_cooldown` (violated) | `cc_silent` fires twice within its cooldown |
| `alerts_outage` (violated) | a heartbeat in the middle of a tick costs the report of the next outage |
| `multichannel` | no parser is ahead of the wall clock or loses count of days between lines less than a day apart, channels with recent traffic are fed, a signal or a failure takes the run down |
| `web_server` | erased data are pushed at most once more, a subscriber never misses the last payload, a client that reads ends up with current data or knows it is disconnected |

Every property of a passing run has a mutant in `PROJECT.json`: a slip of the code,
defined next to the operator it replaces ("a seeded slip"), that makes TLC find the
property violated. Type invariants are theorems, of every component; the runs `alerts`
and `service_parts` (for the migration) check theirs as well.

## Proofs

The theorems hold for every value of the constants that satisfies the ASSUMEs of
the modules, which TLC evaluates in the runs.

- `StateManagerProofs`: the inductive invariant is `TypeCap`, i.e. the types, a
  table whose positions are a permutation (`Ranked`) and the cap. The cap needs
  that the oldest n radios exist as a set (`OldestExists`, by a least
  counterexample over the number of radios, since `Oldest` is a CHOOSE) and that
  the batch evicted is at least the excess (`BatchBounds`). `CallbacksAnnounced` follows from it and from
  the fact that every active call is in `open`; the radio
  just heard, and the action properties follow from it as well (`CallStep` says what
  one step may do to one call). `OldestEvicted` composes what one eviction drops
  (`EvictDropsOldest`) over the touches an event makes (`TouchDropsOldest`, `TwoTouches`):
  times in the table only grow, so what the second touch compares against is no older
  than what the first one spared.
- `LiveSessionProofs`: `OneChild` and `UnsavedIsReported` are inductive, `NoLostRetune`
  and `NoLostToggle` over the types. `ShutdownDescends` gives the supervisor's awaits a distance
  from its return (`WayHome`) and shows that no step increases it: the part of
  `ShutdownCompletes` that needs no fairness.
- `EventStoreProofs`: `StoreOK`. The index part (`IndexOK`) adds that `_timer`
  names a live thread and that a closed index is idle; without them a fired timer
  could leave rows unwatched. The files part (`FilesOK`) adds that the open
  handle's file exists, that event numbers grow, and that `disk` is part of the
  files. Three small facts tie them: a running service has an open index, a reset
  in progress has emptied the buffer, a process that is down resets nothing. Each
  fragment has a lemma; `StepOK` proves at once that every step keeps `StoreOK`
  and is a step of `DurableLog` or a stutter, hence `ImplementsDurableLog`.
  `FsyncCoversItsDayInvariant` is what remains true of the refuted `FsyncBoundsLoss`: every line of
  the current day is in the file the handle writes to, so only days left before are at risk.
- `MigrationProofs`: `MigrationOK`. No day file exists before the marker does (unless
  an old file was put back); the buckets hold what was read, once each; no bucket left
  under a marker has a day file of its name. Hence `Rename` moves lines without
  changing the history, `Mark` is the import, and `ImplementsAtomicImport`.
- `SnapshotFileProofs`: `SnapshotOK`. While nothing rotted and no reset is pending, what
  a start would load is the last completed save (`NothingSavedIsLost`, inductive with
  the types and the fact that a reset empties memory before it unlinks), hence
  `ImplementsSavedState`. Three theorems bound the violated runs. `ResetFinalOnceSaved`:
  `ResetIsFinal` fails only if a start comes before the first save after the reset (or a
  file rots); its hypothesis says that no start comes there. `RulesInForceOrInBackup`: a start that does not put the
  saved rules into force found no `rules.json` and leaves them whole in the backup.
  `RulesImplementSavedState`: but for such starts the rules file is the same cell as the
  snapshot. `RulesStep` reuses the lemmas of the save, as `RulesFile` reuses its actions.
- `AlertsProofs`: `AlertsOK`. Between two critical sections a tick stands at a rule of
  the right kind whose cooldown, once over, stays over (only the tick writes it, a
  deletion resets it), so that no rule that asks is ever `short` (`ShortOK`, hence
  `FloodControl`); only a latched rule has fired in this silence; a rule that fired
  after it was switched off is neither the current one nor one to be reached.
  `TickNoticesSilence` bounds the refuted `OutageIsReported`: a tick misses a silence
  only if, while it is at work, a heartbeat arrives or the rule comes into force (the
  hypothesis `LeftAlone` of a rule excludes just that, and lets everything else interleave).
- `MultichannelProofs`: `IInv` adds to the types that each parser's clock has the second of
  its last line and its day or an earlier one (`ClockOK`), and that the scheduler knows no
  activity of the future (`LastOK`). `SecondsMonotone` then turns "within the hang time of
  now" into "within the hang time of the scheduler's reference", for any length of a day.
  `MidnightsCounted` is the arithmetic of the rollover: of two instants less than a day apart
  the later has the smaller second exactly if one midnight lies between. Hence `DaysInStep`: a parser's
  error in days never changes between such lines, also when it was misdated at first.
- `WebServerProofs`: besides the types, a producer that has pushed erased data since the
  last reset has no snapshot under way that began before it; so the next it pushes is
  current (`ErasedPushedOnceMore`, for any number of resets and clients). `SubsOK`
  adds to `LatestOnItsWay` what a handler holds at each await (`PipeOK`: nothing while there is
  none, a frame only while it sends) and gives `LatestInvariant`; `QueueEnds` is its lemma on sequences.

Some theorems state what no run has as a property: the type invariants named above, the
four bounds of refuted claims (`ResetFinalOnceSaved`, `RulesInForceOrInBackup`,
`RulesImplementSavedState`, `TickNoticesSilence`) and `RulesSurvive`. Those of `MigrationProofs` and
`SnapshotFileProofs` about `RefusesOnlyStrays`, `NothingClobbered`, `AtomicImportSpec`,
`NothingSavedIsLost` and `SavedStateSpec` are about the properties that `MCService` takes
over under the same names.

Only model-checked: the liveness properties (`RetuneTakesEffect`,
`PauseTakesEffect`, `ResumeTakesEffect`, `ShutdownCompletes`,
`PendingGetsCommitted`, `SilenceIsNoticed`, `StopsAll`, `PromptClientsConverge`), which are
beyond TLAPS here. Their safety parts are proved: no wake-up is lost (`NoLostRetune`,
`NoLostToggle`, `PendingIsWatched`, `LatestOnItsWay`), a tick that is left alone notices, and a shutdown only
descends; what remains to fairness is that enabled steps are taken. The violated
properties are false, and the theorems above say how far.

## Not modelled

- `Recordings` (a cached listing of a directory): a page shows it and nothing else depends
  on it. A listing that races with WAV retention may show deleted files until its memo
  expires, two seconds later.
- The fan-out of alert firings to `/ws/alerts`. Unlike the handler of `/ws`, that
  of alerts does not look whether it was evicted, and pings on without alerts.
- The single-file mode of the log and its retention rewrite: only tests select it.
- The binding of an LRRP position to the radio of an earlier line: the log numbers
  nothing, so nothing can be said of lost lines.
- DSP arithmetic (channelizer, energy), report generation (dossier, network graph, health),
  channel plan validation, the command line builder, the browser pages and the
  installation scripts: they keep no state a step of another actor can meet.
