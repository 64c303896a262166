----------------------------- MODULE LiveSession -----------------------------
(***************************************************************************)
(* The live single-channel path: the supervisor that starts, pauses and    *)
(* retunes the dsd-fme child (backend/cli.py), the respawn loop and the    *)
(* child reader it runs (backend/wrapper.py), and the controller the HTTP  *)
(* handlers call (backend/rf/control.py).                                  *)
(*                                                                         *)
(* All of it is tasks of one event loop, so the code between two awaits is *)
(* atomic and one action; the child is a process of its own.  The supervisor*)
(* and the generators it consumes form one thread of control, whose await  *)
(* is pc:                                                                  *)
(*   "check"    top of the supervisor's loop                               *)
(*   "paused"   waiting for live_toggle_event or stop_event                *)
(*   "spawn"    in create_subprocess_exec                                  *)
(*   "reading"  in readline()                                              *)
(*   "reap"     in the finally block, before the child is looked at        *)
(*   "wait"     in the two seconds granted after SIGTERM                   *)
(*   "backoff"  asleep before the next attempt                             *)
(*   "done"     the supervisor returned                                    *)
(* A watcher task waits on an asyncio.Event that nobody clears while it    *)
(* waits, so it is an action enabled by the event.                         *)
(*                                                                         *)
(* Abstracted: a tuning is one value (frequency, gain, ppm...); a request  *)
(* set_tuning refuses changes nothing and is left out; the two lengths of  *)
(* backoff differ in time only; the lines read do not matter here.         *)
(***************************************************************************)
EXTENDS Naturals, FiniteSets

CONSTANTS
    Tunings,    \* the tunings an operator may ask for
    Seed,       \* the tuning the command line gives when no config is on disk
    Children,   \* identities of child processes, reused after they are gone
    Watchdog,   \* is --liveness-timeout positive?
    Stubborn    \* may a child ignore SIGTERM?

ASSUME LiveSessionAssumption ==
    /\ Seed \in Tunings
    /\ Children # {}
    /\ Watchdog \in BOOLEAN /\ Stubborn \in BOOLEAN

Configs == [tuning : Tunings, enabled : BOOLEAN]

VARIABLES
    config,       \* RfController.config
    disk,         \* the config file (sdr_config)
    lastError,    \* RfController.last_error is not None
    retune,       \* retune_event
    toggle,       \* live_toggle_event
    stop,         \* stop_event of the process
    sessionStop,  \* session_stop of the running session
    pc,           \* where the supervisor waits
    cmd,          \* the tuning of the command line cmd_factory built last
    proc,         \* the child stream_subprocess holds
    alive,        \* the children that run
    tunedTo,      \* the tuning each child was started with
    termed,       \* children that received SIGTERM
    timedOut      \* the reader left because of the watchdog
controller == <<config, disk, lastError>>
events == <<retune, toggle, stop, sessionStop>>
children == <<alive, tunedTo, termed>>
vars == <<controller, events, pc, cmd, proc, children, timedOut>>

InSession == pc \in {"spawn", "reading", "reap", "wait", "backoff"}

-----------------------------------------------------------------------------
(* The controller, called by HTTP handlers.                                *)

(* A seeded slip: the failure swallowed without a trace. *)
PersistSilently(new) == (disk' = new \/ UNCHANGED disk) /\ UNCHANGED lastError

(* _persist: the file follows, or last_error is set and stays set. *)
Persist(new) == \/ disk' = new /\ UNCHANGED lastError
                \/ lastError' = TRUE /\ UNCHANGED disk

SetTuning(t) ==
    /\ pc # "done"
    /\ config' = [config EXCEPT !.tuning = t]
    /\ Persist(config')
    /\ retune' = TRUE
    /\ UNCHANGED <<toggle, stop, sessionStop, pc, cmd, proc, children, timedOut>>

(* A seeded slip: only a resume fires the event. *)
SetLiveEnabledQuietly(b) ==
    /\ pc # "done"
    /\ config.enabled # b
    /\ config' = [config EXCEPT !.enabled = b]
    /\ Persist(config')
    /\ toggle' = (toggle \/ b)
    /\ UNCHANGED <<retune, stop, sessionStop, pc, cmd, proc, children, timedOut>>

SetLiveEnabled(b) ==
    /\ pc # "done"
    /\ config.enabled # b
    /\ config' = [config EXCEPT !.enabled = b]
    /\ Persist(config')
    /\ toggle' = TRUE
    /\ UNCHANGED <<retune, stop, sessionStop, pc, cmd, proc, children, timedOut>>

(* SIGINT, SIGTERM or the end of the web server. *)
Stop ==
    /\ pc # "done"
    /\ stop' = TRUE
    /\ UNCHANGED <<controller, retune, toggle, sessionStop, pc, cmd, proc,
                   children, timedOut>>

-----------------------------------------------------------------------------
(* The supervisor.                                                         *)

Return ==
    /\ stop
    /\ pc' = "done"
    /\ UNCHANGED <<controller, events, cmd>>

Pause ==
    /\ ~stop /\ ~config.enabled
    /\ toggle' = FALSE
    /\ pc' = "paused"
    /\ UNCHANGED <<controller, retune, stop, sessionStop, cmd>>

(* A session of its own stop event; the first command is built before the  *)
(* first await, so the tuning it holds is the one retune is cleared for.   *)
StartSession ==
    /\ ~stop /\ config.enabled
    /\ toggle' = FALSE
    /\ retune' = FALSE
    /\ sessionStop' = FALSE
    /\ cmd' = config.tuning
    /\ pc' = "spawn"
    /\ UNCHANGED <<controller, stop>>

(* A seeded slip: the paused loop waits for the shutdown alone. *)
SuperviseDeaf ==
    /\ pc = "check" \/ (pc = "paused" /\ stop)
    /\ Return \/ Pause \/ StartSession
    /\ UNCHANGED <<proc, children, timedOut>>

Supervise ==
    /\ pc = "check" \/ (pc = "paused" /\ (toggle \/ stop))
    /\ Return \/ Pause \/ StartSession
    /\ UNCHANGED <<proc, children, timedOut>>

(* A seeded slip: the session's watcher forgets the shutdown. *)
WatchPauseOnly ==
    /\ InSession /\ ~sessionStop
    /\ toggle
    /\ sessionStop' = TRUE
    /\ UNCHANGED <<controller, retune, toggle, stop, pc, cmd, proc, children,
                   timedOut>>

(* _watch_pause_or_shutdown *)
WatchPause ==
    /\ InSession /\ ~sessionStop
    /\ toggle \/ stop
    /\ sessionStop' = TRUE
    /\ UNCHANGED <<controller, retune, toggle, stop, pc, cmd, proc, children,
                   timedOut>>

-----------------------------------------------------------------------------
(* stream_subprocess and the loop around it.                               *)

Spawn ==
    /\ pc = "spawn"
    /\ \E c \in Children \ alive :
          /\ alive' = alive \cup {c}
          /\ tunedTo' = [tunedTo EXCEPT ![c] = cmd]
          /\ termed' = termed \ {c}
          /\ proc' = c
    /\ pc' = "reading"
    /\ timedOut' = FALSE
    /\ UNCHANGED <<controller, events, cmd>>

(* create_subprocess_exec raises OSError: the interrupt is left set. *)
SpawnFails ==
    /\ pc = "spawn"
    /\ pc' = IF sessionStop THEN "check" ELSE "backoff"
    /\ UNCHANGED <<controller, events, cmd, proc, children, timedOut>>

(* Seeded slips: one of the two events not waited for. *)
TerminateOn(event) ==
    /\ pc = "reading"
    /\ event
    /\ proc \notin termed
    /\ termed' = termed \cup {proc}
    /\ UNCHANGED <<controller, events, pc, cmd, proc, alive, tunedTo, timedOut>>
TerminateOnStop == TerminateOn(sessionStop)
TerminateOnRetune == TerminateOn(retune)

(* _terminate_on_stop runs once for a child. *)
Terminate ==
    /\ pc = "reading"
    /\ sessionStop \/ retune
    /\ proc \notin termed
    /\ termed' = termed \cup {proc}
    /\ UNCHANGED <<controller, events, pc, cmd, proc, alive, tunedTo, timedOut>>

Eof ==
    /\ pc = "reading"
    /\ proc \notin alive
    /\ pc' = "reap"
    /\ UNCHANGED <<controller, events, cmd, proc, children, timedOut>>

LivenessTimeout ==
    /\ Watchdog
    /\ pc = "reading"
    /\ pc' = "reap"
    /\ timedOut' = TRUE
    /\ UNCHANGED <<controller, events, cmd, proc, children>>

(* What follows the generator's end, up to the next await: a watchdog's    *)
(* RuntimeError leaves the interrupt set, any other end consumes it; the   *)
(* session's stop is looked at before the sleep.                           *)
Ended ==
    /\ retune' = (retune /\ timedOut)
    /\ timedOut' = FALSE
    /\ pc' = IF sessionStop THEN "check" ELSE "backoff"
    /\ UNCHANGED <<controller, toggle, stop, sessionStop, cmd, proc>>

ReapTerminates ==
    /\ pc = "reap" /\ proc \in alive
    /\ termed' = termed \cup {proc}
    /\ pc' = "wait"
    /\ UNCHANGED <<controller, events, cmd, proc, alive, tunedTo, timedOut>>

ReapFinds ==
    /\ pc \in {"reap", "wait"} /\ proc \notin alive
    /\ Ended
    /\ UNCHANGED children

(* A seeded slip: the two seconds pass and nobody kills. *)
KillForgotten ==
    /\ pc = "wait" /\ proc \in alive
    /\ Ended
    /\ UNCHANGED children

Kill ==
    /\ pc = "wait" /\ proc \in alive
    /\ alive' = alive \ {proc}
    /\ Ended
    /\ UNCHANGED <<tunedTo, termed>>

(* A seeded slip: the command built once for all.                          *)
RespawnStale ==
    /\ pc = "backoff"
    /\ pc' = IF sessionStop THEN "check" ELSE "spawn"
    /\ UNCHANGED <<controller, events, cmd, proc, children, timedOut>>

(* A seeded slip: the stop looked at before the sleep only. *)
RespawnHeedless ==
    /\ pc = "backoff"
    /\ pc' = "spawn" /\ cmd' = config.tuning
    /\ UNCHANGED <<controller, events, proc, children, timedOut>>

(* The sleep is not cut short; after it the command is built afresh. *)
Respawn ==
    /\ pc = "backoff"
    /\ \/ sessionStop /\ pc' = "check" /\ UNCHANGED cmd
       \/ ~sessionStop /\ pc' = "spawn" /\ cmd' = config.tuning
    /\ UNCHANGED <<controller, events, proc, children, timedOut>>

-----------------------------------------------------------------------------
(* The child, and the service manager.                                     *)

ChildExits(c) ==
    /\ c \in alive
    /\ alive' = alive \ {c}
    /\ UNCHANGED <<controller, events, pc, cmd, proc, tunedTo, termed, timedOut>>

ChildObeys(c) == c \in termed /\ ~Stubborn /\ ChildExits(c)

Boot(saved) ==
    /\ config' = saved /\ disk' = saved /\ lastError' = FALSE
    /\ retune' = FALSE /\ toggle' = FALSE /\ stop' = FALSE /\ sessionStop' = FALSE
    /\ pc' = "check"
    /\ cmd' = saved.tuning
    /\ alive' = {}
    /\ termed' = {}
    /\ timedOut' = FALSE
    /\ UNCHANGED <<proc, tunedTo>>

(* The process dies or ended, its control group with it, and starts again  *)
(* from the config file.                                                   *)
Restart == Boot(disk)

Init ==
    /\ config = [tuning |-> Seed, enabled |-> TRUE]
    /\ disk = config
    /\ lastError = FALSE
    /\ retune = FALSE /\ toggle = FALSE /\ stop = FALSE /\ sessionStop = FALSE
    /\ pc = "check"
    /\ cmd = Seed
    /\ proc \in Children
    /\ alive = {}
    /\ tunedTo = [c \in Children |-> Seed]
    /\ termed = {}
    /\ timedOut = FALSE

Reader == \/ Spawn \/ SpawnFails \/ Eof \/ LivenessTimeout
          \/ ReapTerminates \/ ReapFinds \/ Kill \/ Respawn

Next == \/ \E t \in Tunings : SetTuning(t)
        \/ \E b \in BOOLEAN : SetLiveEnabled(b)
        \/ Stop
        \/ Supervise
        \/ WatchPause
        \/ Terminate
        \/ Reader
        \/ \E c \in Children : ChildExits(c)
        \/ Restart

(* The event loop runs every task that is ready, the operating system      *)
(* delivers signals, and a child that obeys SIGTERM exits.  Nothing makes  *)
(* a child exit, fall silent or fail to start of its own accord.           *)
Fairness ==
    /\ WF_vars(Supervise)
    /\ WF_vars(WatchPause)
    /\ WF_vars(Terminate)
    /\ WF_vars(Spawn \/ SpawnFails)
    /\ WF_vars(Eof)
    /\ WF_vars(ReapTerminates \/ ReapFinds)
    /\ WF_vars(Kill)
    /\ WF_vars(Respawn)
    /\ \A c \in Children : WF_vars(ChildObeys(c))

Spec == Init /\ [][Next]_vars
FairSpec == Spec /\ Fairness

-----------------------------------------------------------------------------
(* Every variable has its type: no await is reached in an unnamed state.    *)
TypeOK ==
    /\ config \in Configs /\ disk \in Configs /\ lastError \in BOOLEAN
    /\ retune \in BOOLEAN /\ toggle \in BOOLEAN
    /\ stop \in BOOLEAN /\ sessionStop \in BOOLEAN
    /\ pc \in {"check", "paused", "spawn", "reading", "reap", "wait",
               "backoff", "done"}
    /\ cmd \in Tunings
    /\ proc \in Children
    /\ alive \in SUBSET Children
    /\ tunedTo \in [Children -> Tunings]
    /\ termed \in SUBSET Children
    /\ timedOut \in BOOLEAN

(* The receiver has a single client: a child is started only after the     *)
(* last one is gone, and a pause, a shutdown or a failed start leaves none. *)
OneChild == \A c \in alive : c = proc /\ pc \in {"reading", "reap", "wait"}

(* No retune is lost: a child on another tuning than the configured one    *)
(* has a signal coming, and so has one about to be started with it.        *)
NoLostRetune ==
    /\ pc = "spawn" /\ cmd # config.tuning => retune
    /\ pc = "reading" /\ tunedTo[proc] # config.tuning => retune

(* No toggle is lost: whenever the supervisor does the opposite of what    *)
(* live_enabled asks, the event that will tell it so is set.               *)
NoLostToggle ==
    /\ InSession /\ ~config.enabled => toggle
    /\ pc = "paused" /\ config.enabled => toggle

(* A config that did not reach the disk is reported, however many later    *)
(* requests succeed.                                                       *)
UnsavedIsReported == disk = config \/ lastError

(* How many awaits the supervisor may still be at before it returns.        *)
WayHome(p) == CASE p = "spawn" -> 6 [] p = "reading" -> 5 [] p = "reap" -> 4
                [] p = "wait" -> 3 [] p = "backoff" -> 2
                [] p \in {"check", "paused"} -> 1 [] p = "done" -> 0

(* Once a shutdown has reached the session, whatever a child, the watchdog *)
(* or a later request does, the supervisor only gets nearer to its return: *)
(* no command is built and no decoder started but one that was under way.  *)
ShutdownOnlyDescends ==
    [][stop /\ stop' /\ sessionStop =>
          sessionStop' /\ (pc' = pc \/ WayHome(pc') < WayHome(pc))]_vars

(* A retune takes effect: a child on an old tuning does not keep running.  *)
Outdated(t) == \E c \in alive : tunedTo[c] # t
RetuneTakesEffect ==
    \A t \in Tunings :
        (config.tuning = t /\ Outdated(t)) ~> (config.tuning # t \/ ~Outdated(t))

(* A pause takes effect: the child ends, unless the operator resumes.      *)
PauseTakesEffect == (~config.enabled) ~> (alive = {} \/ config.enabled)

(* A resume takes effect: the supervisor is in a session, unless it was    *)
(* paused or stopped again.                                                *)
ResumeTakesEffect == config.enabled ~> (InSession \/ ~config.enabled \/ stop)

(* Shutdown completes: the supervisor returns and no child is left.        *)
ShutdownCompletes == stop ~> (~stop \/ (pc = "done" /\ alive = {}))
=============================================================================
