------------------------------ MODULE WebServer ------------------------------
(***************************************************************************)
(* The web server (backend/server.py): snapshots of the state are computed *)
(* on worker threads by the broadcast loop, by resets and for the first    *)
(* frame of a client, cached, and put in the queue of every client of /ws; *)
(* slow clients are evicted; heavy queries share the threads, a few at a   *)
(* time.                                                                   *)
(*                                                                         *)
(* Abstracted: the state is a version number that every event and reset    *)
(* increments, and a payload is the version it shows.  Clients differ only *)
(* in whether their sends end.  Queries are counted, not named.            *)
(***************************************************************************)
EXTENDS Integers, Sequences, FiniteSets

CONSTANTS
    Clients, Prompt,  \* connections to /ws, and those whose sends end
    Tick, Resets,     \* the broadcast loop, and the handlers of /api/reset
    QueueLen,         \* maxsize of a client's queue
    PoolSize,         \* worker threads
    Concurrency, MaxQueue,  \* _HEAVY_CONCURRENCY, _HEAVY_MAX_QUEUE
    MaxVersion,       \* bound: changes of the state
    None              \* no payload; as an item, a ping

Producers == {Tick} \cup Resets
Jobs == Producers \cup Clients
Versions == 0 .. MaxVersion

ASSUME WebServerAssumption ==
    /\ Prompt \subseteq Clients /\ IsFiniteSet(Jobs)
    /\ Tick \notin Resets \cup Clients /\ Resets \cap Clients = {}
    /\ QueueLen \in Nat \ {0} /\ MaxVersion \in Nat
    /\ Concurrency \in Nat /\ MaxQueue \in Nat /\ PoolSize \in Nat
    /\ Concurrency < PoolSize
    /\ None \notin Versions

VARIABLES
    ver,     \* the version of the state
    wiped,   \* the version the last reset left: older data are erased
    cached,  \* _broadcast_payload
    job,     \* the snapshot a producer or a new client waits for
    pay,     \* of a running job, the version it began at; then its payload; else 0
    subs,    \* _subscribers
    queue,   \* the queue of each client
    cpc,     \* where a client's handler is
    item,    \* what it is sending, if it is
    shown,   \* observer: the payload a client was sent last
    asked,   \* _heavy_waiting: queries that wait or run
    busy,    \* queries that run
    late     \* observer: erased payloads a producer pushed since the reset
client == <<subs, queue, cpc, item, shown>>
heavy == <<asked, busy>>
vars == <<ver, wiped, cached, job, pay, client, heavy, late>>

-----------------------------------------------------------------------------
(* Snapshots (state.snapshot, on a worker thread). *)

Event ==
    /\ ver < MaxVersion /\ ver' = ver + 1
    /\ UNCHANGED <<wiped, cached, job, pay, client, heavy, late>>

FreeThread == Cardinality({j \in Jobs : job[j] = "running"}) + busy < PoolSize

Forget(j) == job' = [job EXCEPT ![j] = "none"] /\ pay' = [pay EXCEPT ![j] = 0]

Begin(j) ==
    /\ job[j] = "queued" /\ FreeThread
    /\ job' = [job EXCEPT ![j] = "running"]
    /\ pay' = [pay EXCEPT ![j] = ver]
    /\ UNCHANGED <<ver, wiped, cached, client, heavy, late>>

(* A seeded slip: the cached payload is good enough, if there is one. *)
FinishCached(j) ==
    /\ job[j] = "running"
    /\ job' = [job EXCEPT ![j] = "done"]
    /\ pay' = IF cached = None THEN pay ELSE [pay EXCEPT ![j] = cached]
    /\ UNCHANGED <<ver, wiped, cached, client, heavy, late>>

(* What the thread read is of any time since it began. *)
Finish(j) ==
    /\ job[j] = "running"
    /\ job' = [job EXCEPT ![j] = "done"]
    /\ \E v \in pay[j] .. ver : pay' = [pay EXCEPT ![j] = v]
    /\ UNCHANGED <<ver, wiped, cached, client, heavy, late>>

(* The radio table changed under the thread (dictionary changed size): the *)
(* loop goes on to its next tick, a reset answers 500 and pushes nothing.  *)
Fail(j) ==
    /\ job[j] = "running" /\ pay[j] # ver
    /\ job' = [job EXCEPT ![j] = IF j \in Clients THEN "failed" ELSE "none"]
    /\ pay' = [pay EXCEPT ![j] = 0]
    /\ UNCHANGED <<ver, wiped, cached, client, heavy, late>>

-----------------------------------------------------------------------------
(* Producers *)

(* _periodic_snapshot, at the end of its sleep. *)
TickStart ==
    /\ job[Tick] = "none"
    /\ job' = [job EXCEPT ![Tick] = "queued"]
    /\ UNCHANGED <<ver, wiped, cached, pay, client, heavy, late>>

(* /api/reset: everything is erased, then a snapshot is asked for. *)
Reset(r) ==
    /\ job[r] = "none" /\ ver < MaxVersion
    /\ ver' = ver + 1 /\ wiped' = ver + 1
    /\ late' = [p \in Producers |-> 0]
    /\ job' = [job EXCEPT ![r] = "queued"]
    /\ UNCHANGED <<cached, pay, client, heavy>>

Full == {c \in subs : Len(queue[c]) >= QueueLen}

(* A seeded slip: who has no room for a payload does without it.           *)
PushDrops(p) ==
    /\ job[p] = "done"
    /\ Forget(p)
    /\ cached' = pay[p]
    /\ queue' = [c \in Clients |-> IF c \in subs \ Full THEN Append(queue[c], pay[p])
                                   ELSE queue[c]]
    /\ late' = IF pay[p] < wiped THEN [late EXCEPT ![p] = @ + 1] ELSE late
    /\ UNCHANGED <<ver, wiped, subs, cpc, item, shown, heavy>>

(* push_snapshot: the payload is cached and queued; who has no room for it *)
(* is evicted.                                                             *)
Push(p) ==
    /\ job[p] = "done"
    /\ Forget(p)
    /\ cached' = pay[p]
    /\ queue' = [c \in Clients |-> IF c \in subs \ Full THEN Append(queue[c], pay[p])
                                   ELSE queue[c]]
    /\ subs' = subs \ Full
    /\ late' = IF pay[p] < wiped THEN [late EXCEPT ![p] = @ + 1] ELSE late
    /\ UNCHANGED <<ver, wiped, cpc, item, shown, heavy>>

-----------------------------------------------------------------------------
(* Clients (ws_endpoint) *)

(* Subscribed first; the first frame is the cached payload, or made for it.*)
Connect(c) ==
    /\ cpc[c] = "off" /\ job[c] = "none"
    /\ subs' = subs \cup {c}
    /\ item' = [item EXCEPT ![c] = cached]
    /\ \/ cached # None /\ cpc' = [cpc EXCEPT ![c] = "send"] /\ UNCHANGED job
       \/ cached = None /\ cpc' = [cpc EXCEPT ![c] = "first"]
                        /\ job' = [job EXCEPT ![c] = "queued"]
    /\ UNCHANGED <<ver, wiped, cached, pay, queue, shown, heavy, late>>

FirstFrame(c) ==
    /\ cpc[c] = "first" /\ job[c] = "done"
    /\ cpc' = [cpc EXCEPT ![c] = "send"]
    /\ item' = [item EXCEPT ![c] = pay[c]]
    /\ Forget(c)
    /\ UNCHANGED <<ver, wiped, cached, subs, queue, shown, heavy, late>>

Sent(c) ==
    /\ cpc[c] = "send"
    /\ cpc' = [cpc EXCEPT ![c] = "wait"]
    /\ shown' = IF item[c] = None THEN shown ELSE [shown EXCEPT ![c] = item[c]]
    /\ item' = [item EXCEPT ![c] = None]
    /\ UNCHANGED <<ver, wiped, cached, job, pay, subs, queue, heavy, late>>

Take(c) ==
    /\ cpc[c] = "wait" /\ queue[c] # <<>>
    /\ cpc' = [cpc EXCEPT ![c] = "send"]
    /\ item' = [item EXCEPT ![c] = Head(queue[c])]
    /\ queue' = [queue EXCEPT ![c] = Tail(@)]
    /\ UNCHANGED <<ver, wiped, cached, job, pay, subs, shown, heavy, late>>

(* The handler ends: the queue is discarded. *)
HangUp(c) ==
    /\ cpc' = [cpc EXCEPT ![c] = "off"]
    /\ shown' = [shown EXCEPT ![c] = None]
    /\ queue' = [queue EXCEPT ![c] = <<>>]
    /\ subs' = subs \ {c}
    /\ item' = [item EXCEPT ![c] = None]
    /\ Forget(c)
    /\ UNCHANGED <<ver, wiped, cached, heavy, late>>

(* A send fails, or the first frame does. *)
Lost(c) ==
    /\ cpc[c] = "send" \/ (cpc[c] = "first" /\ job[c] = "failed")
    /\ HangUp(c)

Ping(c) ==
    /\ cpc' = [cpc EXCEPT ![c] = "send"]
    /\ item' = [item EXCEPT ![c] = None]
    /\ UNCHANGED <<ver, wiped, cached, job, pay, subs, queue, shown, heavy, late>>

(* A seeded slip: a quiet client is pinged, subscribed or not. *)
QuietPings(c) == cpc[c] = "wait" /\ queue[c] = <<>> /\ Ping(c)

(* Nothing for 30 s: an evicted client is given up, another one is pinged. *)
Quiet(c) ==
    /\ cpc[c] = "wait" /\ queue[c] = <<>>
    /\ \/ c \notin subs /\ HangUp(c)
       \/ c \in subs /\ Ping(c)

-----------------------------------------------------------------------------
(* Heavy queries (_run_heavy); beyond MaxQueue the answer is 503. *)

Ask ==
    /\ asked < MaxQueue /\ asked' = asked + 1
    /\ UNCHANGED <<ver, wiped, cached, job, pay, client, busy, late>>

QueryStart ==
    /\ busy < asked /\ busy < Concurrency /\ FreeThread
    /\ busy' = busy + 1
    /\ UNCHANGED <<ver, wiped, cached, job, pay, client, asked, late>>

QueryEnd ==
    /\ busy > 0 /\ busy' = busy - 1 /\ asked' = asked - 1
    /\ UNCHANGED <<ver, wiped, cached, job, pay, client, late>>

Init ==
    /\ ver = 0 /\ wiped = 0 /\ cached = None
    /\ job = [j \in Jobs |-> "none"] /\ pay = [j \in Jobs |-> 0]
    /\ subs = {} /\ queue = [c \in Clients |-> <<>>]
    /\ cpc = [c \in Clients |-> "off"] /\ item = [c \in Clients |-> None]
    /\ shown = [c \in Clients |-> None]
    /\ asked = 0 /\ busy = 0
    /\ late = [p \in Producers |-> 0]

Handler(c) ==
    \/ Connect(c) \/ FirstFrame(c) \/ Sent(c) \/ Take(c) \/ Lost(c) \/ Quiet(c)

Next ==
    \/ Event \/ TickStart \/ \E r \in Resets : Reset(r)
    \/ \E j \in Jobs : Begin(j) \/ Finish(j) \/ Fail(j)
    \/ \E p \in Producers : Push(p)
    \/ \E c \in Clients : Handler(c)
    \/ Ask \/ QueryStart \/ QueryEnd

Spec == Init /\ [][Next]_vars

(* The loop runs its coroutines and timers; the threads take jobs in the   *)
(* order they were queued, so that a job is not passed by for ever, and a  *)
(* snapshot takes finite time.  Not so a query, or a send to a slow client.*)
Fairness ==
    /\ \A j \in Jobs : SF_vars(Begin(j))
    /\ \A q \in Producers : WF_vars(Finish(q) \/ Fail(q) \/ Push(q))
    /\ WF_vars(TickStart)
    /\ \A c \in Clients :
           /\ WF_vars(Finish(c) \/ Fail(c))
           /\ WF_vars(FirstFrame(c) \/ Take(c) \/ Quiet(c) \/ (cpc[c] = "first" /\ Lost(c)))
    /\ \A c \in Prompt : WF_vars(Sent(c) \/ Lost(c))
FairSpec == Spec /\ Fairness

-----------------------------------------------------------------------------
TypeOK ==
    /\ ver \in Versions /\ wiped \in 0 .. ver
    /\ cached \in Versions \cup {None}
    /\ job \in [Jobs -> {"none", "queued", "running", "done", "failed"}]
    /\ pay \in [Jobs -> 0 .. ver]
    /\ subs \subseteq Clients
    /\ queue \in [Clients -> Seq(Versions)]
    /\ \A c \in Clients : Len(queue[c]) <= QueueLen
    /\ cpc \in [Clients -> {"off", "first", "send", "wait"}]
    /\ item \in [Clients -> Versions \cup {None}]
    /\ shown \in [Clients -> Versions \cup {None}]
    /\ asked \in 0 .. MaxQueue /\ busy \in 0 .. Concurrency /\ busy <= asked
    /\ late \in [Producers -> Nat]

(* After a reset, the broadcast loop and every other reset in progress put *)
(* erased data on the screens, and in the cache for new clients, at most   *)
(* once more each: with the snapshot that was under way.                   *)
ErasedPushedOnceMore == \A p \in Producers : late[p] <= 1

(* What a client shows once it has taken what waits for it. *)
Coming(c) == IF queue[c] # <<>> THEN queue[c][Len(queue[c])]
             ELSE IF item[c] # None THEN item[c] ELSE shown[c]

(* A subscriber never misses the last payload: it was sent that, is being  *)
(* sent it, or has it last in its queue, although a client subscribes      *)
(* before its first frame is made, payloads are pushed meanwhile, and what *)
(* does not fit is not queued.                                             *)
LatestOnItsWay == \A c \in subs : cached = None \/ Coming(c) = cached

(* A client that takes its frames ends up showing no version older than    *)
(* any the state has had, or is disconnected and has to come back; an      *)
(* eviction, stale and torn snapshots, and queries without end do not keep *)
(* it on old data.                                                         *)
PromptClientsConverge ==
    \A c \in Prompt :
        /\ \A v \in Versions \ {0} : (ver = v) ~> [](shown[c] = None \/ shown[c] >= v)
        /\ (cpc[c] # "off") ~> (cpc[c] = "off" \/ shown[c] # None)
=============================================================================
