---------------------------- MODULE StateManager ----------------------------
(***************************************************************************)
(* The in-memory aggregator of the dashboard (backend/state.py): the table *)
(* of radios heard, the calls in progress, the callbacks that announce     *)
(* them, and the cap on the table.                                         *)
(*                                                                         *)
(* Every method runs on the event loop without an await, so each is one    *)
(* action.  What makes the component hard is its clocks: in                *)
(* multi-frequency mode each channel has a parser of its own whose         *)
(* timestamps only grow, but one channel may be behind another; tick() is  *)
(* called with the wall clock; and a restored snapshot may hold times      *)
(* later than anything the log will say next.                              *)
(*                                                                         *)
(* Abstracted: payload fields no property reads (position, ip, frequency,  *)
(* site, LSN states, quality counters).  A call key is the pair            *)
(* <<channel, slot>>; the code formats it as "<channel>:<slot>", from      *)
(* which both can be read back, so no two pairs share a key.               *)
(***************************************************************************)
EXTENDS Integers, FiniteSets

CONSTANTS
    Radios,       \* radio ids (0, the placeholder, is not one of them)
    Talkgroups,   \* call targets
    Channels,     \* RF channel labels; one label stands for single-channel mode
    Slots,        \* TDMA slots
    Timeout,      \* call_idle_timeout
    MaxRadios,    \* max_radios, the cap on the table
    EvictShare,   \* the "20" of max_radios // 20
    Snapshots,    \* radio tables a snapshot.json may hold when it is loaded
    MaxTime,      \* bound: timestamps are 0..MaxTime
    MaxFrames,    \* bound: frame_count saturates here
    None          \* no value

Times == 0 .. MaxTime
Keys == Channels \X Slots

RadioRec == [lastSeen : Times, encrypted : BOOLEAN, pos : 0 .. Cardinality(Radios)]
CallRec == [src : Radios, tgt : Talkgroups, last : Times,
            frames : 1 .. MaxFrames, encrypted : BOOLEAN]

(* A table lists radios in the order of the dict: pos counts those ahead.  *)
Ranked(t) == /\ \A r \in DOMAIN t : t[r].pos < Cardinality(DOMAIN t)
             /\ \A r, q \in DOMAIN t : t[r].pos = t[q].pos => r = q
Tables == UNION {[D -> RadioRec] : D \in SUBSET Radios}

ASSUME StateManagerAssumption ==
    /\ IsFiniteSet(Radios)
    /\ Timeout \in Nat /\ MaxTime \in Nat
    /\ MaxRadios \in Nat \ {0} /\ EvictShare \in Nat \ {0, 1}
    /\ MaxFrames \in Nat \ {0, 1}
    /\ None \notin Times \cup Channels \cup Radios
    /\ \A t \in Snapshots : t \in Tables /\ Ranked(t)

VARIABLES
    radios,       \* StateManager.radios: id -> record, for the ids in the table
    calls,        \* StateManager.active_calls: key -> record
    curChannel,   \* _cur_channel_label, which outlives the event that set it
    lastEventAt,  \* _last_event_at
    clock,        \* per channel, the timestamp its parser gave last
    open,         \* observer: the calls a listener believes in progress, from
                  \* the callbacks; a start ends what it believes of that key
    heard         \* observer: the radio heard last, if no radio was more recent
vars == <<radios, calls, curChannel, lastEventAt, clock, open, heard>>

-----------------------------------------------------------------------------
(* The radio table.                                                        *)

Later(a, b) == IF a < b THEN b ELSE a

Insert(t, r, ts) ==
    [q \in DOMAIN t \cup {r} |->
        IF q = r THEN [lastSeen |-> ts, encrypted |-> FALSE,
                       pos |-> Cardinality(DOMAIN t)]
                 ELSE t[q]]

(* Position of r among the radios S keeps. *)
Rank(t, S, r) == Cardinality({q \in S : t[q].pos < t[r].pos})
Keep(t, S) == [r \in S |-> [t[r] EXCEPT !.pos = Rank(t, S, r)]]

(* sorted() is stable: equal last_seen leaves the order of the dict. *)
BeforeReversed(t, a, b) == \/ t[b].lastSeen < t[a].lastSeen  \* a seeded slip
                           \/ t[a].lastSeen = t[b].lastSeen /\ t[a].pos < t[b].pos
Before(t, a, b) == \/ t[a].lastSeen < t[b].lastSeen
                   \/ t[a].lastSeen = t[b].lastSeen /\ t[a].pos < t[b].pos

(* sorted(radios, key=last_seen)[:n] as a set. *)
IsOldest(t, S, n) == /\ Cardinality(S) = n
                     /\ \A a \in S, b \in DOMAIN t \ S : Before(t, a, b)
Oldest(t, n) == CHOOSE S \in SUBSET DOMAIN t : IsOldest(t, S, n)

Batch(n) == LET b == Later(Later(n - MaxRadios, MaxRadios \div EvictShare), 1)
            IN  IF n < b THEN n ELSE b

Evict(t) == LET n == Cardinality(DOMAIN t)
            IN  IF n <= MaxRadios THEN t
                ELSE Keep(t, DOMAIN t \ Oldest(t, Batch(n)))

(* An unknown radio joins the table, and may be the one evicted at once:   *)
(* its timestamp can be the oldest of all.                                 *)
Touch(t, r, ts) ==
    IF r \in DOMAIN t THEN [t EXCEPT ![r].lastSeen = Later(@, ts)]
                      ELSE Evict(Insert(t, r, ts))

(* A handler may hold the object of a radio that is no longer in the table. *)
Flag(t, r, b) == IF r \in DOMAIN t THEN [t EXCEPT ![r].encrypted = b] ELSE t

-----------------------------------------------------------------------------
(* Calls and their callbacks.                                              *)

(* A seeded slip: the channel left out of the key. *)
CallKeySlotOnly(ch, slot) == <<CHOOSE c \in Channels : TRUE, slot>>
CallKey(ch, slot) == <<ch, slot>>

Stale(c, now) == now - c.last > Timeout
(* A seeded slip: one tick too patient. *)
UnexpiredLate(cs, now) == [k \in {j \in DOMAIN cs : ~Stale(cs[j], now - 1)} |-> cs[k]]
Unexpired(cs, now) == [k \in {j \in DOMAIN cs : ~Stale(cs[j], now)} |-> cs[k]]

CallId(cs, k) == <<k, cs[k].src, cs[k].tgt>>
(* on_call_end for the calls of cs at the keys K. *)
Ended(o, cs, K) == o \ {CallId(cs, k) : k \in K}
(* The calls in progress, and those of key k that only the listener still  *)
(* believes in, because a reset dropped them.                              *)
Active == {CallId(calls, k) : k \in DOMAIN calls}
Orphans(k) == {c \in open \ Active : c[1] = k}
(* A seeded slip: expiry that forgets the callback. *)
ExpiredSilently(o, cs, now) == o
Expired(o, cs, now) == Ended(o, cs, {k \in DOMAIN cs : Stale(cs[k], now)})

NewCall(src, tgt, ts) == [src |-> src, tgt |-> tgt, last |-> ts,
                          frames |-> 1, encrypted |-> FALSE]
Extend(c, ts) == [c EXCEPT !.last = ts,
                           !.frames = IF @ < MaxFrames THEN @ + 1 ELSE @]
Put(cs, k, c) == [j \in DOMAIN cs \cup {k} |-> IF j = k THEN c ELSE cs[j]]

Newest(t, r, ts) == IF \A q \in DOMAIN t : t[q].lastSeen <= ts THEN r ELSE None

-----------------------------------------------------------------------------
(* apply(event): clocks and channel context, then expiry, then the handler. *)

Arrive(ch, ts) ==
    /\ clock[ch] <= ts
    /\ clock' = [clock EXCEPT ![ch] = ts]
    /\ curChannel' = ch
    /\ lastEventAt' = ts

(* A voice frame continues the call of its key, or ends it and starts one. *)
VoiceCall(ch, slot, src, tgt, ts) ==
    LET k == CallKey(ch, slot)
        live == Unexpired(calls, ts)
        same == k \in DOMAIN live /\ live[k].src = src /\ live[k].tgt = tgt
        quiet == Expired(open, calls, ts)
    IN  /\ Arrive(ch, ts)
        /\ heard' = Newest(radios, src, ts)
        /\ \/ /\ same
              /\ radios' = Touch(radios, src, ts)
              /\ calls' = Put(live, k, Extend(live[k], ts))
              /\ open' = quiet
           \/ /\ ~same
              /\ radios' = Flag(Touch(radios, src, ts), src, FALSE)
              /\ calls' = Put(live, k, NewCall(src, tgt, ts))
              /\ open' = (Ended(quiet, live, {k} \cap DOMAIN live) \ Orphans(k))
                            \cup {<<k, src, tgt>>}

(* Group preamble, data header, IP mapping, LRRP position: one radio heard. *)
RadioEvent(ch, r, ts) ==
    /\ Arrive(ch, ts)
    /\ radios' = Touch(radios, r, ts)
    /\ calls' = Unexpired(calls, ts)
    /\ open' = Expired(open, calls, ts)
    /\ heard' = Newest(radios, r, ts)

(* LRRP request and individually addressed preamble: source, then target. *)
PairEvent(ch, src, tgt, ts) ==
    /\ Arrive(ch, ts)
    /\ radios' = Touch(Touch(radios, src, ts), tgt, ts)
    /\ calls' = Unexpired(calls, ts)
    /\ open' = Expired(open, calls, ts)
    /\ heard' = Newest(Touch(radios, src, ts), tgt, ts)

(* Encryption names only a slot: it marks the call there and its source. *)
Encryption(ch, slot, ts) ==
    LET k == CallKey(ch, slot)
        live == Unexpired(calls, ts)
    IN  /\ Arrive(ch, ts)
        /\ open' = Expired(open, calls, ts)
        /\ heard' = None
        /\ \/ /\ k \in DOMAIN live
              /\ calls' = [live EXCEPT ![k].encrypted = TRUE]
              /\ radios' = Flag(radios, live[k].src, TRUE)
           \/ /\ k \notin DOMAIN live
              /\ calls' = live
              /\ UNCHANGED radios

(* Site, channel, LSN, bank and quality events, a voice frame with src 0   *)
(* and a position without src: no radio and no call is named.              *)
OtherEvent(ch, ts) ==
    /\ Arrive(ch, ts)
    /\ calls' = Unexpired(calls, ts)
    /\ open' = Expired(open, calls, ts)
    /\ heard' = None
    /\ UNCHANGED radios

(* tick(datetime.now()): the wall clock, whatever the log's clock says. *)
Tick(now) ==
    /\ calls' = Unexpired(calls, now)
    /\ open' = Expired(open, calls, now)
    /\ UNCHANGED <<radios, curChannel, lastEventAt, clock, heard>>

(* reset() drops the calls without on_call_end, so a listener goes on      *)
(* believing in them; the channel context is kept.                         *)
Reset ==
    /\ radios' = [r \in {} |-> r]
    /\ calls' = [k \in {} |-> k]
    /\ lastEventAt' = None
    /\ heard' = None
    /\ UNCHANGED <<curChannel, clock, open>>

(* A seeded slip: the cap not enforced on a loaded snapshot. *)
RestartUncapped(snap, start) ==
    /\ radios' = snap
    /\ calls' = [k \in {} |-> k]
    /\ curChannel' = None
    /\ lastEventAt' = None
    /\ clock' = [ch \in Channels |-> start]
    /\ open' = {}
    /\ heard' = None

(* A new process loads the snapshot the old one saved, an older or a       *)
(* foreign one; calls are not restored.  The channels' parsers all start   *)
(* from one date, that of the input, which may be older than the snapshot. *)
Restart(snap, start) ==
    /\ radios' = Evict(snap)
    /\ calls' = [k \in {} |-> k]
    /\ curChannel' = None
    /\ lastEventAt' = None
    /\ clock' = [ch \in Channels |-> start]
    /\ open' = {}
    /\ heard' = None

Init ==
    /\ radios \in {Evict(snap) : snap \in Snapshots}
    /\ calls = [k \in {} |-> k]
    /\ curChannel = None
    /\ lastEventAt = None
    /\ clock \in {[ch \in Channels |-> start] : start \in Times}
    /\ open = {}
    /\ heard = None

Event ==
    \E ch \in Channels, ts \in Times :
        \/ \E slot \in Slots, src \in Radios, tgt \in Talkgroups :
              VoiceCall(ch, slot, src, tgt, ts)
        \/ \E r \in Radios : RadioEvent(ch, r, ts)
        \/ \E src, tgt \in Radios : PairEvent(ch, src, tgt, ts)
        \/ \E slot \in Slots : Encryption(ch, slot, ts)
        \/ OtherEvent(ch, ts)

Next == \/ Event
        \/ \E now \in Times : Tick(now)
        \/ Reset
        \/ \E snap \in Snapshots \cup {radios}, start \in Times : Restart(snap, start)

Spec == Init /\ [][Next]_vars

-----------------------------------------------------------------------------
(* Every variable has its type, and the table is a dict: every radio has   *)
(* one position of its own.                                                *)
TypeOK ==
    /\ radios \in Tables /\ Ranked(radios)
    /\ calls \in UNION {[K -> CallRec] : K \in SUBSET Keys}
    /\ curChannel \in Channels \cup {None}
    /\ lastEventAt \in Times \cup {None}
    /\ clock \in [Channels -> Times]
    /\ open \in SUBSET (Keys \X Radios \X Talkgroups)
    /\ heard \in Radios \cup {None}

(* The table never outgrows max_radios, neither by events that touch two   *)
(* radios nor by loading a snapshot written before the cap existed.        *)
CapHolds == Cardinality(DOMAIN radios) <= MaxRadios

(* A call in progress has been announced by on_call_start, and a listener  *)
(* that goes by the callbacks alone hears the end of every call that is    *)
(* replaced or that expires, by an event or by tick(): a call it believes  *)
(* in and the table lacks is one that a reset dropped.  reset() is the     *)
(* exception, which announces nothing (state.py:247); the service registers*)
(* no listener, so nobody waits for those ends.                            *)
CallbacksBalanced ==
    [][/\ Active' \subseteq open'
       /\ open' \ Active' \subseteq open \ Active \/ Reset]_vars

(* Eviction never removes the radio just heard, provided no radio in the   *)
(* table carried a later time than the event that named it.                *)
LastHeardIsLive == heard # None => heard \in DOMAIN radios

(* The radios an event pushes out of the table were last heard no later    *)
(* than any that stays, also when it touches two and each pushes out a     *)
(* batch; only those it names itself may stay with an older time.          *)
EvictsTheOldest ==
    [][\A a \in DOMAIN radios \ DOMAIN radios', b \in DOMAIN radios' :
          lastEventAt' # None => \/ radios[a].lastSeen <= radios'[b].lastSeen
                                 \/ radios'[b].lastSeen = lastEventAt']_vars

(* Expiry precedes the handler: a frame joins, or an encryption marker     *)
(* taints, only a call whose last frame is at most Timeout old, so neither *)
(* frame_count nor the encryption flag leaks across a gap.                 *)
NoFrameJoinsStaleCall ==
    [][\A k \in DOMAIN calls \cap DOMAIN calls' :
          \/ calls'[k] = calls[k]
          \/ ~Stale(calls[k], lastEventAt')
          \/ calls'[k].frames = 1 /\ ~calls'[k].encrypted]_vars

(* Two frequencies' calls on one slot number do not collide: an event of   *)
(* one channel leaves another channel's call as it is, or expires it.      *)
ChannelsIndependent ==
    [][\A k \in DOMAIN calls :
          lastEventAt' # None /\ k[1] # curChannel' =>
             \/ k \in DOMAIN calls' /\ calls'[k] = calls[k]
             \/ /\ k \notin DOMAIN calls'
                /\ \/ Stale(calls[k], lastEventAt')
                   \/ \E now \in Times : Stale(calls[k], now) /\ Tick(now)]_vars
=============================================================================
