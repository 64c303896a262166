------------------------------- MODULE Alerts --------------------------------
(***************************************************************************)
(* The alert evaluator of backend/alerts.py.                               *)
(*                                                                         *)
(* on_event and the changes of the rules run on the event loop, tick on a  *)
(* worker thread, one at a time: backend/cli.py awaits it before the next. *)
(* A step of the tick is one critical section with the unlocked code       *)
(* before it.  on_event is one step although it takes the lock for each    *)
(* rule: after its first section it touches only what belongs to the rules *)
(* of its own kinds, which the tick never touches.                         *)
(*                                                                         *)
(* Abstracted: a key is the pair (source, target) of a voice frame with a  *)
(* known source; messages and contexts of alerts are left out, and so are  *)
(* the deque of past alerts and the fan-out to subscribers.  Events bear   *)
(* the time of their channel, at most Lag behind the wall clock.           *)
(***************************************************************************)
EXTENDS Naturals

CONSTANTS
    Ids,       \* rules there may ever be; an id is never used again
    Watch,     \* keyup: keys of watched radios; encryption: keys of its groups
    AnyGroup,  \* encryption rules without a list of groups
    Cooldown,  \* cooldown_seconds of each rule
    Timeout,   \* timeout_seconds of the cc_silent rules
    Slots, Keys,
    MaxTime,   \* bound: the wall clock
    Lag,       \* bound: how far a channel's clock is behind
    None       \* no time, no key, no rule

Kinds == {"radio_keyup", "encryption", "cc_silent", "quality_spike"}
Time == 0..MaxTime

ASSUME AlertsAssumption ==
    /\ Watch \in [Ids -> SUBSET Keys]
    /\ AnyGroup \subseteq Ids
    /\ Cooldown \in [Ids -> Nat] /\ Timeout \in Nat
    /\ MaxTime \in Nat /\ Lag \in Nat
    /\ None \notin Nat /\ None \notin Keys /\ None \notin Ids /\ None \notin Kinds

VARIABLES
    now,        \* the wall clock
    rules,      \* rules there are
    kind,       \* what each was created as; None before
    enabled,    \* rules whose flag is set, also of removed ones
    lastFired,  \* _last_fired
    lastKey,    \* _last_call_key
    slotCall,   \* _slot_call
    lastCc,     \* _last_cc_at
    latched,    \* _cc_silent_fired
    tpc,        \* the tick: "idle", "rules", "latch", "query", "record"
    at, todo, cur,  \* its time, the rules left, the rule it is at
    outage,     \* observer: cc_silent alerts since the last heartbeat
    late,       \* observer: alerts of a rule since it was switched off
    short,      \* observer: rules whose last alert came within a cooldown
                \* of the one before
    stale       \* observer: rules a tick was about to latch for an outage
                \* that the last heartbeat ended
tick == <<tpc, at, todo, cur>>
observers == <<outage, late, short, stale>>
vars == <<now, rules, kind, enabled, lastFired, lastKey, slotCall, lastCc, latched,
          tick, observers>>

Off(r) == r \notin rules \/ r \notin enabled
CooldownOk(r, t) == lastFired[r] = None \/ t >= lastFired[r] + Cooldown[r]
Silent(t) == lastCc # None /\ t >= lastCc + Timeout
Stamps == {t \in Time : t <= now /\ now <= t + Lag}

Init ==
    /\ now = 0
    /\ rules = {} /\ kind = [r \in Ids |-> None] /\ enabled = {}
    /\ lastFired = [r \in Ids |-> None]
    /\ lastKey = [r \in Ids |-> [s \in Slots |-> None]]
    /\ slotCall = [s \in Slots |-> None]
    /\ lastCc = None /\ latched = {}
    /\ tpc = "idle" /\ at = 0 /\ todo = {} /\ cur = None
    /\ outage = [r \in Ids |-> 0] /\ late = [r \in Ids |-> 0]
    /\ short = {} /\ stale = {}

Pass == /\ now < MaxTime /\ now' = now + 1
        /\ UNCHANGED <<rules, kind, enabled, lastFired, lastKey, slotCall, lastCc,
                       latched, tick, observers>>

-----------------------------------------------------------------------------
(* The rules.                                                              *)

AddRule(r, k, on) ==
    /\ kind[r] = None
    /\ rules' = rules \cup {r} /\ kind' = [kind EXCEPT ![r] = k]
    /\ enabled' = IF on THEN enabled \cup {r} ELSE enabled
    /\ UNCHANGED <<now, lastFired, lastKey, slotCall, lastCc, latched, tick, observers>>

RemoveRule(r) ==
    /\ r \in rules
    /\ rules' = rules \ {r}
    /\ lastFired' = [lastFired EXCEPT ![r] = None]
    /\ lastKey' = [lastKey EXCEPT ![r] = [s \in Slots |-> None]]
    /\ latched' = latched \ {r}
    /\ outage' = [outage EXCEPT ![r] = 0]
    /\ short' = short \ {r}
    /\ UNCHANGED <<now, kind, enabled, slotCall, lastCc, tick, late, stale>>

SetEnabled(r, on) ==
    /\ r \in rules
    /\ enabled' = IF on THEN enabled \cup {r} ELSE enabled \ {r}
    /\ late' = IF on THEN [late EXCEPT ![r] = 0] ELSE late
    /\ UNCHANGED <<now, rules, kind, lastFired, lastKey, slotCall, lastCc, latched,
                   tick, outage, short, stale>>

-----------------------------------------------------------------------------
(* on_event.                                                               *)

Active(k) == {r \in rules \cap enabled : kind[r] = k}
Fire(F, t) ==
    /\ lastFired' = [r \in Ids |-> IF r \in F THEN t ELSE lastFired[r]]
    /\ short' = (short \ F) \cup
                   {r \in F : lastFired[r] # None /\ t < lastFired[r] + Cooldown[r]}

(* A seeded slip: cooldowns are not asked. *)
VoiceFloods(s, k, t) ==
    /\ slotCall' = [slotCall EXCEPT ![s] = k]
    /\ LET hit == {r \in Active("radio_keyup") : k \in Watch[r] /\ lastKey[r][s] # k}
       IN  /\ lastKey' = [r \in Ids |-> IF r \in hit THEN [lastKey[r] EXCEPT ![s] = k]
                                        ELSE lastKey[r]]
           /\ Fire(hit, t)
    /\ UNCHANGED <<now, rules, kind, enabled, lastCc, latched, tick, outage, late, stale>>

(* A rule remembers the call it has seen, also when the cooldown keeps it  *)
(* from firing.                                                            *)
Voice(s, k, t) ==
    /\ slotCall' = [slotCall EXCEPT ![s] = k]
    /\ LET hit == {r \in Active("radio_keyup") : k \in Watch[r] /\ lastKey[r][s] # k}
       IN  /\ lastKey' = [r \in Ids |-> IF r \in hit THEN [lastKey[r] EXCEPT ![s] = k]
                                        ELSE lastKey[r]]
           /\ Fire({r \in hit : CooldownOk(r, t)}, t)
    /\ UNCHANGED <<now, rules, kind, enabled, lastCc, latched, tick, outage, late, stale>>

Encrypted(s, t) ==
    /\ Fire({r \in Active("encryption") :
               /\ r \in AnyGroup \/ slotCall[s] \in Watch[r]
               /\ CooldownOk(r, t)}, t)
    /\ UNCHANGED <<now, rules, kind, enabled, lastKey, slotCall, lastCc, latched, tick,
                   outage, late, stale>>

(* Any event of the control channel. *)
Heartbeat(t) ==
    /\ lastCc' = t /\ latched' = {}
    /\ outage' = [r \in Ids |-> 0]
    /\ stale' = IF tpc = "latch" /\ at < t + Timeout THEN {cur} ELSE {}
    /\ UNCHANGED <<now, rules, kind, enabled, lastFired, lastKey, slotCall, tick, late,
                   short>>

-----------------------------------------------------------------------------
(* The tick.  It changes nothing of the rules and of what is heard.        *)

Heard == <<now, rules, kind, enabled, lastKey, slotCall, lastCc>>

TickStart ==
    /\ tpc = "idle"
    /\ tpc' = "rules" /\ at' = now /\ todo' = rules
    /\ UNCHANGED <<Heard, lastFired, latched, cur, observers>>

(* A seeded slip: silence must exceed the timeout. *)
VerdictLater(r) ==
    IF kind[r] = "cc_silent" /\ r \notin latched /\ lastCc # None
       /\ at > lastCc + Timeout THEN "latch"
    ELSE IF kind[r] = "quality_spike" /\ CooldownOk(r, at) THEN "query"
    ELSE "rules"

(* What the first section of a rule's check leads to. *)
Verdict(r) ==
    IF kind[r] = "cc_silent" /\ r \notin latched /\ Silent(at) THEN "latch"
    ELSE IF kind[r] = "quality_spike" /\ CooldownOk(r, at) THEN "query"
    ELSE "rules"

(* A seeded slip: the flag of a rule is not looked at. *)
LookAnyway(r) ==
    /\ tpc = "rules" /\ r \in todo
    /\ todo' = todo \ {r}
    /\ tpc' = Verdict(r)
    /\ cur' = IF tpc' = "rules" THEN None ELSE r
    /\ UNCHANGED <<Heard, lastFired, latched, at, observers>>

(* The next rule: its flag, its kind, and the first section of its check.  *)
Look(r) ==
    /\ tpc = "rules" /\ r \in todo
    /\ todo' = todo \ {r}
    /\ tpc' = IF r \in enabled THEN Verdict(r) ELSE "rules"
    /\ cur' = IF tpc' = "rules" THEN None ELSE r
    /\ UNCHANGED <<Heard, lastFired, latched, at, observers>>

Latch ==
    /\ tpc = "latch"
    /\ \/ /\ cur \in latched
          /\ tpc' = "rules" /\ cur' = None
          /\ UNCHANGED <<latched, outage>>
       \/ /\ cur \notin latched
          /\ tpc' = "record" /\ latched' = latched \cup {cur}
          /\ outage' = [outage EXCEPT ![cur] = @ + 1]
          /\ UNCHANGED cur
    /\ UNCHANGED <<Heard, lastFired, at, todo, late, short, stale>>

(* The error rate is computed without the lock; it may fail or be fine.    *)
Query ==
    /\ tpc = "query"
    /\ \/ tpc' = "rules" /\ cur' = None
       \/ tpc' = "record" /\ UNCHANGED cur
    /\ UNCHANGED <<Heard, lastFired, latched, at, todo, observers>>

(* A seeded slip: an alert is noted at the wrong time. *)
RecordNow ==
    /\ tpc = "record"
    /\ tpc' = "rules" /\ cur' = None
    /\ Fire({cur}, now + 1)
    /\ late' = IF Off(cur) THEN [late EXCEPT ![cur] = @ + 1] ELSE late
    /\ UNCHANGED <<Heard, latched, at, todo, outage, stale>>

Record ==
    /\ tpc = "record"
    /\ tpc' = "rules" /\ cur' = None
    /\ Fire({cur}, at)
    /\ late' = IF Off(cur) THEN [late EXCEPT ![cur] = @ + 1] ELSE late
    /\ UNCHANGED <<Heard, latched, at, todo, outage, stale>>

TickEnd ==
    /\ tpc = "rules" /\ todo = {}
    /\ tpc' = "idle" /\ at' = 0
    /\ UNCHANGED <<Heard, lastFired, latched, todo, cur, observers>>

Tick == \/ TickStart \/ Latch \/ Query \/ Record \/ TickEnd
        \/ \E r \in Ids : Look(r)

Next ==
    \/ Pass
    \/ \E r \in Ids, k \in Kinds, on \in BOOLEAN : AddRule(r, k, on)
    \/ \E r \in Ids, on \in BOOLEAN : SetEnabled(r, on)
    \/ \E r \in Ids : RemoveRule(r)
    \/ \E t \in Stamps : \/ \E s \in Slots, k \in Keys : Voice(s, k, t)
                         \/ \E s \in Slots : Encrypted(s, t)
                         \/ Heartbeat(t)
    \/ Tick

Spec == Init /\ [][Next]_vars
(* The worker thread runs, and the loop starts it every second. *)
FairSpec == Spec /\ WF_vars(Tick)

-----------------------------------------------------------------------------
(* Every variable has its type. *)
TypeOK ==
    /\ now \in Time
    /\ rules \in SUBSET Ids /\ enabled \in SUBSET Ids
    /\ kind \in [Ids -> Kinds \cup {None}]
    /\ lastFired \in [Ids -> Time \cup {None}]
    /\ lastKey \in [Ids -> [Slots -> Keys \cup {None}]]
    /\ slotCall \in [Slots -> Keys \cup {None}]
    /\ lastCc \in Time \cup {None} /\ latched \in SUBSET Ids
    /\ tpc \in {"idle", "rules", "latch", "query", "record"}
    /\ at \in Time /\ todo \in SUBSET Ids /\ cur \in Ids \cup {None}
    /\ outage \in [Ids -> Nat] /\ late \in [Ids -> Nat]
    /\ short \in SUBSET Ids /\ stale \in SUBSET Ids

(* No alert of a rule comes within its cooldown of the one before, by the  *)
(* times they bear, with the tick's check and its record far apart; two    *)
(* alerts of one time count.  A deletion forgets the clock, so the one     *)
(* alert that may follow it is AtMostOneLate's.  A cc_silent rule, which   *)
(* never asks its cooldown, decides to fire once between two heartbeats.   *)
NoFlood ==
    \A r \in Ids : /\ outage[r] <= 1
                   /\ kind[r] # "cc_silent" => r \notin short

(* What the comment on cooldown_seconds says of every rule, cc_silent too: *)
(* a minimum number of seconds between consecutive firings.                *)
CooldownHolds == short = {}

(* A rule switched off or deleted while a tick is at work may fire once    *)
(* more, and never again.                                                  *)
AtMostOneLate == \A r \in Ids : late[r] <= 1

(* What could make one tick miss a silence: while it is at work the rule   *)
(* comes into force, or a heartbeat arrives and takes its latch away.      *)
LeftAlone(r) ==
    [][tpc # "idle" => /\ Off(r) => Off(r)'
                       /\ lastCc' = lastCc
                       /\ r \in latched => r \in latched']_vars

(* Nothing else does: a tick that ends, ends with every rule latched whose *)
(* silence it began in, whatever was added, deleted or fired meanwhile.    *)
TickNotices(r) ==
    [][TickEnd /\ kind[r] = "cc_silent" /\ ~Off(r) /\ Silent(at) => r \in latched]_vars

(* The last alert of the rule bears a time in the present silence.         *)
Reported(r) == lastFired[r] # None /\ Silent(lastFired[r])

(* A control channel that stays silent is reported by every rule in force, *)
(* however events, changes of the rules and ticks interleave, unless the   *)
(* last heartbeat came when a tick was about to latch the rule.            *)
SilenceIsNoticed ==
    \A r \in Ids :
        (kind[r] = "cc_silent" /\ ~Off(r) /\ Silent(now))
            ~> (Reported(r) \/ r \in stale \/ Off(r) \/ ~Silent(now))

(* Without the exception: what the comments on _cc_silent_fired say, that  *)
(* a heartbeat resets the latches and the rule fires in the next outage.   *)
OutageIsReported ==
    \A r \in Ids :
        (kind[r] = "cc_silent" /\ ~Off(r) /\ Silent(now))
            ~> (Reported(r) \/ Off(r) \/ ~Silent(now))
=============================================================================
