---------------------------- MODULE AlertsProofs -----------------------------
(***************************************************************************)
(* Theorems about Alerts, for any rules, kinds, cooldowns and any number   *)
(* of ticks.  The inductive invariant says what a tick may rely on between *)
(* two critical sections, although rules come and go meanwhile.            *)
(***************************************************************************)
EXTENDS Alerts, TLAPS

USE AlertsAssumption

(* A rule stands at one place of the tick, with a kind that belongs there, *)
(* and a cooldown that was over stays over.                                *)
TickOK ==
    /\ tpc \in {"idle", "rules"} <=> cur = None
    /\ cur \notin todo
    /\ \A r \in rules \cup todo \cup {cur} : r # None => kind[r] # None
    /\ tpc = "latch" => kind[cur] = "cc_silent"
    /\ tpc = "query" => kind[cur] = "quality_spike"
    /\ tpc = "record" => kind[cur] \in {"cc_silent", "quality_spike"}
    /\ tpc \in {"query", "record"} /\ kind[cur] = "quality_spike" => CooldownOk(cur, at)

(* Only a latched rule has fired in this silence. *)
OutageOK == \A r \in Ids : outage[r] = 0 \/ (outage[r] = 1 /\ r \in latched)

(* A rule that fired after it was switched off will not be reached again.  *)
LateOK ==
    \A r \in Ids :
        \/ late[r] = 0
        \/ /\ late[r] = 1 /\ Off(r) /\ kind[r] # None
           /\ r # cur /\ (r \in todo => r \notin enabled)

(* A rule that asks its cooldown has kept it. *)
ShortOK == \A r \in Ids : kind[r] # "cc_silent" => r \notin short

AlertsOK == TypeOK /\ TickOK /\ OutageOK /\ LateOK /\ ShortOK

LEMMA VerdictValues ==
  ASSUME NEW r
  PROVE  /\ Verdict(r) \in {"latch", "query", "rules"}
         /\ Verdict(r) = "latch" => kind[r] = "cc_silent"
         /\ Verdict(r) = "query" => kind[r] = "quality_spike" /\ CooldownOk(r, at)
  BY DEF Verdict

LEMMA StampTime == \A t \in Stamps : t \in Time
  BY DEF Stamps

LEMMA FireType ==
  ASSUME TypeOK, NEW F \in SUBSET Ids, NEW t \in Time, Fire(F, t)
  PROVE  /\ lastFired' \in [Ids -> Time \cup {None}]
         /\ short' \in SUBSET Ids
         /\ \A r \in Ids : r \in F => lastFired'[r] = t
         /\ \A r \in Ids : r \notin F => lastFired'[r] = lastFired[r]
  BY DEF Fire, TypeOK

LEMMA TypeStep ==
  ASSUME TypeOK, TickOK, [Next]_vars
  PROVE  TypeOK'
<1> USE DEF tick, observers, Heard
<1>1. CASE Pass
  BY <1>1 DEF Pass, TypeOK, Time
<1>2. ASSUME NEW r \in Ids, NEW k \in Kinds, NEW on \in BOOLEAN, AddRule(r, k, on)
      PROVE  TypeOK'
  BY <1>2 DEF AddRule, TypeOK
<1>3. ASSUME NEW r \in Ids, NEW on \in BOOLEAN, SetEnabled(r, on)
      PROVE  TypeOK'
  BY <1>3 DEF SetEnabled, TypeOK
<1>4. ASSUME NEW r \in Ids, RemoveRule(r)
      PROVE  TypeOK'
  BY <1>4 DEF RemoveRule, TypeOK
<1>5. ASSUME NEW t \in Stamps, NEW s \in Slots, NEW k \in Keys, Voice(s, k, t)
      PROVE  TypeOK'
  <2> DEFINE hit == {r \in Active("radio_keyup") : k \in Watch[r] /\ lastKey[r][s] # k}
  <2>1. /\ Fire({r \in hit : CooldownOk(r, t)}, t)
        /\ {r \in hit : CooldownOk(r, t)} \in SUBSET Ids
    BY <1>5 DEF Voice, Active, TypeOK
  <2>2. lastFired' \in [Ids -> Time \cup {None}] /\ short' \in SUBSET Ids
    BY <2>1, StampTime, FireType
  <2>3. lastKey' \in [Ids -> [Slots -> Keys \cup {None}]]
    BY <1>5 DEF Voice, TypeOK
  <2>4. slotCall' \in [Slots -> Keys \cup {None}]
    BY <1>5 DEF Voice, TypeOK
  <2> QED
    BY <1>5, <2>2, <2>3, <2>4 DEF Voice, TypeOK
<1>6. ASSUME NEW t \in Stamps, NEW s \in Slots, Encrypted(s, t)
      PROVE  TypeOK'
  <2> DEFINE F == {r \in Active("encryption") :
                     /\ r \in AnyGroup \/ slotCall[s] \in Watch[r]
                     /\ CooldownOk(r, t)}
  <2>1. Fire(F, t) /\ F \in SUBSET Ids
    BY <1>6 DEF Encrypted, Active, TypeOK
  <2>2. lastFired' \in [Ids -> Time \cup {None}] /\ short' \in SUBSET Ids
    BY <2>1, StampTime, FireType
  <2> QED
    BY <1>6, <2>2 DEF Encrypted, TypeOK
<1>7. ASSUME NEW t \in Stamps, Heartbeat(t)
      PROVE  TypeOK'
  BY <1>7, StampTime DEF Heartbeat, TickOK, TypeOK
<1>8. CASE TickStart \/ TickEnd
  BY <1>8 DEF TickStart, TickEnd, TypeOK, Time
<1>9. ASSUME NEW r \in Ids, Look(r)
      PROVE  TypeOK'
  BY <1>9, VerdictValues DEF Look, TypeOK
<1>10. CASE Latch
  <2>1. cur \in Ids
    BY <1>10 DEF Latch, TickOK, TypeOK
  <2>2. outage[cur] + 1 \in Nat
    BY <2>1 DEF TypeOK
  <2>3. outage' \in [Ids -> Nat]
    BY <1>10, <2>2 DEF Latch, TypeOK
  <2>4. latched' \in SUBSET Ids /\ cur' \in Ids \cup {None}
    BY <1>10, <2>1 DEF Latch, TypeOK
  <2> QED
    BY <1>10, <2>3, <2>4 DEF Latch, TypeOK
<1>11. CASE Query
  BY <1>11 DEF Query, TypeOK
<1>12. CASE Record
  <2>1. cur \in Ids
    BY <1>12 DEF Record, TickOK, TypeOK
  <2>2. lastFired' \in [Ids -> Time \cup {None}] /\ short' \in SUBSET Ids
    BY <1>12, <2>1, FireType DEF Record, TypeOK
  <2>3. late[cur] + 1 \in Nat
    BY <2>1 DEF TypeOK
  <2>4. late' \in [Ids -> Nat]
    BY <1>12, <2>3 DEF Record, TypeOK
  <2> QED
    BY <1>12, <2>2, <2>4 DEF Record, TypeOK
<1>13. CASE UNCHANGED vars
  BY <1>13 DEF vars, TypeOK
<1> QED
  BY <1>1, <1>2, <1>3, <1>4, <1>5, <1>6, <1>7, <1>8, <1>9, <1>10, <1>11, <1>12, <1>13
     DEF Next, Tick

LEMMA TickStep ==
  ASSUME TypeOK, TickOK, [Next]_vars
  PROVE  TickOK'
<1> USE DEF tick, observers, Heard
<1>1. CASE Pass
  BY <1>1 DEF Pass, TickOK, CooldownOk
<1>2. ASSUME NEW r \in Ids, NEW k \in Kinds, NEW on \in BOOLEAN, AddRule(r, k, on)
      PROVE  TickOK'
  <2>1. /\ UNCHANGED <<tick, lastFired>> /\ rules' = rules \cup {r}
        /\ kind[r] = None /\ kind' = [kind EXCEPT ![r] = k] /\ k # None
    BY <1>2 DEF AddRule
  <2>2. \A q \in Ids : kind[q] # None => kind'[q] = kind[q]
    BY <2>1 DEF TypeOK
  <2>3. kind'[r] # None
    BY <2>1 DEF TypeOK
  <2>4. \A q \in (rules \cup todo \cup {cur})' : q # None => kind'[q] # None
    BY <2>1, <2>2, <2>3 DEF TickOK, TypeOK
  <2>5. cur # None => kind'[cur] = kind[cur]
    BY <2>2 DEF TickOK, TypeOK
  <2> QED
    BY <2>1, <2>4, <2>5 DEF TickOK, CooldownOk
<1>3. ASSUME NEW r \in Ids, NEW on \in BOOLEAN, SetEnabled(r, on)
      PROVE  TickOK'
  BY <1>3 DEF SetEnabled, TickOK, CooldownOk
<1>4. ASSUME NEW r \in Ids, RemoveRule(r)
      PROVE  TickOK'
  <2>1. UNCHANGED <<tick, kind>> /\ rules' \subseteq rules
    BY <1>4 DEF RemoveRule
  <2>2. CooldownOk(cur, at) => CooldownOk(cur, at)'
    BY <1>4 DEF RemoveRule, CooldownOk, TypeOK
  <2> QED
    BY <2>1, <2>2 DEF TickOK
<1>5. ASSUME NEW t \in Stamps, NEW s \in Slots, NEW k \in Keys, Voice(s, k, t)
      PROVE  TickOK'
  <2> DEFINE hit == {r \in Active("radio_keyup") : k \in Watch[r] /\ lastKey[r][s] # k}
  <2>1. UNCHANGED <<tick, kind, rules>> /\ Fire({r \in hit : CooldownOk(r, t)}, t)
    BY <1>5 DEF Voice
  <2>2. \A r \in Ids : kind[r] = "quality_spike" => lastFired'[r] = lastFired[r]
    BY <2>1 DEF Fire, Active
  <2> QED
    BY <2>1, <2>2 DEF TickOK, CooldownOk, TypeOK
<1>6. ASSUME NEW t \in Stamps, NEW s \in Slots, Encrypted(s, t)
      PROVE  TickOK'
  <2>1. UNCHANGED <<tick, kind, rules>>
    BY <1>6 DEF Encrypted
  <2>2. \A r \in Ids : kind[r] = "quality_spike" => lastFired'[r] = lastFired[r]
    BY <1>6 DEF Encrypted, Fire, Active
  <2> QED
    BY <2>1, <2>2 DEF TickOK, CooldownOk, TypeOK
<1>7. ASSUME NEW t \in Stamps, Heartbeat(t)
      PROVE  TickOK'
  BY <1>7 DEF Heartbeat, TickOK, CooldownOk
<1>8. CASE TickStart \/ TickEnd
  <2>1. cur = None /\ cur' = None /\ todo' \subseteq rules /\ tpc' \in {"idle", "rules"}
    BY <1>8 DEF TickStart, TickEnd, TickOK
  <2> QED
    BY <1>8, <2>1 DEF TickStart, TickEnd, TickOK, TypeOK
<1>9. ASSUME NEW r \in Ids, Look(r)
      PROVE  TickOK'
  <2>1. /\ UNCHANGED <<rules, kind, lastFired, at>> /\ r \in todo /\ todo' = todo \ {r}
        /\ cur' = IF tpc' = "rules" THEN None ELSE r
        /\ tpc' \in {Verdict(r), "rules"}
    BY <1>9 DEF Look
  <2>2. /\ tpc' \in {"latch", "query", "rules"}
        /\ tpc' = "latch" => kind[r] = "cc_silent"
        /\ tpc' = "query" => kind[r] = "quality_spike" /\ CooldownOk(r, at)
    BY <2>1, VerdictValues
  <2>3. CASE tpc' = "rules"
    BY <2>1, <2>3 DEF TickOK, TypeOK
  <2>4. CASE tpc' \in {"latch", "query"}
    <3>1. cur' = r /\ r # None
      BY <2>1, <2>4
    <3>2. CooldownOk(r, at) => CooldownOk(r, at)'
      BY <2>1 DEF CooldownOk
    <3> QED
      BY <2>1, <2>2, <2>4, <3>1, <3>2 DEF TickOK, TypeOK
  <2> QED
    BY <2>2, <2>3, <2>4
<1>10. CASE Latch
  <2>1. UNCHANGED <<rules, kind, lastFired, at, todo>>
    BY <1>10 DEF Latch
  <2>2. CASE tpc' = "rules" /\ cur' = None
    BY <2>1, <2>2 DEF TickOK, TypeOK
  <2>3. CASE tpc' = "record" /\ cur' = cur
    BY <1>10, <2>1, <2>3 DEF Latch, TickOK, TypeOK
  <2> QED
    BY <1>10, <2>2, <2>3 DEF Latch
<1>11. CASE Query
  <2>1. UNCHANGED <<rules, kind, lastFired, at, todo>>
    BY <1>11 DEF Query
  <2>2. CASE tpc' = "rules" /\ cur' = None
    BY <2>1, <2>2 DEF TickOK, TypeOK
  <2>3. CASE tpc' = "record" /\ cur' = cur
    <3>1. tpc = "query"
      BY <1>11 DEF Query
    <3> QED
      BY <2>1, <2>3, <3>1 DEF TickOK, TypeOK, CooldownOk
  <2> QED
    BY <1>11, <2>2, <2>3 DEF Query
<1>12. CASE Record
  BY <1>12 DEF Record, TickOK, TypeOK
<1>13. CASE UNCHANGED vars
  BY <1>13 DEF vars, TickOK, CooldownOk
<1> QED
  BY <1>1, <1>2, <1>3, <1>4, <1>5, <1>6, <1>7, <1>8, <1>9, <1>10, <1>11, <1>12, <1>13
     DEF Next, Tick

LEMMA OutageStep ==
  ASSUME TypeOK, TickOK, OutageOK, [Next]_vars
  PROVE  OutageOK'
<1> USE DEF tick, observers, Heard
<1>1. CASE Latch
  <2>1. CASE UNCHANGED <<latched, outage>>
    BY <2>1 DEF OutageOK
  <2>2. CASE /\ cur \notin latched /\ latched' = latched \cup {cur}
             /\ outage' = [outage EXCEPT ![cur] = @ + 1]
    <3>1. cur \in Ids /\ outage[cur] = 0
      BY <1>1, <2>2 DEF Latch, TickOK, TypeOK, OutageOK
    <3>2. outage'[cur] = 1
      BY <2>2, <3>1 DEF TypeOK
    <3>3. \A r \in Ids : r # cur => outage'[r] = outage[r]
      BY <2>2 DEF TypeOK
    <3> QED
      BY <2>2, <3>2, <3>3 DEF OutageOK
  <2> QED
    BY <1>1, <2>1, <2>2 DEF Latch
<1>2. ASSUME NEW r \in Ids, RemoveRule(r)
      PROVE  OutageOK'
  BY <1>2 DEF RemoveRule, OutageOK, TypeOK
<1>3. ASSUME NEW t \in Stamps, Heartbeat(t)
      PROVE  OutageOK'
  BY <1>3 DEF Heartbeat, OutageOK
<1>4. CASE UNCHANGED <<latched, outage>>
  BY <1>4 DEF OutageOK
<1> QED
  BY <1>1, <1>2, <1>3, <1>4
     DEF Next, Tick, vars, Pass, AddRule, SetEnabled, Voice, Encrypted, TickStart,
         TickEnd, Look, Query, Record

LEMMA LateStep ==
  ASSUME TypeOK, TickOK, LateOK, [Next]_vars
  PROVE  LateOK'
<1> USE DEF tick, observers, Heard
<1>1. ASSUME NEW r \in Ids, NEW k \in Kinds, NEW on \in BOOLEAN, AddRule(r, k, on)
      PROVE  LateOK'
  <2>1. late[r] = 0
    BY <1>1 DEF AddRule, LateOK
  <2>2. /\ UNCHANGED <<late, tick>> /\ rules' = rules \cup {r}
        /\ kind' = [kind EXCEPT ![r] = k]
        /\ \A q \in Ids : q # r => (q \in enabled' <=> q \in enabled)
    BY <1>1 DEF AddRule
  <2>3. \A q \in Ids : q # r => kind'[q] = kind[q] /\ (Off(q)' <=> Off(q))
    BY <2>2 DEF TypeOK, Off
  <2> QED
    BY <2>1, <2>2, <2>3 DEF LateOK
<1>2. ASSUME NEW r \in Ids, NEW on \in BOOLEAN, SetEnabled(r, on)
      PROVE  LateOK'
  BY <1>2 DEF SetEnabled, LateOK, Off, TypeOK
<1>3. ASSUME NEW r \in Ids, RemoveRule(r)
      PROVE  LateOK'
  BY <1>3 DEF RemoveRule, LateOK, Off
<1>4. CASE TickStart
  BY <1>4 DEF TickStart, LateOK, Off
<1>5. ASSUME NEW r \in Ids, Look(r)
      PROVE  LateOK'
  <2>1. /\ UNCHANGED <<late, kind, rules, enabled>> /\ todo' = todo \ {r} /\ r \in todo
        /\ cur' = IF tpc' = "rules" THEN None ELSE r
        /\ r \notin enabled => tpc' = "rules"
    BY <1>5 DEF Look
  <2>2. ASSUME NEW q \in Ids, late[q] # 0
        PROVE  q # cur'
    BY <2>1, <2>2 DEF LateOK
  <2> QED
    BY <2>1, <2>2 DEF LateOK, Off
<1>6. CASE Latch \/ Query
  BY <1>6 DEF Latch, Query, LateOK, Off
<1>7. CASE Record
  <2>1. cur \in Ids /\ late[cur] = 0 /\ kind[cur] # None /\ cur \notin todo
    BY <1>7 DEF Record, TickOK, TypeOK, LateOK
  <2>2. cur' = None /\ UNCHANGED <<rules, enabled, kind, todo>>
    BY <1>7 DEF Record
  <2>3. \A q \in Ids : q # cur => late'[q] = late[q]
    BY <1>7 DEF Record, TypeOK
  <2>4. \/ late'[cur] = 0
        \/ late'[cur] = 1 /\ Off(cur)
    BY <1>7, <2>1 DEF Record, TypeOK
  <2> QED
    BY <2>1, <2>2, <2>3, <2>4 DEF LateOK, Off
<1>8. CASE UNCHANGED <<late, rules, enabled, kind, todo, cur>>
  BY <1>8 DEF LateOK, Off
<1> QED
  BY <1>1, <1>2, <1>3, <1>4, <1>5, <1>6, <1>7, <1>8
     DEF Next, Tick, vars, Pass, Voice, Encrypted, Heartbeat, TickEnd

LEMMA ShortStep ==
  ASSUME TypeOK, TickOK, ShortOK, [Next]_vars
  PROVE  ShortOK'
<1> USE DEF tick, observers, Heard
<1>1. ASSUME NEW F \in SUBSET Ids, NEW t \in Time, Fire(F, t), kind' = kind,
             \A r \in F : kind[r] # "cc_silent" => CooldownOk(r, t)
      PROVE  ShortOK'
  <2> SUFFICES ASSUME NEW r \in Ids, kind[r] # "cc_silent", r \in short'
               PROVE  FALSE
    BY <1>1 DEF ShortOK
  <2>1. r \in F /\ lastFired[r] # None /\ t < lastFired[r] + Cooldown[r]
    BY <1>1 DEF Fire, ShortOK
  <2>2. lastFired[r] \in Time /\ Cooldown[r] \in Nat
    BY <2>1 DEF TypeOK
  <2> QED
    BY <1>1, <2>1, <2>2 DEF CooldownOk, Time
<1>2. ASSUME NEW r \in Ids, NEW k \in Kinds, NEW on \in BOOLEAN, AddRule(r, k, on)
      PROVE  ShortOK'
  <2>1. r \notin short
    BY <1>2 DEF AddRule, Kinds, ShortOK
  <2>2. \A q \in Ids : q # r => kind'[q] = kind[q]
    BY <1>2 DEF AddRule, TypeOK
  <2> QED
    BY <1>2, <2>1, <2>2 DEF AddRule, ShortOK
<1>3. ASSUME NEW r \in Ids, RemoveRule(r)
      PROVE  ShortOK'
  BY <1>3 DEF RemoveRule, ShortOK
<1>4. ASSUME NEW t \in Stamps, NEW s \in Slots, NEW k \in Keys, Voice(s, k, t)
      PROVE  ShortOK'
  <2> DEFINE hit == {r \in Active("radio_keyup") : k \in Watch[r] /\ lastKey[r][s] # k}
             F == {r \in hit : CooldownOk(r, t)}
  <2>1. Fire(F, t) /\ kind' = kind
    BY <1>4 DEF Voice
  <2>2. F \in SUBSET Ids /\ \A r \in F : CooldownOk(r, t)
    BY DEF Active, TypeOK
  <2> HIDE DEF F
  <2> QED
    BY <2>1, <2>2, <1>1, StampTime
<1>5. ASSUME NEW t \in Stamps, NEW s \in Slots, Encrypted(s, t)
      PROVE  ShortOK'
  <2> DEFINE F == {r \in Active("encryption") :
                     /\ r \in AnyGroup \/ slotCall[s] \in Watch[r]
                     /\ CooldownOk(r, t)}
  <2>1. Fire(F, t) /\ kind' = kind
    BY <1>5 DEF Encrypted
  <2>2. F \in SUBSET Ids /\ \A r \in F : CooldownOk(r, t)
    BY DEF Active, TypeOK
  <2> HIDE DEF F
  <2> QED
    BY <2>1, <2>2, <1>1, StampTime
<1>6. CASE Record
  <2>1. Fire({cur}, at) /\ at \in Time /\ cur \in Ids /\ kind' = kind
    BY <1>6 DEF Record, TickOK, TypeOK
  <2>2. kind[cur] # "cc_silent" => CooldownOk(cur, at)
    BY <1>6 DEF Record, TickOK
  <2> QED
    BY <2>1, <2>2, <1>1
<1>7. CASE UNCHANGED <<kind, short>>
  BY <1>7 DEF ShortOK
<1> QED
  BY <1>2, <1>3, <1>4, <1>5, <1>6, <1>7
     DEF Next, Tick, vars, Pass, SetEnabled, Heartbeat, TickStart, TickEnd,
         Look, Latch, Query

LEMMA InitOK == Init => AlertsOK
<1> SUFFICES ASSUME Init PROVE AlertsOK
  OBVIOUS
<1> USE DEF Init
<1>1. TypeOK
  BY DEF TypeOK, Time
<1>2. TickOK /\ OutageOK /\ LateOK /\ ShortOK
  BY DEF TickOK, OutageOK, LateOK, ShortOK
<1> QED
  BY <1>1, <1>2 DEF AlertsOK

LEMMA NextOK == AlertsOK /\ [Next]_vars => AlertsOK'
<1> SUFFICES ASSUME AlertsOK, [Next]_vars PROVE AlertsOK'
  OBVIOUS
<1>1. TypeOK' /\ TickOK'
  BY TypeStep, TickStep DEF AlertsOK
<1>2. OutageOK' /\ LateOK' /\ ShortOK'
  BY OutageStep, LateStep, ShortStep DEF AlertsOK
<1> QED
  BY <1>1, <1>2 DEF AlertsOK

(* What ticks and events rely on holds at all times. *)
THEOREM AlertsInvariant == Spec => []AlertsOK
  BY InitOK, NextOK, PTL DEF Spec

(* Types. *)
THEOREM TypeInvariant == Spec => []TypeOK
<1>1. AlertsOK => TypeOK
  BY DEF AlertsOK
<1> QED
  BY <1>1, AlertsInvariant, PTL

(* A rule switched off or deleted fires once more at most, from the tick   *)
(* that was at work.                                                       *)
THEOREM LateInvariant == Spec => []AtMostOneLate
<1>1. ASSUME AlertsOK PROVE AtMostOneLate
  <2>1. \A r \in Ids : late[r] = 0 \/ late[r] = 1
    BY <1>1, Zenon DEF AlertsOK, LateOK
  <2>2. ASSUME NEW r \in Ids PROVE late[r] <= 1
    BY <2>1
  <2> QED
    BY <2>2, Zenon DEF AtMostOneLate
<1> QED
  BY <1>1, AlertsInvariant, PTL

(* No alert comes within its rule's cooldown of the one before, although a *)
(* tick checks the cooldown in one critical section and writes the alert   *)
(* in another; a cc_silent rule decides to fire once between heartbeats.   *)
THEOREM FloodControl == Spec => []NoFlood
<1>1. ASSUME AlertsOK PROVE NoFlood
  <2>1. \A r \in Ids : outage[r] = 0 \/ outage[r] = 1
    BY <1>1, Zenon DEF AlertsOK, OutageOK
  <2>2. ASSUME NEW r \in Ids PROVE outage[r] <= 1
    BY <2>1
  <2>3. \A r \in Ids : kind[r] # "cc_silent" => r \notin short
    BY <1>1, Zenon DEF AlertsOK, ShortOK
  <2> QED
    BY <2>2, <2>3, Zenon DEF NoFlood
<1> QED
  BY <1>1, AlertsInvariant, PTL

-----------------------------------------------------------------------------
(* One tick and one silence *)

(* A rule in force that has not latched is still to be looked at, or has   *)
(* been looked at and is about to latch.                                   *)
OnItsWay(r) ==
    tpc # "idle" /\ kind[r] = "cc_silent" /\ ~Off(r) /\ Silent(at)
        => r \in latched \/ r \in todo \/ (tpc = "latch" /\ cur = r)

LEMMA OnItsWayStep ==
  ASSUME NEW r \in Ids, AlertsOK, OnItsWay(r), [Next]_vars,
         tpc # "idle" => /\ Off(r) => Off(r)'
                         /\ lastCc' = lastCc
                         /\ r \in latched => r \in latched'
  PROVE  OnItsWay(r)'
<1> USE DEF tick, observers, Heard
<1> SUFFICES ASSUME tpc' # "idle", kind'[r] = "cc_silent", ~Off(r)', Silent(at)'
             PROVE  r \in latched' \/ r \in todo' \/ (tpc' = "latch" /\ cur' = r)
  BY DEF OnItsWay
<1>1. CASE TickStart
  BY <1>1 DEF TickStart, Off
<1>2. CASE tpc # "idle" /\ ~TickStart
  <2>1. at' = at \/ TickEnd
    BY <1>2 DEF Next, Tick, Pass, AddRule, SetEnabled, RemoveRule, Voice, Encrypted,
                Heartbeat, Look, Latch, Query, Record, vars
  <2>2. at' = at
    BY <2>1 DEF TickEnd
  <2>3. ~Off(r) /\ Silent(at)
    BY <1>2, <2>2 DEF Silent
  <2>4. kind[r] = "cc_silent"
    <3>1. ASSUME NEW q \in Ids, NEW k \in Kinds, NEW on \in BOOLEAN, AddRule(q, k, on)
          PROVE  kind[r] = "cc_silent"
      BY <3>1, <2>3 DEF AddRule, Off, AlertsOK, TypeOK, TickOK
    <3>2. CASE kind' = kind
      BY <3>2
    <3> QED
      BY <3>1, <3>2 DEF Next, Tick, Pass, SetEnabled, RemoveRule, Voice, Encrypted,
                        Heartbeat, TickStart, Look, Latch, Query, Record, TickEnd, vars
  <2>5. r \in latched \/ r \in todo \/ (tpc = "latch" /\ cur = r)
    BY <1>2, <2>3, <2>4 DEF OnItsWay
  <2>6. CASE r \in latched
    BY <1>2, <2>6
  <2>7. CASE r \notin latched /\ r \in todo
    <3>1. ASSUME NEW q \in Ids, Look(q)
          PROVE  r \in todo' \/ (tpc' = "latch" /\ cur' = r)
      BY <3>1, <2>3, <2>4, <2>7 DEF Look, Verdict, Off
    <3>2. CASE todo' = todo
      BY <2>7, <3>2
    <3> QED
      BY <1>2, <3>1, <3>2 DEF Next, Tick, Pass, AddRule, SetEnabled, RemoveRule, Voice,
                              Encrypted, Heartbeat, Latch, Query, Record, TickEnd, vars
  <2>8. CASE r \notin latched /\ tpc = "latch" /\ cur = r
    <3>1. CASE Latch
      BY <2>8, <3>1 DEF Latch
    <3>2. CASE tpc' = tpc /\ cur' = cur
      BY <2>8, <3>2
    <3> QED
      BY <1>2, <2>8, <3>1, <3>2 DEF Next, Tick, Pass, AddRule, SetEnabled, RemoveRule,
                  Voice, Encrypted, Heartbeat, Look, Query, Record, TickEnd, vars
  <2> QED
    BY <2>5, <2>6, <2>7, <2>8
<1>3. CASE tpc = "idle" /\ ~TickStart
  BY <1>3 DEF Next, Tick, Pass, AddRule, SetEnabled, RemoveRule, Voice, Encrypted,
              Heartbeat, Look, Latch, Query, Record, TickEnd, vars
<1> QED
  BY <1>1, <1>2, <1>3

(* A tick misses a silence only through a heartbeat or a change of the rule*)
(* that falls into it, for any rules and any interleaving of the rest.     *)
THEOREM TickNoticesSilence ==
  ASSUME NEW CONSTANT r \in Ids
  PROVE  Spec /\ LeftAlone(r) => TickNotices(r)
<1>1. Init => OnItsWay(r)
  BY DEF Init, OnItsWay
<1>2. AlertsOK /\ OnItsWay(r) /\ [Next]_vars
      /\ [tpc # "idle" => /\ Off(r) => Off(r)'
                          /\ lastCc' = lastCc
                          /\ r \in latched => r \in latched']_vars
      => OnItsWay(r)'
  <2>1. UNCHANGED vars => (Off(r) => Off(r)') /\ lastCc' = lastCc
                          /\ (r \in latched => r \in latched')
    BY DEF vars, Off
  <2> QED
    BY <2>1, OnItsWayStep
<1>3. OnItsWay(r) => [TickEnd /\ kind[r] = "cc_silent" /\ ~Off(r) /\ Silent(at)
                        => r \in latched]_vars
  BY DEF OnItsWay, TickEnd
<1> QED
  BY <1>1, <1>2, <1>3, AlertsInvariant, PTL DEF Spec, LeftAlone, TickNotices
=============================================================================
