-------------------------- MODULE MultichannelProofs -------------------------
(***************************************************************************)
(* Theorems about Multichannel, for any channels, length of a day, hang    *)
(* time and number of days.  A parser's clock is that of its last sync     *)
(* line, possibly some days behind; the strengthening says so, and that    *)
(* the scheduler knows no activity of the future.                          *)
(***************************************************************************)
EXTENDS Multichannel, TLAPS

USE ParserAssumption, SchedulerAssumption

(* The clock has the second of the last line, and its day or an earlier    *)
(* one; the next day only if the first line was misdated.                  *)
ClockOf(ch) ==
    /\ (clock[ch] = None) <=> (printed[ch] = None)
    /\ clock[ch] # None =>
           /\ clock[ch].sec = printed[ch].sec
           /\ Leq(printed[ch], now)
           /\ \/ clock[ch].day <= printed[ch].day
              \/ ch \in misdated /\ clock[ch].day <= printed[ch].day + 1
ClockOK == \A ch \in Channels : ClockOf(ch)

(* No activity is dated in the future. *)
LastOK ==
    misdated = {} => \A c \in Channels : last[c] = None \/ Leq(last[c], now)

IInv == TypeOK /\ ClockOK /\ LastOK

-----------------------------------------------------------------------------
(* Seconds, on the instants of any day length. *)

LEMMA NextDay == \A d \in Nat : d >= 1 => d * DayLen >= DayLen
  OBVIOUS

(* A later instant is not fewer seconds after a given one. *)
LEMMA SecondsMonotone ==
  ASSUME NEW a \in Instants, NEW b \in Instants, NEW c \in Instants, Leq(a, b)
  PROVE  Seconds(a, c) <= Seconds(b, c)
<1>1. /\ a.day \in Nat /\ b.day \in Nat /\ c.day \in Nat
      /\ a.sec \in 0 .. DayLen - 1 /\ b.sec \in 0 .. DayLen - 1 /\ c.sec \in 0 .. DayLen - 1
  BY DEF Instants
<1>2. (b.day - c.day) * DayLen = (a.day - c.day) * DayLen + (b.day - a.day) * DayLen
  BY <1>1
<1>3. CASE a.day = b.day
  BY <1>1, <1>3 DEF Leq, Seconds
<1>4. CASE a.day < b.day
  <2>1. (b.day - a.day) * DayLen >= DayLen
    BY <1>1, <1>4, NextDay
  <2> QED BY <1>1, <1>2, <2>1 DEF Seconds
<1> QED BY <1>3, <1>4 DEF Leq

(* Between two instants less than a day apart lies midnight exactly if the *)
(* time of day is less at the second.                                      *)
LEMMA MidnightsCounted ==
  ASSUME NEW a \in Instants, NEW b \in Instants, Leq(a, b), Seconds(b, a) < DayLen
  PROVE  b.day - a.day = IF b.sec < a.sec THEN 1 ELSE 0
<1> DEFINE d == b.day - a.day
<1>1. /\ a.sec \in 0 .. DayLen - 1 /\ b.sec \in 0 .. DayLen - 1
      /\ d \in Nat /\ (d = 0 => a.sec <= b.sec)
      /\ d * DayLen + (b.sec - a.sec) < DayLen
  BY DEF Instants, Leq, Seconds
<1> HIDE DEF d
<1>2. d < 2
  <2> SUFFICES ASSUME d >= 2 PROVE FALSE
    BY <1>1
  <2>1. (d - 1) * DayLen >= DayLen
    BY <1>1, NextDay
  <2>2. d * DayLen = (d - 1) * DayLen + DayLen
    BY <1>1
  <2> QED BY <1>1, <2>1, <2>2
<1>3. CASE d = 0
  BY <1>1, <1>3 DEF d
<1>4. CASE d = 1
  BY <1>1, <1>4 DEF d
<1> QED BY <1>1, <1>2, <1>3, <1>4

LEMMA LeqTransitive ==
  ASSUME NEW a \in Instants, NEW b \in Instants, NEW c \in Instants, Leq(a, b), Leq(b, c)
  PROVE  Leq(a, c)
  BY DEF Leq, Instants

LEMMA LaterType ==
  ASSUME NEW a \in Instants
  PROVE  /\ Later(a) = [day |-> Later(a).day, sec |-> Later(a).sec]
         /\ Later(a).day \in Nat /\ Later(a).sec \in 0 .. DayLen - 1
         /\ Leq(a, Later(a))
  BY DEF Later, Leq, Instants

-----------------------------------------------------------------------------
(* The clock a sync line leaves. *)
LEMMA SyncStep ==
  ASSUME IInv, NEW ch \in Channels, NEW t, Sync(ch, t)
  PROVE  /\ clock' \in [Channels -> Instants \cup {None}]
         /\ printed' \in [Channels -> Instants \cup {None}]
         /\ misdated' \subseteq Channels /\ misdated \subseteq misdated'
         /\ ClockOK'
<1>1. t \in Instants /\ Leq(t, now) /\ (t.day = now.day \/ t.day + 1 = now.day)
      /\ (printed[ch] = None \/ Leq(printed[ch], t))
  BY DEF Sync, Printed, Later, Leq, IInv, TypeOK, ParserTypeOK, Instants
<1>2. now' = now /\ now \in Instants /\ now.day <= LastDay
  BY DEF Sync, IInv, TypeOK, ParserTypeOK
<1>3. misdated' \subseteq Channels /\ misdated \subseteq misdated'
  BY DEF Sync, IInv, TypeOK, ParserTypeOK
<1>4. printed' \in [Channels -> Instants \cup {None}] /\ printed'[ch] = t
  BY <1>1 DEF Sync, IInv, TypeOK, ParserTypeOK
<1>5. clock' = [clock EXCEPT ![ch] = Dated(ch, t)]
  BY DEF Sync
<1>6. /\ Dated(ch, t) \in [day : Nat, sec : 0 .. DayLen - 1]
      /\ Dated(ch, t).sec = t.sec
      /\ \/ Dated(ch, t).day <= t.day
         \/ ch \in misdated' /\ Dated(ch, t).day <= t.day + 1
  <2>1. CASE clock[ch] = None
    BY <1>1, <1>2, <2>1 DEF Dated, Sync, Instants
  <2>2. CASE clock[ch] # None
    <3>1. clock[ch] \in Instants /\ printed[ch] \in Instants
      BY <2>2 DEF IInv, TypeOK, ParserTypeOK, ClockOK, ClockOf
    <3>2. /\ clock[ch].sec = printed[ch].sec
          /\ \/ clock[ch].day <= printed[ch].day
             \/ ch \in misdated' /\ clock[ch].day <= printed[ch].day + 1
      BY <2>2, <1>3 DEF IInv, ClockOK, ClockOf
    <3>3. Leq(printed[ch], t)
      BY <1>1, <3>1, ParserAssumption
    <3> QED BY <1>1, <2>2, <3>1, <3>2, <3>3 DEF Dated, Leq, Instants
  <2> QED BY <2>1, <2>2
<1>7. Dated(ch, t) \in Instants
  BY <1>1, <1>2, <1>6 DEF Instants, Leq
<1>8. clock' \in [Channels -> Instants \cup {None}] /\ clock'[ch] = Dated(ch, t)
  BY <1>5, <1>7 DEF IInv, TypeOK, ParserTypeOK
<1>9. ClockOK'
  <2> SUFFICES ASSUME NEW k \in Channels PROVE ClockOf(k)'
    BY DEF ClockOK
  <2>1. CASE k = ch
    BY <1>1, <1>2, <1>4, <1>6, <1>7, <1>8, <2>1, ParserAssumption DEF ClockOf
  <2>2. CASE k # ch
    <3>1. clock'[k] = clock[k] /\ printed'[k] = printed[k]
      BY <1>5, <2>2 DEF Sync, IInv, TypeOK, ParserTypeOK
    <3> QED BY <1>2, <1>3, <3>1 DEF IInv, ClockOK, ClockOf
  <2> QED BY <2>1, <2>2
<1> QED BY <1>3, <1>4, <1>8, <1>9

(* An event is dated in the present, or in the past. *)
LEMMA StampIsPast ==
  ASSUME IInv, NEW ch \in Channels
  PROVE  /\ Stamp(ch) \in Instants
         /\ misdated = {} => Leq(Stamp(ch), now)
<1>1. now \in Instants /\ Leq(now, now)
  BY DEF IInv, TypeOK, ParserTypeOK, Leq, Instants
<1>2. CASE clock[ch] = None
  BY <1>1, <1>2 DEF Stamp
<1>3. CASE clock[ch] # None
  <2>1. clock[ch] \in Instants /\ printed[ch] \in Instants /\ ClockOf(ch)
    BY <1>3 DEF IInv, TypeOK, ParserTypeOK, ClockOK, ClockOf
  <2>2. misdated = {} => Leq(clock[ch], now)
    BY <1>1, <1>3, <2>1 DEF ClockOf, Leq, Instants
  <2> QED BY <1>3, <2>1, <2>2 DEF Stamp
<1> QED BY <1>2, <1>3

(* Only a sync line and the time change what a parser knows of the time.   *)
LEMMA OnlyLinesDate ==
  ASSUME [Next]_vars, ~UNCHANGED parser
  PROVE  Pass \/ \E ch \in Channels : \E t \in Printed(ch) : Sync(ch, t)
<1>1. ASSUME NEW ch \in Channels, Lines(ch), ~SyncLine(ch) PROVE UNCHANGED parser
  BY <1>1 DEF Lines, Traffic, Grant, BadSync, SourceEnds, RunnerEnds, RunnerDone
<1>2. ASSUME NEW ch \in Channels, Client(ch) PROVE UNCHANGED parser
  BY <1>2 DEF Client
<1>3. CASE Stop \/ Watch \/ Block \/ PumpEnds \/ Gather \/ Teardown \/ Leave \/ UNCHANGED vars
  BY <1>3 DEF Stop, Watch, Block, PumpEnds, Gather, Teardown, Leave, vars
<1> QED BY <1>1, <1>2, <1>3 DEF Next, SyncLine

LEMMA BumpStep ==
  ASSUME IInv, NEW C, NEW ch \in Channels, Bump(C, Stamp(ch)),
         UNCHANGED parser
  PROVE  last' \in [Channels -> Instants \cup {None}] /\ LastOK'
<1>1. Stamp(ch) \in Instants /\ (misdated = {} => Leq(Stamp(ch), now))
  BY StampIsPast
<1>2. \A c \in Channels : last'[c] = Stamp(ch) \/ last'[c] = last[c]
  BY DEF Bump
<1>3. last' \in [Channels -> Instants \cup {None}]
  BY <1>1 DEF Bump, IInv, TypeOK
<1>4. LastOK'
  BY <1>1, <1>2 DEF LastOK, IInv, parser
<1> QED BY <1>3, <1>4

-----------------------------------------------------------------------------
LEMMA InitOK == Init => IInv
<1> SUFFICES ASSUME Init PROVE IInv
  OBVIOUS
<1>1. now \in Instants /\ now.day <= LastDay
  BY DEF Init, ParserInit
<1>2. TypeOK
  BY <1>1 DEF Init, ParserInit, SchedulerInit, TypeOK, ParserTypeOK
<1>3. ClockOK /\ LastOK
  BY DEF Init, ParserInit, SchedulerInit, ClockOK, ClockOf, LastOK
<1> QED BY <1>2, <1>3 DEF IInv

(* What only the steps of the clocks and of the scheduler disturb. *)
LEMMA QuietStep ==
  ASSUME IInv, UNCHANGED <<parser, last>>
  PROVE  ParserTypeOK' /\ ClockOK' /\ LastOK' /\ last' \in [Channels -> Instants \cup {None}]
  BY DEF IInv, TypeOK, ParserTypeOK, ClockOK, ClockOf, LastOK, parser

LifeOK ==
    /\ stop \in BOOLEAN /\ told \in BOOLEAN
    /\ runner \in [Channels -> {"run", "done", "failed"}]
    /\ pump \in {"read", "done"} /\ conn \subseteq Channels /\ fed \subseteq Channels
    /\ main \in {"gather", "closing", "leaving", "exited"}

LEMMA PassStep ==
  ASSUME IInv, Pass, last' = last
  PROVE  ParserTypeOK' /\ ClockOK' /\ LastOK'
<1>1. now \in Instants /\ now' = Later(now)
  BY DEF Pass, IInv, TypeOK, ParserTypeOK
<1>2. Leq(now, now') /\ now' \in Instants /\ now'.day <= LastDay
  BY <1>1, LaterType DEF Pass, Instants, Leq
<1>3. ParserTypeOK'
  BY <1>2 DEF Pass, IInv, TypeOK, ParserTypeOK
<1>4. ClockOK'
  <2> SUFFICES ASSUME NEW k \in Channels PROVE ClockOf(k)'
    BY DEF ClockOK
  <2>1. ClockOf(k) /\ clock' = clock /\ printed' = printed /\ misdated' = misdated
    BY DEF IInv, ClockOK, Pass
  <2>2. printed[k] \in Instants \cup {None}
    BY DEF IInv, TypeOK, ParserTypeOK
  <2> QED BY <1>1, <1>2, <2>1, <2>2, LeqTransitive DEF ClockOf
<1>5. LastOK'
  <2> SUFFICES ASSUME misdated = {}, NEW c \in Channels PROVE last[c] = None \/ Leq(last[c], now')
    BY DEF LastOK, Pass
  <2>1. last[c] = None \/ (last[c] \in Instants /\ Leq(last[c], now))
    BY DEF IInv, TypeOK, LastOK
  <2> QED BY <1>1, <1>2, <2>1, LeqTransitive
<1> QED BY <1>3, <1>4, <1>5

LEMMA NextOK ==
  ASSUME IInv, [Next]_vars
  PROVE  IInv'
<1>1. LifeOK
  BY DEF IInv, TypeOK, LifeOK
<1>2. CASE UNCHANGED vars
  BY <1>1, <1>2, QuietStep DEF vars, life, IInv, TypeOK, LifeOK
<1>3. CASE Pass /\ UNCHANGED <<last, life>>
  BY <1>1, <1>3, PassStep DEF life, IInv, TypeOK, LifeOK
<1>4. ASSUME NEW ch \in Channels, SyncLine(ch)
      PROVE  IInv'
  <2> PICK t \in Printed(ch) : Sync(ch, t)
    BY <1>4 DEF SyncLine
  <2>1. ClockOK' /\ misdated \subseteq misdated' /\ ParserTypeOK'
    BY SyncStep DEF Sync, IInv, TypeOK, ParserTypeOK
  <2>2. LastOK'
    BY <1>4, <2>1 DEF IInv, LastOK, SyncLine, Sync
  <2> QED BY <1>1, <1>4, <2>1, <2>2 DEF SyncLine, life, IInv, TypeOK, LifeOK
<1>5. ASSUME NEW ch \in Channels, NEW C, Bump(C, Stamp(ch)), UNCHANGED <<parser, life>>
      PROVE  IInv'
  <2>1. last' \in [Channels -> Instants \cup {None}] /\ LastOK'
    BY <1>5, BumpStep
  <2>2. ParserTypeOK' /\ ClockOK'
    BY <1>5 DEF IInv, TypeOK, ParserTypeOK, ClockOK, ClockOf, parser
  <2> QED BY <1>1, <1>5, <2>1, <2>2 DEF life, IInv, TypeOK, LifeOK
<1>6. ASSUME UNCHANGED <<parser, last>>, LifeOK'
      PROVE  IInv'
  BY <1>6, QuietStep DEF IInv, TypeOK, LifeOK
<1>7. ASSUME NEW ch \in Channels, BadSync(ch) \/ SourceEnds(ch) \/ RunnerEnds(ch) \/ Client(ch)
      PROVE  UNCHANGED <<parser, last>> /\ LifeOK'
  BY <1>1, <1>7 DEF BadSync, SourceEnds, RunnerEnds, RunnerDone, Client, LifeOK
<1>8. ASSUME Stop \/ Watch \/ Block \/ PumpEnds \/ Gather \/ Teardown \/ Leave
      PROVE  UNCHANGED <<parser, last>> /\ LifeOK'
  BY <1>1, <1>8 DEF Stop, Watch, Block, PumpEnds, Gather, Teardown, CloseServers, Leave, LifeOK
<1> QED
  BY <1>2, <1>3, <1>4, <1>5, <1>6, <1>7, <1>8
  DEF Next, Lines, Traffic, Grant

-----------------------------------------------------------------------------
(* Types of the parsers, the scheduler and the run, for any channels. *)
THEOREM TypeInvariant == Spec => []TypeOK
<1>1. IInv => TypeOK
  BY DEF IInv
<1> QED BY InitOK, NextOK, <1>1, PTL DEF Spec

(* No parser is ahead of the wall clock, whatever the length of a day and  *)
(* however long the run, but for the day of a misdated first line.         *)
THEOREM ClockInvariant == Spec => []ClockNeverAhead
<1>1. IInv => ClockNeverAhead
  <2> SUFFICES ASSUME IInv, NEW ch \in Channels, clock[ch] # None
               PROVE  \/ Leq(clock[ch], now)
                      \/ ch \in misdated /\ Leq([clock[ch] EXCEPT !.day = @ - 1], now)
    BY DEF ClockNeverAhead
  <2>1. clock[ch] \in Instants /\ printed[ch] \in Instants /\ ClockOf(ch) /\ now \in Instants
    BY DEF IInv, TypeOK, ParserTypeOK, ClockOK, ClockOf
  <2> QED BY <2>1 DEF ClockOf, Leq, Instants
<1> QED BY InitOK, NextOK, <1>1, PTL DEF Spec

(* A parser keeps count of the days between any two sync lines less than a *)
(* day apart, for any length of a day.                                     *)
THEOREM DaysInStep == Spec => DaysKeepInStep
<1> DEFINE Step == \A ch \in Channels :
                      printed[ch] # None /\ Seconds(printed'[ch], printed[ch]) < DayLen
                          => clock'[ch].day - clock[ch].day = printed'[ch].day - printed[ch].day
<1>1. IInv /\ [Next]_vars => [Step]_parser
  <2> SUFFICES ASSUME IInv, [Next]_vars, ~UNCHANGED parser PROVE Step
    OBVIOUS
  <2>1. CASE Pass
    <3>1. UNCHANGED <<clock, printed>>
      BY <2>1 DEF Pass
    <3>2. \A ch \in Channels : printed[ch] # None => clock[ch] \in Instants /\ printed[ch] \in Instants
      BY DEF IInv, TypeOK, ParserTypeOK, ClockOK, ClockOf
    <3> QED BY <3>1, <3>2 DEF Instants
  <2>2. ASSUME NEW ch \in Channels, NEW t \in Printed(ch), Sync(ch, t) PROVE Step
    <3> SUFFICES ASSUME NEW k \in Channels, printed[k] # None,
                        Seconds(printed'[k], printed[k]) < DayLen
                 PROVE  clock'[k].day - clock[k].day = printed'[k].day - printed[k].day
      OBVIOUS
    <3>1. /\ clock[k] # None /\ clock[k] \in Instants /\ printed[k] \in Instants
          /\ clock[k].sec = printed[k].sec
      BY DEF IInv, TypeOK, ParserTypeOK, ClockOK, ClockOf
    <3>2. /\ clock' = [clock EXCEPT ![ch] = Dated(ch, t)]
          /\ printed' = [printed EXCEPT ![ch] = t]
      BY <2>2 DEF Sync
    <3>3. CASE k # ch
      <4>1. clock'[k] = clock[k] /\ printed'[k] = printed[k]
        BY <3>2, <3>3
      <4> QED BY <3>1, <4>1 DEF Instants
    <3>4. CASE k = ch
      <4>1. clock'[k] = Dated(k, t) /\ printed'[k] = t
        BY <3>2, <3>4 DEF IInv, TypeOK, ParserTypeOK
      <4>2. t \in Instants /\ Leq(printed[k], t)
        BY <2>2, <3>1, <3>4 DEF Printed
      <4>3. t.day - printed[k].day = IF t.sec < printed[k].sec THEN 1 ELSE 0
        BY <3>1, <4>1, <4>2, MidnightsCounted
      <4>4. Dated(k, t).day = IF t.sec < printed[k].sec THEN clock[k].day + 1 ELSE clock[k].day
        BY <3>1 DEF Dated
      <4> QED BY <3>1, <4>1, <4>2, <4>3, <4>4 DEF Instants
    <3> QED BY <3>3, <3>4
  <2>3. Pass \/ \E ch \in Channels : \E t \in Printed(ch) : Sync(ch, t)
    BY OnlyLinesDate
  <2> QED BY <2>1, <2>2, <2>3
<1>2. Spec => [][Step]_parser
  BY InitOK, NextOK, <1>1, PTL DEF Spec
<1> QED BY <1>2 DEF DaysKeepInStep

(* A connected decoder whose channel had traffic within the hang time gets *)
(* every block of audio.                                                   *)
THEOREM AudioForTraffic == Spec => RecentTrafficIsFed
<1> DEFINE Step == Block => \A c \in conn : \/ misdated # {} \/ last[c] = None
                                            \/ Seconds(now, last[c]) > Hang
                                            \/ c \in fed'
<1>1. IInv /\ [Next]_vars => [Step]_vars
  <2> SUFFICES ASSUME IInv, Block, NEW c \in conn, misdated = {}, last[c] # None,
                      ~(Seconds(now, last[c]) > Hang)
               PROVE  c \in fed'
    OBVIOUS
  <2>1. c \in Channels /\ last[c] \in Instants /\ now \in Instants
    BY DEF IInv, TypeOK, ParserTypeOK
  <2>2. ASSUME NEW r \in Channels, last[r] # None
        PROVE  Seconds(last[r], last[c]) <= Hang
    <3>1. last[r] \in Instants /\ Leq(last[r], now)
      BY <2>2 DEF IInv, TypeOK, LastOK
    <3>2. Seconds(last[r], last[c]) <= Seconds(now, last[c])
      BY <2>1, <3>1, SecondsMonotone
    <3>3. Seconds(last[r], last[c]) \in Int /\ Seconds(now, last[c]) \in Int
      BY <2>1, <3>1 DEF Seconds, Instants
    <3> QED BY <3>2, <3>3
  <2>3. c \in Active
    BY <2>1, <2>2 DEF Active
  <2> QED BY <2>3 DEF Block
<1>2. Spec => [][Step]_vars
  BY InitOK, NextOK, <1>1, PTL DEF Spec
<1> QED BY <1>2 DEF RecentTrafficIsFed
=============================================================================
