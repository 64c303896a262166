------------------------------- MODULE Parser --------------------------------
(***************************************************************************)
(* DSDLogParser (backend/parser.py), one per channel.  Only sync lines bear*)
(* a time, and that has no date: the parser keeps the last one, counts the *)
(* days itself, and dates every event with it.                             *)
(*                                                                         *)
(* Abstracted: an instant is a day and a second of it.  A sync line is read*)
(* at most one second after it was printed, and the printing clock does    *)
(* not go back.  Left out: the radio kept for the position of an LRRP      *)
(* packet.                                                                 *)
(***************************************************************************)
EXTENDS Integers

CONSTANTS
    Channels,
    DayLen,        \* seconds of a day
    LastDay,       \* bound: the last instant is in this day
    LastSec,       \* bound: and at this second of it
    None           \* no instant

Instants == [day : 0 .. LastDay + 1, sec : 0 .. DayLen - 1]

ASSUME ParserAssumption ==
    /\ DayLen \in Nat \ {0} /\ LastDay \in Nat /\ LastSec \in 0 .. DayLen - 1
    /\ None \notin Instants

VARIABLES
    now,       \* the wall clock
    clock,     \* _last_timestamp of each parser
    printed,   \* observer: when the last sync line was printed
    misdated   \* observer: parsers whose first line came from the day before
parser == <<now, clock, printed, misdated>>

Leq(a, b) == a.day < b.day \/ (a.day = b.day /\ a.sec <= b.sec)
Later(a) == IF a.sec + 1 < DayLen THEN [a EXCEPT !.sec = @ + 1]
            ELSE [day |-> a.day + 1, sec |-> 0]
Seconds(a, b) == (a.day - b.day) * DayLen + (a.sec - b.sec)

(* When a sync line that is read now can have been printed. *)
Printed(ch) ==
    {t \in Instants : /\ t = now \/ Later(t) = now
                      /\ printed[ch] = None \/ Leq(printed[ch], t)}

(* A seeded slip: a second sync line in the same second starts a new day. *)
DatedEagerly(ch, t) ==
    [day |-> IF clock[ch] = None THEN now.day
             ELSE IF t.sec <= clock[ch].sec THEN clock[ch].day + 1
             ELSE clock[ch].day,
     sec |-> t.sec]

(* A seeded slip: the date is always that of the wall clock.               *)
DatedByWallClock(ch, t) == [day |-> now.day, sec |-> t.sec]

(* _update_timestamp: the date is that of the wall clock at first, and then*)
(* the next one whenever the time of day is less than before.              *)
Dated(ch, t) ==
    [day |-> IF clock[ch] = None THEN now.day
             ELSE IF t.sec < clock[ch].sec THEN clock[ch].day + 1
             ELSE clock[ch].day,
     sec |-> t.sec]

(* A sync line; what it may say of a bad frame makes a quality event.      *)
Sync(ch, t) ==
    /\ t \in Printed(ch)
    /\ clock' = [clock EXCEPT ![ch] = Dated(ch, t)]
    /\ printed' = [printed EXCEPT ![ch] = t]
    /\ misdated' = IF clock[ch] = None /\ t.day # now.day THEN misdated \cup {ch}
                   ELSE misdated
    /\ UNCHANGED now

(* The time of an event (_now). *)
Stamp(ch) == IF clock[ch] = None THEN now ELSE clock[ch]

ParserInit ==
    /\ now \in {t \in Instants : t.day = 0}
    /\ clock = [ch \in Channels |-> None] /\ printed = [ch \in Channels |-> None]
    /\ misdated = {}

Pass ==
    /\ Leq(Later(now), [day |-> LastDay, sec |-> LastSec])
    /\ now' = Later(now)
    /\ UNCHANGED <<clock, printed, misdated>>

ParserTypeOK ==
    /\ now \in Instants /\ now.day <= LastDay
    /\ clock \in [Channels -> Instants \cup {None}]
    /\ printed \in [Channels -> Instants \cup {None}]
    /\ misdated \subseteq Channels

(* A parser is never ahead of the wall clock, so that no event is dated in *)
(* the future, although it counts days by the wraps of a time of day; one  *)
(* whose first line was read just after midnight is a day ahead, at most.  *)
ClockNeverAhead ==
    \A ch \in Channels :
        \/ clock[ch] = None \/ Leq(clock[ch], now)
        \/ ch \in misdated /\ Leq([clock[ch] EXCEPT !.day = @ - 1], now)

(* Between two sync lines less than a day apart a parser counts the        *)
(* midnights that passed, none or one, whenever they are read and whatever *)
(* else it got wrong before: it neither gains nor loses a day.             *)
DaysKeepInStep ==
    [][\A ch \in Channels :
           printed[ch] # None /\ Seconds(printed'[ch], printed[ch]) < DayLen
               => clock'[ch].day - clock[ch].day = printed'[ch].day - printed[ch].day]_parser
=============================================================================
