------------------------------ MODULE Scheduler ------------------------------
(***************************************************************************)
(* TrafficScheduler (backend/rf/scheduler.py): which channels of the       *)
(* wideband capture get audio.  It has no clock of its own: its now is the *)
(* latest activity that any parser has dated.                              *)
(*                                                                         *)
(* Left out: max_active and update_energy, which the program never uses.   *)
(***************************************************************************)
EXTENDS Parser

CONSTANTS Control, Hang  \* control channels of the plan; hang_seconds
ASSUME SchedulerAssumption == Control \subseteq Channels /\ Hang \in Nat

VARIABLE last  \* _last_active

SchedulerInit == last = [c \in Channels |-> None]

(* on_event, _bump: an event of time t is traffic on the channels of C;    *)
(* activity never goes back.                                               *)
Bump(C, t) ==
    last' = [c \in Channels |->
                IF c \in C /\ (last[c] = None \/ ~Leq(t, last[c])) THEN t ELSE last[c]]

(* A seeded slip: activity as old as the hang time no longer counts. *)
ActiveBriefly ==
    Control \cup {c \in Channels : /\ last[c] # None
                                   /\ \A r \in Channels : last[r] # None =>
                                          Seconds(last[r], last[c]) < Hang}

(* active_labels: the control channels, and those whose last activity is   *)
(* within the hang time of the latest of all.                              *)
Active ==
    Control \cup {c \in Channels : /\ last[c] # None
                                   /\ \A r \in Channels : last[r] # None =>
                                          Seconds(last[r], last[c]) <= Hang}
=============================================================================
