---------------------------- MODULE Multichannel -----------------------------
(***************************************************************************)
(* A multi-frequency run: one parser and LineRunner per channel            *)
(* (backend/wrapper.py, rf/multiplex.py), the traffic scheduler they feed, *)
(* the capture pump and its audio servers (rf/bridge.py), and the assembly *)
(* that starts them and takes them down (_run_multichannel_live, _run).    *)
(*                                                                         *)
(* Abstracted: a block of IQ is one step of the pump.  What a decoder      *)
(* prints does not depend on the audio it was fed.  Its line source ends   *)
(* some time after the stop event, which LiveSession shows.                *)
(***************************************************************************)
EXTENDS Scheduler

VARIABLES
    stop,    \* stop_event
    told,    \* the runners' _stop: set together, by _watch_stop
    runner,  \* consume_lines of each channel
    pump,    \* run_capture_pump
    conn,    \* channels whose decoder is connected to its audio server
    fed,     \* observer: the channels that got the last block
    main     \* where _run is
life == <<stop, told, runner, pump, conn, fed, main>>
vars == <<parser, last, life>>

Running(ch) == runner[ch] = "run" /\ main # "exited"
Reads(ch) == Running(ch) /\ ~told

(* Lines a runner takes to their end: parse_line, the event stamped with   *)
(* the channel and dated by its parser, then on_event for the scheduler.   *)
SyncLine(ch) ==
    /\ Reads(ch) /\ \E t \in Printed(ch) : Sync(ch, t)
    /\ UNCHANGED <<last, life>>

(* A voice call, preamble, data header, or LRRP request or position. *)
Traffic(ch) ==
    /\ Reads(ch) /\ Bump({ch}, Stamp(ch))
    /\ UNCHANGED <<parser, life>>

(* An LSN status or a bank call that names the channels G. *)
Grant(ch, G) ==
    /\ Reads(ch) /\ Bump(G, Stamp(ch))
    /\ UNCHANGED <<parser, life>>

(* A garbled time (say 99:12:07) that no datetime can hold: the exception  *)
(* leaves consume_lines.                                                   *)
BadSync(ch) ==
    /\ Reads(ch) /\ runner' = [runner EXCEPT ![ch] = "failed"]
    /\ UNCHANGED <<parser, last, stop, told, pump, conn, fed, main>>

RunnerDone(ch) ==
    /\ runner' = [runner EXCEPT ![ch] = "done"]
    /\ UNCHANGED <<parser, last, stop, told, pump, conn, fed, main>>

(* The line source of the channel, which restarts its decoder until the    *)
(* stop event is set, has ended.                                           *)
SourceEnds(ch) == Running(ch) /\ stop /\ RunnerDone(ch)

(* The runner was told, and another line makes it look. *)
RunnerEnds(ch) == Running(ch) /\ told /\ RunnerDone(ch)

(* SIGINT or SIGTERM, or the web server's task ends with an exception.     *)
Stop ==
    /\ main = "gather" /\ ~stop
    /\ stop' = TRUE
    /\ UNCHANGED <<parser, last, told, runner, pump, conn, fed, main>>

(* _watch_stop, unless gather has ended and cancelled it. *)
Watch ==
    /\ main = "gather" /\ stop /\ ~told
    /\ told' = TRUE
    /\ UNCHANGED <<parser, last, stop, runner, pump, conn, fed, main>>

(* A decoder connects to its audio server, or goes away. *)
Client(ch) ==
    /\ main = "gather"
    /\ conn' = IF ch \in conn THEN conn \ {ch} ELSE conn \cup {ch}
    /\ fed' = fed \ {ch}
    /\ UNCHANGED <<parser, last, stop, told, runner, pump, main>>

(* A block: fed to the active channels that have a client.  Then the stop  *)
(* event is looked at.                                                     *)
Block ==
    /\ pump = "read"
    /\ fed' = Active \cap conn
    /\ pump' = IF stop THEN "done" ELSE "read"
    /\ UNCHANGED <<parser, last, stop, told, runner, conn, main>>

(* The capture ends or raises: the rest of the run goes on, without audio. *)
PumpEnds ==
    /\ pump = "read"
    /\ pump' = "done" /\ fed' = {}
    /\ UNCHANGED <<parser, last, stop, told, runner, conn, main>>

(* A seeded slip: exceptions are collected, and every runner waited for. *)
GatherAll ==
    /\ main = "gather"
    /\ \A ch \in Channels : runner[ch] # "run"
    /\ main' = "closing"
    /\ UNCHANGED <<parser, last, stop, told, runner, pump, conn, fed>>

(* gather: every runner is done, or the first failure is raised at once,   *)
(* while the other runners go on.                                          *)
Gather ==
    /\ main = "gather"
    /\ \/ \A ch \in Channels : runner[ch] = "done"
       \/ \E ch \in Channels : runner[ch] = "failed"
    /\ main' = "closing"
    /\ UNCHANGED <<parser, last, stop, told, runner, pump, conn, fed>>

(* Each audio server drops its clients and stops listening. *)
CloseServers == conn' = {} /\ fed' = {}

(* The pump is cancelled and the audio servers closed. *)
Teardown ==
    /\ main = "closing"
    /\ pump' = "done" /\ CloseServers /\ main' = "leaving"
    /\ UNCHANGED <<parser, last, stop, told, runner>>

(* The stop event is set, the snapshot saved, the background tasks         *)
(* cancelled and the log closed; whoever still runs is cancelled.          *)
Leave ==
    /\ main = "leaving"
    /\ stop' = TRUE /\ main' = "exited"
    /\ UNCHANGED <<parser, last, told, runner, pump, conn, fed>>

Init ==
    /\ ParserInit /\ SchedulerInit
    /\ stop = FALSE /\ told = FALSE
    /\ runner = [ch \in Channels |-> "run"]
    /\ pump = "read" /\ conn = {} /\ fed = {} /\ main = "gather"

Lines(ch) ==
    \/ SyncLine(ch) \/ Traffic(ch)
    \/ \E G \in SUBSET Channels : Grant(ch, G)
    \/ BadSync(ch) \/ SourceEnds(ch) \/ RunnerEnds(ch)

Next ==
    \/ main # "exited" /\ Pass /\ UNCHANGED <<last, life>>
    \/ \E ch \in Channels : Lines(ch) \/ Client(ch)
    \/ Stop \/ Watch \/ Block \/ PumpEnds \/ Gather \/ Teardown \/ Leave

Spec == Init /\ [][Next]_vars

(* The loop runs its tasks, and a line source ends once stop is set.       *)
Fairness ==
    /\ \A ch \in Channels : WF_vars(SourceEnds(ch))
    /\ WF_vars(Watch) /\ WF_vars(Gather) /\ WF_vars(Teardown) /\ WF_vars(Leave)
FairSpec == Spec /\ Fairness

-----------------------------------------------------------------------------
TypeOK ==
    /\ ParserTypeOK
    /\ last \in [Channels -> Instants \cup {None}]
    /\ stop \in BOOLEAN /\ told \in BOOLEAN
    /\ runner \in [Channels -> {"run", "done", "failed"}]
    /\ pump \in {"read", "done"} /\ conn \subseteq Channels /\ fed \subseteq Channels
    /\ main \in {"gather", "closing", "leaving", "exited"}

(* A connected decoder whose channel had traffic less than a hang time ago *)
(* gets every block.  The scheduler measures from the latest activity of   *)
(* any channel, so this rests on no parser being ahead of the wall clock:  *)
(* one that is misdated at midnight starves all the others for a day.      *)
RecentTrafficIsFed ==
    [][Block => \A c \in conn : \/ misdated # {} \/ last[c] = None
                                \/ Seconds(now, last[c]) > Hang
                                \/ c \in fed']_vars

(* A stop signal, or an exception in one of the runners, takes the whole   *)
(* run down, whatever the other runners are doing.                         *)
StopsAll ==
    (stop \/ \E ch \in Channels : runner[ch] = "failed") ~> (main = "exited")
=============================================================================
