------------------------------ MODULE RulesFile ------------------------------
(***************************************************************************)
(* The rules file of the alert evaluator (backend/alerts.py): saved by the *)
(* same atomic_write_text as the snapshot, on every change of the rules,   *)
(* and read when the evaluator is made.  The variables and the steps of a  *)
(* save are those of SnapshotFile; a version is a set of rules.            *)
(***************************************************************************)
EXTENDS SnapshotFile

(* What a start will put into force: it looks for the file only, and       *)
(* load_rules for the file and then its backup.                            *)
InForce == IF main = Missing THEN Missing ELSE Found

(* Evaluator.__init__ and load_rules; a file that does not parse, with no  *)
(* good backup, is set aside, if it can be renamed.                        *)
StartRules ==
    /\ pc = "down"
    /\ pc' = "running"
    /\ mem' = IF InForce = Missing THEN Empty ELSE InForce
    /\ main' \in IF Found = Missing THEN {main, Missing} ELSE {main}
    /\ UNCHANGED <<bak, top, rots, newest, wiped, erased>>

(* add_rule, remove_rule, set_enabled: the rules change, and their save    *)
(* begins, or fails before it renames anything and is given up.            *)
ChangeRules ==
    /\ pc = "running" /\ top < MaxVersion
    /\ top' = top + 1 /\ mem' = top'
    /\ pc' \in {"written", "running"}
    /\ UNCHANGED <<main, bak, rots, newest, wiped, erased>>

RulesNext ==
    \/ StartRules \/ ChangeRules \/ Backup \/ Swap \/ SwapFails \/ Crash \/ Rot
RulesSpec == Init /\ [][RulesNext]_vars

(* "Falls back to rules_path.bak (kept by atomic_write_text) if the main   *)
(* file is missing or unparseable": a start puts the rules of the last     *)
(* completed save into force, as long as no file has rotted.               *)
SavedRulesStayInForce ==
    [][StartRules /\ rots = 0 => mem' = IF newest = Missing THEN Empty ELSE newest]_vars

(* What does hold: such a start finds its rules, or the process had died   *)
(* between the two renames of a save and the backup alone holds them.      *)
RulesKeptOrInBackup ==
    [][StartRules /\ rots = 0 => \/ mem' = IF newest = Missing THEN Empty ELSE newest
                                 \/ main = Missing /\ bak = newest]_vars
=============================================================================
