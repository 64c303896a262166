----------------------------- MODULE MCRulesFile -----------------------------
(* The rules file with two changes of the rules and no file that rots. *)
EXTENDS RulesFile
=============================================================================
