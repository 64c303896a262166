------------------------- MODULE SnapshotFileProofs --------------------------
(***************************************************************************)
(* Theorems about SnapshotFile and RulesFile, for any number of changes and *)
(* of files that rot.  That nothing saved is lost needs to know what the main file and   *)
(* the backup may be when one of them is missing: while nothing has rotted *)
(* and no reset is pending, the main file is the last completed save, or   *)
(* it is missing and the backup is.                                        *)
(***************************************************************************)
EXTENDS RulesFile, TLAPS

USE SnapshotAssumption

(* No file is bad that has not rotted. *)
Sound == rots = 0 => main # Bad /\ bak # Bad
(* A reset has emptied memory before it touches a file. *)
Emptied == pc = "resetting" => mem = Empty
SnapshotOK == TypeOK /\ Sound /\ Emptied /\ NothingSavedIsLost

LEMMA Distinct == Missing \notin Saved /\ Bad \notin Saved /\ Missing # Bad
  BY DEF Saved, Versions, Empty

LEMMA LoadType ==
  ASSUME NEW m, NEW b
  PROVE  /\ Load(m, b) \in Saved \cup {Missing}
         /\ m \in Saved => Load(m, b) = m
         /\ m \notin Saved /\ b \in Saved => Load(m, b) = b
         /\ m \notin Saved /\ b \notin Saved => Load(m, b) = Missing
  BY DEF Load

LEMMA StepOK ==
  ASSUME SnapshotOK, [Next]_vars
  PROVE  SnapshotOK' /\ [State!Next]_(State!vars)
<1> USE DEF SnapshotOK
<1>1. Empty = 0 /\ Versions = 1..MaxVersion /\ Saved = Versions \cup {Empty}
  BY DEF Empty, Versions, Saved
<1>2. Content = Saved \cup {Missing, Bad}
  BY DEF Content
<1>3. TypeOK'
  <2>1. CASE Start
    BY <2>1, <1>1, LoadType DEF Start, TypeOK, Found
  <2>2. CASE Hear
    BY <2>2, <1>1 DEF Hear, TypeOK
  <2>3. CASE Write \/ SwapFails
    BY <2>3 DEF Write, SwapFails, TypeOK
  <2>4. CASE Backup
    BY <2>4, <1>2 DEF Backup, TypeOK
  <2>5. CASE Swap
    BY <2>5, <1>2 DEF Swap, TypeOK
  <2>6. CASE Reset \/ Crash
    BY <2>6, <1>1 DEF Reset, Crash, TypeOK
  <2>7. CASE Unlink
    BY <2>7, <1>2 DEF Unlink, TypeOK
  <2>8. CASE Rot
    BY <2>8, <1>2 DEF Rot, TypeOK
  <2>9. CASE UNCHANGED vars
    BY <2>9 DEF vars, TypeOK
  <2> QED
    BY <2>1, <2>2, <2>3, <2>4, <2>5, <2>6, <2>7, <2>8, <2>9 DEF Next
<1>4. Emptied'
  BY DEF Emptied, Next, vars, Start, Hear, Write, Backup, Swap, SwapFails, Reset,
         Unlink, Crash, Rot
<1>6. Sound' /\ NothingSavedIsLost'
  <2> USE DEF Sound, NothingSavedIsLost, Found
  <2>1. CASE Start \/ Hear \/ Write \/ SwapFails \/ Reset \/ Crash
    BY <2>1 DEF Start, Hear, Write, SwapFails, Reset, Crash, Load
  <2>2. CASE Backup
    BY <2>2, <1>2, Distinct DEF Backup, Load, TypeOK
  <2>3. CASE Swap
    BY <2>3, Distinct DEF Swap, Load, TypeOK
  <2>4. CASE Unlink
    BY <2>4, Distinct DEF Unlink
  <2>5. CASE Rot
    BY <2>5 DEF Rot, TypeOK
  <2>6. CASE UNCHANGED vars
    BY <2>6 DEF vars, Load
  <2> QED
    BY <2>1, <2>2, <2>3, <2>4, <2>5, <2>6 DEF Next
<1>5. [State!Next]_(State!vars)
  <2> USE DEF State!vars, Found
  <2>1. CASE Start
    <3>1. UNCHANGED <<main, bak, rots>> /\ mem' = IF Found = Missing THEN Empty ELSE Found
      BY <2>1 DEF Start
    <3>2. State!Find
      BY <3>1 DEF State!Find, Load
    <3> QED
      BY <3>2 DEF State!Next
  <2>2. CASE Hear \/ Reset \/ Crash
    <3>1. mem' \in Versions \cup {Empty} /\ UNCHANGED <<main, bak, rots>>
      BY <2>2, <1>1, <1>3 DEF Hear, Reset, Crash, TypeOK
    <3>2. State!Change
      BY <3>1 DEF State!Change, Load
    <3> QED
      BY <3>2 DEF State!Next
  <2>3. CASE Write \/ SwapFails
    BY <2>3 DEF Write, SwapFails, Load
  <2>4. CASE Backup
    <3>1. CASE main \in Saved /\ bak' = main /\ main' = Missing
      <4>1. State!Keep
        BY <2>4, <3>1, Distinct DEF Backup, State!Keep, Load
      <4> QED
        BY <4>1 DEF State!Next
    <3>2. CASE main \notin Saved /\ main # Missing /\ bak' = main /\ main' = Missing
      <4>1. rots > 0
        BY <3>2, <1>2 DEF TypeOK, Sound
      <4>2. State!Lose
        BY <2>4, <3>2, <4>1, Distinct DEF Backup, State!Lose, Load
      <4> QED
        BY <4>2 DEF State!Next
    <3>3. CASE UNCHANGED <<main, bak>>
      BY <2>4, <3>3 DEF Backup, Load
    <3> QED
      BY <2>4, <3>1, <3>2, <3>3 DEF Backup
  <2>5. CASE Swap
    <3>1. State!Store
      BY <2>5 DEF Swap, State!Store, Load, TypeOK
    <3> QED
      BY <3>1 DEF State!Next
  <2>6. CASE Unlink
    <3>1. CASE main' = Missing
      <4>1. State!Erase
        BY <2>6, <3>1, Distinct DEF Emptied, Unlink, State!Erase, Load
      <4> QED
        BY <4>1 DEF State!Next
    <3>2. CASE UNCHANGED main
      BY <2>6, <3>2 DEF Unlink, Load
    <3> QED
      BY <2>6, <3>1, <3>2 DEF Unlink
  <2>7. CASE Rot
    <3>1. State!Rot
      BY <2>7, Distinct DEF Rot, State!Rot, Load, TypeOK
    <3> QED
      BY <3>1 DEF State!Next
  <2>8. CASE UNCHANGED vars
    BY <2>8 DEF vars, Load
  <2> QED
    BY <2>1, <2>2, <2>3, <2>4, <2>5, <2>6, <2>7, <2>8 DEF Next
<1> QED
  BY <1>3, <1>4, <1>5, <1>6

LEMMA InitOK == Init => SnapshotOK /\ State!Init
<1> SUFFICES ASSUME Init PROVE SnapshotOK /\ State!Init
  OBVIOUS
<1> USE DEF Init
<1>1. Found = Missing /\ Load(Missing, bak) = Missing
  BY Distinct DEF Found, Load
<1>2. TypeOK
  <2>1. mem \in Saved /\ main \in Content /\ bak \in Content
    BY DEF Saved, Content
  <2>2. top \in 0..MaxVersion /\ rots \in 0..MaxRots /\ erased \in 0..MaxVersion
    OBVIOUS
  <2> QED
    BY <2>1, <2>2 DEF TypeOK
<1>3. Sound /\ Emptied /\ NothingSavedIsLost
  BY <1>1, Distinct DEF Sound, Emptied, NothingSavedIsLost
<1>4. State!Init
  BY <1>1 DEF State!Init
<1> QED
  BY <1>2, <1>3, <1>4 DEF SnapshotOK

(* What is stated of a file holds at all times. *)
THEOREM SnapshotInvariant == Spec => []SnapshotOK
<1>1. Init => SnapshotOK
  BY InitOK
<1>2. SnapshotOK /\ [Next]_vars => SnapshotOK'
  BY StepOK
<1> QED
  BY <1>1, <1>2, PTL DEF Spec

(* Types; in particular load_snapshot never puts into memory what does not *)
(* parse.                                                                  *)
THEOREM TypeInvariant == Spec => []TypeOK
<1>1. SnapshotOK => TypeOK
  BY DEF SnapshotOK
<1> QED
  BY <1>1, SnapshotInvariant, PTL

(* However often the process dies inside atomic_write_text, the next start *)
(* finds the last completed save.                                          *)
THEOREM SavesSurvive == Spec => []NothingSavedIsLost
<1>1. SnapshotOK => NothingSavedIsLost
  BY DEF SnapshotOK
<1> QED
  BY <1>1, SnapshotInvariant, PTL

(* atomic_write_text and load_snapshot implement a cell that a save changes *)
(* at one instant.                                                          *)
THEOREM ImplementsSavedState == Spec => SavedStateSpec
<1>1. Init => State!Init
  BY InitOK
<1>2. SnapshotOK /\ [Next]_vars => [State!Next]_(State!vars)
  BY StepOK
<1> QED
  BY <1>1, <1>2, SnapshotInvariant, PTL DEF Spec, SavedStateSpec, State!Spec

-----------------------------------------------------------------------------
(* A reset.  What memory holds was heard after it, and so was what a save  *)
(* stored after it; before that save, a start may find something older.    *)
Fresh(v) == v \in {Missing, Empty} \/ v > erased
FreshOK ==
    /\ erased <= top
    /\ rots = 0 => Fresh(mem) /\ (wiped \/ Fresh(newest))

LEMMA FreshStep ==
  ASSUME SnapshotOK, FreshOK, [Next]_vars, [Start => ~wiped]_vars
  PROVE  FreshOK'
<1> USE DEF FreshOK, Fresh
<1>0. TypeOK /\ Empty = 0 /\ Missing \notin Nat
  BY SnapshotAssumption DEF SnapshotOK, Empty
<1>1. CASE Start
  <2>1. vars' # vars
    BY <1>1 DEF Start, vars
  <2>2. ~wiped
    BY <1>1, <2>1
  <2>3. rots = 0 => Found = newest
    BY <2>2 DEF SnapshotOK, NothingSavedIsLost
  <2> QED BY <1>0, <1>1, <2>2, <2>3 DEF Start
<1>2. CASE Hear
  BY <1>0, <1>2 DEF Hear, TypeOK
<1>3. CASE Write \/ Backup \/ SwapFails
  BY <1>3 DEF Write, Backup, SwapFails
<1>4. CASE Swap
  BY <1>4 DEF Swap
<1>5. CASE Reset \/ Crash
  BY <1>5 DEF Reset, Crash
<1>6. CASE Unlink
  BY <1>0, <1>6 DEF Unlink, SnapshotOK, Emptied, TypeOK
<1>7. CASE Rot
  BY <1>0, <1>7 DEF Rot, TypeOK
<1>8. CASE UNCHANGED vars
  BY <1>8 DEF vars
<1> QED
  BY <1>1, <1>2, <1>3, <1>4, <1>5, <1>6, <1>7, <1>8 DEF Next

-----------------------------------------------------------------------------
(* The rules file. *)

LEMMA StartRulesStep ==
  ASSUME SnapshotOK, StartRules
  PROVE  /\ SnapshotOK'
         /\ UNCHANGED <<Found, Load(Missing, bak)>>
<1> USE DEF SnapshotOK
<1>1. /\ UNCHANGED <<bak, top, rots, newest, wiped, erased>> /\ pc' = "running"
      /\ mem' = IF InForce = Missing THEN Empty ELSE InForce
      /\ main' = main \/ (main' = Missing /\ Found = Missing)
  BY DEF StartRules
<1>2. Found' = Found /\ Load(Missing, bak)' = Load(Missing, bak)
  BY <1>1, Distinct DEF Found, Load
<1>3. mem' \in Saved
  BY <1>1, LoadType DEF InForce, Found, Saved
<1>4. TypeOK'
  BY <1>1, <1>3 DEF TypeOK, Content
<1>5. Sound' /\ Emptied' /\ NothingSavedIsLost'
  BY <1>1, <1>2, Distinct DEF Sound, Emptied, NothingSavedIsLost
<1> QED BY <1>2, <1>4, <1>5

LEMMA ChangeRulesStep ==
  ASSUME SnapshotOK, ChangeRules
  PROVE  /\ SnapshotOK'
         /\ UNCHANGED <<Found, Load(Missing, bak), rots>> /\ mem' \in Versions
<1> USE DEF SnapshotOK
<1>1. top' \in Versions /\ mem' = top'
  BY DEF ChangeRules, TypeOK, Versions
<1>2. UNCHANGED <<main, bak, rots, newest, wiped, erased>> /\ pc' \in {"written", "running"}
  BY DEF ChangeRules
<1>3. TypeOK'
  BY <1>1, <1>2 DEF TypeOK, Saved, Versions
<1>4. Sound' /\ Emptied' /\ NothingSavedIsLost'
  BY <1>2 DEF Sound, Emptied, NothingSavedIsLost, Found, Load
<1>5. UNCHANGED <<Found, Load(Missing, bak), rots>>
  BY <1>2 DEF Found, Load
<1> QED BY <1>1, <1>3, <1>4, <1>5

(* Every other step of the rules file is one of the snapshot file. *)
LEMMA RulesStep ==
  ASSUME SnapshotOK, [RulesNext]_vars
  PROVE  SnapshotOK' /\ (~wiped => ~wiped')
<1>1. CASE StartRules
  BY <1>1, StartRulesStep DEF StartRules
<1>2. CASE ChangeRules
  BY <1>2, ChangeRulesStep DEF ChangeRules
<1>3. CASE Backup \/ Swap \/ SwapFails \/ Crash \/ Rot \/ UNCHANGED vars
  <2>1. [Next]_vars
    BY <1>3 DEF Next
  <2>2. ~wiped => ~wiped'
    BY <1>3 DEF Backup, Swap, SwapFails, Crash, Rot, vars
  <2> QED BY <2>1, <2>2, StepOK
<1> QED BY <1>1, <1>2, <1>3 DEF RulesNext

LEMMA RulesMap ==
  ASSUME SnapshotOK, [RulesNext]_vars,
         [StartRules => main # Missing \/ Found = Missing]_vars
  PROVE  [State!Next]_(State!vars)
<1>1. CASE StartRules
  <2>1. vars' # vars
    BY <1>1 DEF StartRules, vars
  <2>2. InForce = Found
    BY <1>1, <2>1 DEF InForce
  <2>3. State!Find
    BY <1>1, <2>2, StartRulesStep DEF StartRules, State!Find
  <2> QED BY <2>3 DEF State!Next
<1>2. CASE ChangeRules
  <2>1. State!Change
    BY <1>2, ChangeRulesStep DEF State!Change
  <2> QED BY <2>1 DEF State!Next
<1>3. CASE Backup \/ Swap \/ SwapFails \/ Crash \/ Rot \/ UNCHANGED vars
  <2>1. [Next]_vars
    BY <1>3 DEF Next
  <2> QED BY <2>1, StepOK
<1> QED BY <1>1, <1>2, <1>3 DEF RulesNext

-----------------------------------------------------------------------------
(* A reset is final, unless the process dies and starts again before it    *)
(* completed a save, or a file has rotted: the violated ResetIsFinal fails *)
(* in no other way.                                                        *)
THEOREM ResetFinalOnceSaved ==
    Spec /\ [][Start => ~wiped]_vars => [](rots = 0 => ResetIsFinal)
<1>1. Init => FreshOK
  BY DEF Init, FreshOK, Fresh
<1>2. SnapshotOK /\ FreshOK /\ [Next]_vars /\ [Start => ~wiped]_vars => FreshOK'
  BY FreshStep
<1>3. SnapshotOK /\ FreshOK => (rots = 0 => ResetIsFinal)
  BY Distinct DEF FreshOK, Fresh, ResetIsFinal, SnapshotOK, TypeOK
<1> QED BY <1>1, <1>2, <1>3, SnapshotInvariant, PTL DEF Spec

(* The files hold the last completed save of the rules, however often the  *)
(* process dies inside it, for any number of changes and rotten files.     *)
THEOREM RulesSurvive == RulesSpec => [](NothingSavedIsLost /\ ~wiped)
<1>1. Init => SnapshotOK /\ ~wiped
  BY InitOK DEF Init
<1>2. SnapshotOK /\ ~wiped /\ [RulesNext]_vars => SnapshotOK' /\ ~wiped'
  BY RulesStep
<1>3. SnapshotOK => NothingSavedIsLost
  BY DEF SnapshotOK
<1> QED BY <1>1, <1>2, <1>3, PTL DEF RulesSpec

(* A start puts them into force, or finds no rules.json and leaves them in *)
(* the backup: the violated SavedRulesStayInForce fails in no other way.   *)
THEOREM RulesInForceOrInBackup == RulesSpec => RulesKeptOrInBackup
<1> DEFINE Step == StartRules /\ rots = 0 => \/ mem' = IF newest = Missing THEN Empty ELSE newest
                                             \/ main = Missing /\ bak = newest
<1>1. NothingSavedIsLost /\ ~wiped => [Step]_vars
  <2> SUFFICES ASSUME NothingSavedIsLost, ~wiped, StartRules, rots = 0
               PROVE  \/ mem' = IF newest = Missing THEN Empty ELSE newest
                      \/ main = Missing /\ bak = newest
    OBVIOUS
  <2>1. Found = newest /\ mem' = IF InForce = Missing THEN Empty ELSE InForce
    BY DEF NothingSavedIsLost, StartRules
  <2>2. CASE main # Missing
    BY <2>1, <2>2 DEF InForce
  <2>3. CASE main = Missing
    BY <2>1, <2>3, Distinct DEF InForce, Found, Load
  <2> QED BY <2>2, <2>3
<1> QED BY <1>1, RulesSurvive, PTL DEF RulesKeptOrInBackup

(* But for such a start the rules file implements the cell that a save     *)
(* changes at one instant, as the snapshot file does.                      *)
THEOREM RulesImplementSavedState ==
    RulesSpec /\ [][StartRules => main # Missing \/ Found = Missing]_vars => SavedStateSpec
<1>1. Init => State!Init /\ SnapshotOK
  BY InitOK
<1>2. SnapshotOK /\ [RulesNext]_vars => SnapshotOK'
  BY RulesStep
<1>3. /\ SnapshotOK /\ [RulesNext]_vars
      /\ [StartRules => main # Missing \/ Found = Missing]_vars
      => [State!Next]_(State!vars)
  BY RulesMap
<1> QED BY <1>1, <1>2, <1>3, PTL DEF RulesSpec, SavedStateSpec, State!Spec
=============================================================================
