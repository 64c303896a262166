-------------------------- MODULE LiveSessionProofs --------------------------
(***************************************************************************)
(* Proofs about LiveSession, for any set of tunings and of children, with  *)
(* or without the watchdog, and whether or not children obey SIGTERM.      *)
(***************************************************************************)
EXTENDS LiveSession, TLAPS

(* Every reachable state is well typed. *)
THEOREM TypeInvariant == Spec => []TypeOK
<1> USE LiveSessionAssumption DEF TypeOK, Configs
<1>1. ASSUME Init PROVE TypeOK
  <2>1. config \in Configs /\ disk \in Configs
    BY <1>1 DEF Init
  <2>2. tunedTo \in [Children -> Tunings]
    BY <1>1 DEF Init
  <2> QED BY <1>1, <2>1, <2>2 DEF Init
<1>2. TypeOK /\ [Next]_vars => TypeOK'
  <2> SUFFICES ASSUME TypeOK, [Next]_vars PROVE TypeOK'
    OBVIOUS
  <2> USE DEF controller, events, children
  <2>1. ASSUME NEW t \in Tunings, SetTuning(t) PROVE TypeOK'
    BY <2>1 DEF SetTuning, Persist
  <2>2. ASSUME NEW b \in BOOLEAN, SetLiveEnabled(b) PROVE TypeOK'
    BY <2>2 DEF SetLiveEnabled, Persist
  <2>3. CASE Stop
    BY <2>3 DEF Stop
  <2>4. CASE Supervise
    BY <2>4 DEF Supervise, Return, Pause, StartSession
  <2>5. CASE WatchPause
    BY <2>5 DEF WatchPause
  <2>6. CASE Terminate
    BY <2>6 DEF Terminate
  <2>7. CASE Spawn
    <3>1. PICK c \in Children \ alive :
              /\ alive' = alive \cup {c}
              /\ tunedTo' = [tunedTo EXCEPT ![c] = cmd]
              /\ termed' = termed \ {c}
              /\ proc' = c
      BY <2>7 DEF Spawn
    <3>2. /\ tunedTo' \in [Children -> Tunings] /\ alive' \in SUBSET Children
          /\ termed' \in SUBSET Children /\ proc' \in Children
      BY <3>1
    <3> QED BY <2>7, <3>2 DEF Spawn
  <2>8. CASE SpawnFails \/ Eof \/ LivenessTimeout
    BY <2>8 DEF SpawnFails, Eof, LivenessTimeout
  <2>9. CASE ReapTerminates \/ ReapFinds \/ Kill
    BY <2>9 DEF ReapTerminates, ReapFinds, Kill, Ended
  <2>10. CASE Respawn
    BY <2>10 DEF Respawn
  <2>11. ASSUME NEW c \in Children, ChildExits(c) PROVE TypeOK'
    BY <2>11 DEF ChildExits
  <2>12. CASE Restart
    BY <2>12 DEF Restart, Boot
  <2>13. CASE UNCHANGED vars
    BY <2>13 DEF vars
  <2> QED BY <2>1, <2>2, <2>3, <2>4, <2>5, <2>6, <2>7, <2>8, <2>9, <2>10,
             <2>11, <2>12, <2>13 DEF Next, Reader
<1> QED BY <1>1, <1>2, PTL DEF Spec

(* The receiver never has two clients. *)
THEOREM OneChildInvariant == Spec => []OneChild
<1>1. Init => OneChild
  BY DEF Init, OneChild
<1>2. OneChild /\ [Next]_vars => OneChild'
  <2> SUFFICES ASSUME OneChild, [Next]_vars PROVE OneChild'
    OBVIOUS
  <2> USE DEF OneChild, controller, events, children
  <2>1. CASE UNCHANGED <<pc, proc, alive>>
    BY <2>1
  <2>2. CASE Supervise
    BY <2>2 DEF Supervise
  <2>3. CASE Spawn
    BY <2>3 DEF Spawn
  <2>4. CASE SpawnFails \/ Eof \/ LivenessTimeout \/ ReapTerminates \/ Respawn
    BY <2>4 DEF SpawnFails, Eof, LivenessTimeout, ReapTerminates, Respawn
  <2>5. CASE ReapFinds \/ Kill
    <3>1. alive' = {}
      BY <2>5 DEF ReapFinds, Kill
    <3> QED BY <3>1
  <2>6. ASSUME NEW c \in Children, ChildExits(c) PROVE OneChild'
    BY <2>6 DEF ChildExits
  <2>7. CASE Restart
    BY <2>7 DEF Restart, Boot
  <2> QED BY <2>1, <2>2, <2>3, <2>4, <2>5, <2>6, <2>7
          DEF Next, Reader, vars, SetTuning, SetLiveEnabled, Stop, WatchPause, Terminate
<1> QED BY <1>1, <1>2, PTL DEF Spec

(* A child on an old tuning always has its interrupt pending. *)
THEOREM RetuneInvariant == Spec => []NoLostRetune
<1>1. Init => NoLostRetune
  BY DEF Init, NoLostRetune
<1>2. TypeOK /\ NoLostRetune /\ [Next]_vars => NoLostRetune'
  <2> SUFFICES ASSUME TypeOK, NoLostRetune, [Next]_vars PROVE NoLostRetune'
    OBVIOUS
  <2> USE DEF NoLostRetune, controller, events, children
  <2>1. ASSUME NEW t \in Tunings, SetTuning(t) PROVE NoLostRetune'
    BY <2>1 DEF SetTuning
  <2>2. ASSUME NEW b \in BOOLEAN, SetLiveEnabled(b) PROVE NoLostRetune'
    BY <2>2 DEF SetLiveEnabled, TypeOK, Configs
  <2>3. CASE Supervise
    BY <2>3 DEF Supervise, Return, Pause, StartSession
  <2>4. CASE Spawn
    BY <2>4 DEF Spawn, TypeOK
  <2>5. CASE SpawnFails \/ Eof \/ LivenessTimeout \/ ReapTerminates
    BY <2>5 DEF SpawnFails, Eof, LivenessTimeout, ReapTerminates
  <2>6. CASE ReapFinds \/ Kill
    BY <2>6 DEF ReapFinds, Kill, Ended
  <2>7. CASE Respawn
    BY <2>7 DEF Respawn
  <2>8. CASE Restart
    BY <2>8 DEF Restart, Boot
  <2>9. CASE UNCHANGED <<config, retune, pc, cmd, proc, tunedTo>>
    BY <2>9
  <2> QED BY <2>1, <2>2, <2>3, <2>4, <2>5, <2>6, <2>7, <2>8, <2>9
          DEF Next, Reader, vars, Stop, WatchPause, Terminate, ChildExits
<1> QED BY <1>1, <1>2, TypeInvariant, PTL DEF Spec

(* A pause or a resume is never missed. *)
THEOREM ToggleInvariant == Spec => []NoLostToggle
<1>1. Init => NoLostToggle
  BY DEF Init, NoLostToggle, InSession
<1>2. TypeOK /\ NoLostToggle /\ [Next]_vars => NoLostToggle'
  <2> SUFFICES ASSUME TypeOK, NoLostToggle, [Next]_vars PROVE NoLostToggle'
    OBVIOUS
  <2> USE DEF NoLostToggle, InSession, controller, events, children
  <2>1. ASSUME NEW t \in Tunings, SetTuning(t) PROVE NoLostToggle'
    BY <2>1 DEF SetTuning, TypeOK, Configs
  <2>2. ASSUME NEW b \in BOOLEAN, SetLiveEnabled(b) PROVE NoLostToggle'
    BY <2>2 DEF SetLiveEnabled
  <2>3. CASE Supervise
    BY <2>3 DEF Supervise, Return, Pause, StartSession
  <2>4. CASE Spawn \/ SpawnFails \/ Eof \/ LivenessTimeout \/ ReapTerminates
    BY <2>4 DEF Spawn, SpawnFails, Eof, LivenessTimeout, ReapTerminates
  <2>5. CASE ReapFinds \/ Kill \/ Respawn
    BY <2>5 DEF ReapFinds, Kill, Ended, Respawn
  <2>6. CASE Restart
    BY <2>6 DEF Restart, Boot
  <2>7. CASE UNCHANGED <<config, toggle, pc>>
    BY <2>7
  <2> QED BY <2>1, <2>2, <2>3, <2>4, <2>5, <2>6, <2>7
          DEF Next, Reader, vars, Stop, WatchPause, Terminate, ChildExits
<1> QED BY <1>1, <1>2, TypeInvariant, PTL DEF Spec

(* A config the disk does not hold is reported. *)
THEOREM UnsavedInvariant == Spec => []UnsavedIsReported
<1>1. Init => UnsavedIsReported
  BY DEF Init, UnsavedIsReported
<1>2. UnsavedIsReported /\ [Next]_vars => UnsavedIsReported'
  <2> SUFFICES ASSUME UnsavedIsReported, [Next]_vars PROVE UnsavedIsReported'
    OBVIOUS
  <2>1. ASSUME \E new : config' = new /\ Persist(new) PROVE UnsavedIsReported'
    BY <2>1 DEF Persist, UnsavedIsReported
  <2>2. CASE UNCHANGED <<config, disk, lastError>>
    BY <2>2 DEF UnsavedIsReported
  <2>3. CASE Restart
    BY <2>3 DEF Restart, Boot, UnsavedIsReported
  <2>4. CASE Supervise
    BY <2>2, <2>4 DEF Supervise, Return, Pause, StartSession, controller
  <2>5. CASE Reader
    BY <2>2, <2>5 DEF Reader, Spawn, SpawnFails, Eof, LivenessTimeout,
                     ReapTerminates, ReapFinds, Kill, Ended, Respawn, controller
  <2>6. ASSUME \/ \E t \in Tunings : SetTuning(t)
               \/ \E b \in BOOLEAN : SetLiveEnabled(b)
        PROVE  UnsavedIsReported'
    BY <2>1, <2>6 DEF SetTuning, SetLiveEnabled
  <2> QED BY <2>2, <2>3, <2>4, <2>5, <2>6
          DEF Next, vars, controller, Stop, WatchPause, Terminate, ChildExits
<1> QED BY <1>1, <1>2, PTL DEF Spec

(* The values of WayHome.                                                  *)
LEMMA Distances ==
    /\ WayHome("spawn") = 6 /\ WayHome("reading") = 5 /\ WayHome("reap") = 4
    /\ WayHome("wait") = 3 /\ WayHome("backoff") = 2
    /\ WayHome("check") = 1 /\ WayHome("paused") = 1 /\ WayHome("done") = 0
  BY DEF WayHome

(* After a shutdown has reached the session, the supervisor only gets      *)
(* nearer to its return, whatever the child and the operator do.           *)
THEOREM ShutdownDescends == Spec => ShutdownOnlyDescends
<1> DEFINE Descent == sessionStop' /\ (pc' = pc \/ WayHome(pc') < WayHome(pc))
<1>1. ASSUME TypeOK, [Next]_vars, stop, stop', sessionStop PROVE Descent
  <2> USE <1>1, Distances DEF controller, events, children
  <2>1. CASE Supervise
    <3>1. Return
      BY <2>1 DEF Supervise, Pause, StartSession
    <3> QED BY <2>1, <3>1 DEF Supervise, Return
  <2>2. CASE Spawn \/ SpawnFails
    <3>1. pc = "spawn" /\ sessionStop' /\ pc' \in {"reading", "check"}
      BY <2>2 DEF Spawn, SpawnFails
    <3> QED BY <3>1
  <2>3. CASE Eof \/ LivenessTimeout \/ ReapTerminates
    <3>1. /\ sessionStop'
          /\ \/ pc = "reading" /\ pc' = "reap"
             \/ pc = "reap" /\ pc' = "wait"
      BY <2>3 DEF Eof, LivenessTimeout, ReapTerminates
    <3> QED BY <3>1
  <2>4. CASE ReapFinds \/ Kill
    <3>1. pc \in {"reap", "wait"} /\ pc' = "check" /\ sessionStop'
      BY <2>4 DEF ReapFinds, Kill, Ended
    <3> QED BY <3>1
  <2>5. CASE Respawn
    BY <2>5 DEF Respawn
  <2>6. CASE Restart
    BY <2>6 DEF Restart, Boot
  <2>7. CASE sessionStop' /\ UNCHANGED pc
    BY <2>7
  <2> QED BY <2>1, <2>2, <2>3, <2>4, <2>5, <2>6, <2>7
          DEF Next, Reader, vars, SetTuning, SetLiveEnabled, Stop, WatchPause,
              Terminate, ChildExits
<1>2. TypeOK /\ [Next]_vars =>
        [stop /\ stop' /\ sessionStop => Descent]_vars
  BY <1>1
<1> QED BY <1>2, TypeInvariant, PTL DEF Spec, ShutdownOnlyDescends
=============================================================================
