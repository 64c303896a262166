--------------------------- MODULE WebServerProofs ---------------------------
(***************************************************************************)
(* Theorems about WebServer, for any clients, resets, lengths of queues,   *)
(* sizes of the pool and number of changes.  That a producer pushes erased *)
(* data once more at most is not inductive by itself: the strengthening    *)
(* says that who has done so holds no snapshot from before the reset.      *)
(* That a subscriber misses no payload needs to know what a handler holds  *)
(* at each of its awaits (PipeOK).                                         *)
(***************************************************************************)
EXTENDS WebServer, FiniteSetTheorems, TLAPS

USE WebServerAssumption

LateOK ==
    \A p \in Producers :
        \/ late[p] = 0
        \/ late[p] = 1 /\ (job[p] \in {"running", "done"} => pay[p] >= wiped)

IInv == TypeOK /\ LateOK

(* The parts of the type invariant. *)
DataOK ==
    /\ ver \in Versions /\ wiped \in 0 .. ver
    /\ cached \in Versions \cup {None}
JobOK ==
    /\ job \in [Jobs -> {"none", "queued", "running", "done", "failed"}]
    /\ pay \in [Jobs -> 0 .. ver]
ClientOK ==
    /\ subs \subseteq Clients
    /\ queue \in [Clients -> Seq(Versions)]
    /\ \A c \in Clients : Len(queue[c]) <= QueueLen
    /\ cpc \in [Clients -> {"off", "first", "send", "wait"}]
    /\ item \in [Clients -> Versions \cup {None}]
    /\ shown \in [Clients -> Versions \cup {None}]
HeavyOK == asked \in 0 .. MaxQueue /\ busy \in 0 .. Concurrency /\ busy <= asked
LateType == late \in [Producers -> Nat]

LEMMA TypeParts == TypeOK <=> DataOK /\ JobOK /\ ClientOK /\ HeavyOK /\ LateType
  BY DEF TypeOK, DataOK, JobOK, ClientOK, HeavyOK, LateType

LEMMA Sets ==
  /\ Clients \subseteq Jobs /\ Producers \subseteq Jobs /\ Resets \subseteq Producers
  /\ Tick \in Producers /\ Producers \cap Clients = {}
  BY DEF Jobs, Producers

-----------------------------------------------------------------------------
LEMMA InitOK == Init => IInv
<1> SUFFICES ASSUME Init PROVE IInv
  OBVIOUS
<1>1. DataOK /\ JobOK /\ HeavyOK /\ LateType
  BY DEF Init, DataOK, JobOK, HeavyOK, LateType, Versions
<1>2. ClientOK
  BY DEF Init, ClientOK
<1>3. LateOK
  BY Sets DEF Init, LateOK
<1> QED BY <1>1, <1>2, <1>3, TypeParts DEF IInv

(* The version of the state only grows. *)
LEMMA DataStep ==
  ASSUME IInv, [Next]_vars
  PROVE  DataOK' /\ ver <= ver'
<1>0. DataOK /\ JobOK /\ ver \in Nat
  BY TypeParts DEF IInv, DataOK, Versions
<1>1. CASE Event \/ \E r \in Resets : Reset(r)
  BY <1>0, <1>1 DEF Event, Reset, DataOK, Versions
<1>2. ASSUME NEW p \in Producers, Push(p)
      PROVE  DataOK' /\ ver <= ver'
  <2>1. pay[p] \in 0 .. ver
    BY <1>0, Sets DEF JobOK
  <2> QED BY <1>0, <1>2, <2>1 DEF Push, DataOK, Versions
<1>3. CASE UNCHANGED <<ver, wiped, cached>>
  BY <1>0, <1>3 DEF DataOK, Versions
<1>4. ASSUME NEW c \in Clients, Handler(c)
      PROVE  UNCHANGED <<ver, wiped, cached>>
  BY <1>4 DEF Handler, Connect, FirstFrame, Sent, Take, Lost, Quiet, HangUp, Ping
<1>5. ASSUME NEW j \in Jobs, Begin(j) \/ Finish(j) \/ Fail(j)
      PROVE  UNCHANGED <<ver, wiped, cached>>
  BY <1>5 DEF Begin, Finish, Fail
<1>6. CASE TickStart \/ Ask \/ QueryStart \/ QueryEnd \/ UNCHANGED vars
  BY <1>3, <1>6 DEF TickStart, Ask, QueryStart, QueryEnd, vars
<1> QED BY <1>1, <1>2, <1>3, <1>4, <1>5, <1>6 DEF Next

LEMMA JobStep ==
  ASSUME IInv, [Next]_vars
  PROVE  JobOK'
<1>0. DataOK /\ JobOK /\ ver \in Nat /\ ver' \in Nat /\ ver <= ver'
  BY DataStep, TypeParts DEF IInv, DataOK, Versions
<1>1. pay \in [Jobs -> 0 .. ver']
  BY <1>0 DEF JobOK
<1>2. CASE UNCHANGED <<job, pay>>
  BY <1>0, <1>1, <1>2 DEF JobOK
<1>3. ASSUME NEW j \in Jobs, Forget(j)
      PROVE  JobOK'
  BY <1>0, <1>1, <1>3 DEF JobOK, Forget
<1>4. ASSUME NEW j \in Jobs, NEW s \in {"queued", "running", "done", "failed"},
             job' = [job EXCEPT ![j] = s], pay' = pay
      PROVE  JobOK'
  BY <1>0, <1>1, <1>4 DEF JobOK
<1>5. ASSUME NEW j \in Jobs, Begin(j)
      PROVE  JobOK'
  BY <1>0, <1>1, <1>5 DEF JobOK, Begin
<1>6. ASSUME NEW j \in Jobs, Finish(j)
      PROVE  JobOK'
  <2> PICK v \in pay[j] .. ver : pay' = [pay EXCEPT ![j] = v]
    BY <1>6 DEF Finish
  <2>1. pay[j] \in 0 .. ver
    BY <1>0 DEF JobOK
  <2>2. v \in 0 .. ver'
    BY <1>0, <2>1
  <2> QED BY <1>0, <1>1, <1>6, <2>2 DEF JobOK, Finish
<1>7. ASSUME NEW j \in Jobs, Fail(j)
      PROVE  JobOK'
  BY <1>0, <1>1, <1>7 DEF JobOK, Fail
<1>8. ASSUME NEW p \in Producers, Push(p)
      PROVE  JobOK'
  BY <1>3, <1>8, Sets DEF Push
<1>9. ASSUME NEW c \in Clients, Handler(c)
      PROVE  JobOK'
  <2>1. c \in Jobs
    BY Sets
  <2>2. CASE Connect(c)
    BY <1>2, <1>4, <2>1, <2>2 DEF Connect
  <2>3. CASE FirstFrame(c) \/ Lost(c) \/ (Quiet(c) /\ HangUp(c))
    BY <1>3, <2>1, <2>3 DEF FirstFrame, Lost, HangUp
  <2>4. CASE Sent(c) \/ Take(c) \/ (Quiet(c) /\ Ping(c))
    BY <1>2, <2>4 DEF Sent, Take, Ping
  <2> QED BY <1>9, <2>2, <2>3, <2>4 DEF Handler, Quiet
<1>10. ASSUME NEW r \in Resets, Reset(r)
       PROVE  JobOK'
  BY <1>4, <1>10, Sets DEF Reset
<1>11. CASE TickStart
  BY <1>4, <1>11, Sets DEF TickStart
<1>12. CASE Event \/ Ask \/ QueryStart \/ QueryEnd \/ UNCHANGED vars
  BY <1>2, <1>12 DEF Event, Ask, QueryStart, QueryEnd, vars
<1> QED BY <1>5, <1>6, <1>7, <1>8, <1>9, <1>10, <1>11, <1>12 DEF Next

LEMMA ClientStep ==
  ASSUME IInv, [Next]_vars
  PROVE  ClientOK'
<1>0. DataOK /\ JobOK /\ ClientOK
  BY TypeParts DEF IInv
<1>1. CASE UNCHANGED client
  BY <1>0, <1>1 DEF client, ClientOK
<1>2. \A j \in Jobs : pay[j] \in Versions
  BY <1>0 DEF DataOK, JobOK, Versions
<1>3. ASSUME NEW p \in Producers, Push(p)
      PROVE  ClientOK'
  <2>1. pay[p] \in Versions
    BY <1>2, Sets
  <2>2. ASSUME NEW c \in Clients
        PROVE  queue'[c] \in Seq(Versions) /\ Len(queue'[c]) <= QueueLen
    <3>1. queue[c] \in Seq(Versions) /\ Len(queue[c]) \in Nat /\ Len(queue[c]) <= QueueLen
      BY <1>0 DEF ClientOK
    <3>2. CASE c \in subs \ Full
      <4>1. queue'[c] = Append(queue[c], pay[p])
        BY <1>3, <3>2 DEF Push
      <4>2. Len(queue[c]) < QueueLen
        BY <3>1, <3>2 DEF Full
      <4> QED BY <2>1, <3>1, <4>1, <4>2
    <3>3. CASE c \notin subs \ Full
      BY <1>3, <3>1, <3>3 DEF Push
    <3> QED BY <3>2, <3>3
  <2>3. queue' \in [Clients -> Seq(Versions)]
    BY <1>3, <2>2 DEF Push
  <2> QED BY <1>0, <1>3, <2>2, <2>3 DEF Push, ClientOK
<1>4. ASSUME NEW c \in Clients, Handler(c)
      PROVE  ClientOK'
  <2>0. c \in Jobs /\ pay[c] \in Versions /\ cached \in Versions \cup {None}
    BY <1>0, <1>2, Sets DEF DataOK
  <2>1. CASE Connect(c)
    BY <1>0, <2>0, <2>1 DEF Connect, ClientOK
  <2>2. CASE FirstFrame(c)
    BY <1>0, <2>0, <2>2 DEF FirstFrame, ClientOK
  <2>3. CASE Sent(c)
    BY <1>0, <2>3 DEF Sent, ClientOK
  <2>4. CASE Take(c)
    <3>1. queue[c] \in Seq(Versions) /\ queue[c] # <<>> /\ Len(queue[c]) <= QueueLen
      BY <1>0, <2>4 DEF Take, ClientOK
    <3>2. Head(queue[c]) \in Versions /\ Tail(queue[c]) \in Seq(Versions)
          /\ Len(Tail(queue[c])) <= QueueLen
      BY <3>1
    <3>3. queue' = [queue EXCEPT ![c] = Tail(queue[c])]
      BY <2>4 DEF Take
    <3>4. queue' \in [Clients -> Seq(Versions)] /\ \A k \in Clients : Len(queue'[k]) <= QueueLen
      BY <1>0, <3>2, <3>3 DEF ClientOK
    <3> QED BY <1>0, <2>4, <3>2, <3>4 DEF Take, ClientOK
  <2>5. CASE HangUp(c)
    BY <1>0, <2>5 DEF HangUp, ClientOK
  <2>6. CASE Ping(c)
    BY <1>0, <2>6 DEF Ping, ClientOK
  <2> QED BY <1>4, <2>1, <2>2, <2>3, <2>4, <2>5, <2>6 DEF Handler, Lost, Quiet
<1>5. ASSUME NEW j \in Jobs, Begin(j) \/ Finish(j) \/ Fail(j)
      PROVE  UNCHANGED client
  BY <1>5 DEF Begin, Finish, Fail
<1>6. CASE Event \/ TickStart \/ (\E r \in Resets : Reset(r)) \/ Ask \/ QueryStart \/ QueryEnd
           \/ UNCHANGED vars
  BY <1>1, <1>6 DEF Event, TickStart, Reset, Ask, QueryStart, QueryEnd, vars
<1> QED BY <1>1, <1>3, <1>4, <1>5, <1>6 DEF Next

LEMMA HeavyStep ==
  ASSUME IInv, [Next]_vars
  PROVE  HeavyOK'
<1>0. HeavyOK
  BY TypeParts DEF IInv
<1>1. CASE UNCHANGED heavy
  BY <1>0, <1>1 DEF heavy, HeavyOK
<1>2. CASE Ask \/ QueryStart \/ QueryEnd
  BY <1>0, <1>2 DEF Ask, QueryStart, QueryEnd, HeavyOK
<1>3. ASSUME NEW c \in Clients, Handler(c)
      PROVE  UNCHANGED heavy
  BY <1>3 DEF Handler, Connect, FirstFrame, Sent, Take, Lost, Quiet, HangUp, Ping
<1>4. ASSUME NEW j \in Jobs, Begin(j) \/ Finish(j) \/ Fail(j)
      PROVE  UNCHANGED heavy
  BY <1>4 DEF Begin, Finish, Fail
<1>5. CASE Event \/ TickStart \/ (\E r \in Resets : Reset(r)) \/ (\E p \in Producers : Push(p))
           \/ UNCHANGED vars
  BY <1>1, <1>5 DEF Event, TickStart, Reset, Push, vars
<1> QED BY <1>1, <1>2, <1>3, <1>4, <1>5 DEF Next

LEMMA LateStep ==
  ASSUME IInv, [Next]_vars
  PROVE  LateType' /\ LateOK'
<1>0. DataOK /\ JobOK /\ LateType /\ LateOK /\ ver \in Nat /\ wiped \in Nat
  BY TypeParts DEF IInv, DataOK, Versions
<1>1. CASE /\ UNCHANGED <<late, wiped>>
           /\ \A p \in Producers : UNCHANGED <<job[p], pay[p]>>
  BY <1>0, <1>1 DEF LateType, LateOK
<1>2. ASSUME NEW j \in Jobs, Begin(j) \/ Finish(j) \/ Fail(j)
      PROVE  LateType' /\ LateOK'
  <2>1. UNCHANGED <<late, wiped>>
    BY <1>2 DEF Begin, Finish, Fail
  <2>2. /\ \A k \in Jobs : k # j => UNCHANGED <<job[k], pay[k]>>
        /\ \/ job'[j] \in {"running", "done"} /\ pay'[j] \in Nat /\ pay'[j] >= wiped
           \/ job'[j] \in {"none", "failed"}
           \/ job[j] = "running" /\ pay'[j] >= pay[j] /\ pay'[j] \in Nat
    <3>1. CASE Begin(j)
      BY <1>0, <3>1 DEF Begin, JobOK, DataOK
    <3>2. CASE Finish(j)
      <4> PICK v \in pay[j] .. ver : pay' = [pay EXCEPT ![j] = v]
        BY <3>2 DEF Finish
      <4>1. pay[j] \in 0 .. ver
        BY <1>0 DEF JobOK
      <4> QED BY <1>0, <3>2, <4>1 DEF Finish, JobOK
    <3>3. CASE Fail(j)
      BY <1>0, <3>3 DEF Fail, JobOK
    <3> QED BY <1>2, <3>1, <3>2, <3>3
  <2>3. LateOK'
    <3> SUFFICES ASSUME NEW p \in Producers
                 PROVE  \/ late'[p] = 0
                        \/ late'[p] = 1 /\ (job'[p] \in {"running", "done"} => pay'[p] >= wiped')
      BY DEF LateOK
    <3>1. p \in Jobs /\ pay[p] \in Nat
      BY <1>0, Sets DEF JobOK
    <3> QED BY <1>0, <2>1, <2>2, <3>1 DEF LateOK
  <2> QED BY <1>0, <2>1, <2>3 DEF LateType
<1>3. ASSUME NEW p \in Producers, Push(p)
      PROVE  LateType' /\ LateOK'
  <2>1. p \in Jobs /\ late[p] \in Nat /\ late[p] + 1 \in Nat /\ job[p] = "done" /\ pay[p] \in Nat
    BY <1>0, <1>3, Sets DEF JobOK, LateType, Push
  <2>2. job'[p] = "none" /\ wiped' = wiped
    BY <1>0, <1>3, <2>1 DEF Push, Forget, JobOK
  <2>3. \A q \in Producers : q # p => UNCHANGED <<job[q], pay[q], late[q]>>
    BY <1>0, <1>3, Sets DEF Push, Forget, JobOK, LateType
  <2>4. late'[p] = IF pay[p] < wiped THEN late[p] + 1 ELSE late[p]
    BY <1>0, <1>3 DEF Push, LateType
  <2>5. late'[p] \in {0, 1}
    BY <1>0, <2>1, <2>4 DEF LateOK
  <2>6. LateType'
    BY <1>0, <1>3, <2>1 DEF LateType, Push
  <2>7. LateOK'
    BY <1>0, <2>2, <2>3, <2>5 DEF LateOK
  <2> QED BY <2>6, <2>7
<1>4. CASE \E r \in Resets : Reset(r)
  BY <1>4 DEF Reset, LateType, LateOK
<1>5. ASSUME NEW c \in Clients, Handler(c)
      PROVE  /\ UNCHANGED <<late, wiped>>
             /\ \A p \in Producers : UNCHANGED <<job[p], pay[p]>>
  <2>1. UNCHANGED <<late, wiped>>
    BY <1>5 DEF Handler, Connect, FirstFrame, Sent, Take, Lost, Quiet, HangUp, Ping
  <2>2. \/ UNCHANGED <<job, pay>> \/ Forget(c)
        \/ job' = [job EXCEPT ![c] = "queued"] /\ pay' = pay
    BY <1>5 DEF Handler, Connect, FirstFrame, Sent, Take, Lost, Quiet, HangUp, Ping
  <2> QED BY <1>0, <2>1, <2>2, Sets DEF Forget, JobOK
<1>6. CASE TickStart
  <2>1. \A p \in Producers : \/ UNCHANGED <<job[p], pay[p]>>
                             \/ job'[p] = "queued"
    BY <1>0, <1>6, Sets DEF TickStart, JobOK
  <2> QED BY <1>0, <1>6, <2>1 DEF TickStart, LateType, LateOK
<1>7. CASE Event \/ Ask \/ QueryStart \/ QueryEnd \/ UNCHANGED vars
  BY <1>1, <1>7 DEF Event, Ask, QueryStart, QueryEnd, vars
<1> QED BY <1>1, <1>2, <1>3, <1>4, <1>5, <1>6, <1>7 DEF Next

LEMMA NextOK ==
  ASSUME IInv, [Next]_vars
  PROVE  IInv'
<1>1. TypeOK'
  <2>1. DataOK' /\ JobOK' /\ ClientOK' /\ HeavyOK' /\ LateType'
    BY DataStep, JobStep, ClientStep, HeavyStep, LateStep
  <2> QED BY <2>1 DEF TypeOK, DataOK, JobOK, ClientOK, HeavyOK, LateType
<1> QED BY <1>1, LateStep DEF IInv

-----------------------------------------------------------------------------
(* What the handler of a client holds: nothing when there is none, nothing *)
(* yet while its first frame is made, and a frame only while it sends.     *)
PipeOK ==
    \A c \in Clients :
        /\ cpc[c] = "off" => c \notin subs /\ queue[c] = <<>>
        /\ cpc[c] \in {"off", "first"} => shown[c] = None
        /\ item[c] # None => cpc[c] = "send"

SubsOK == PipeOK /\ LatestOnItsWay

(* Appending to a queue, and taking its head. *)
LEMMA QueueEnds ==
  ASSUME NEW q \in Seq(Versions)
  PROVE  /\ \A v \in Versions : /\ Append(q, v) # <<>>
                                /\ Append(q, v)[Len(Append(q, v))] = v
         /\ q # <<>> =>
              /\ q[Len(q)] \in Versions
              /\ Tail(q) = <<>> => Head(q) = q[Len(q)]
              /\ Tail(q) # <<>> => Tail(q)[Len(Tail(q))] = q[Len(q)]
<1>1. \A v \in Versions : Append(q, v) # <<>> /\ Append(q, v)[Len(Append(q, v))] = v
  OBVIOUS
<1>2. ASSUME q # <<>>
      PROVE  /\ q[Len(q)] \in Versions
             /\ Tail(q) = <<>> => Head(q) = q[Len(q)]
             /\ Tail(q) # <<>> => Tail(q)[Len(Tail(q))] = q[Len(q)]
  <2>1. Len(q) \in Nat \ {0} /\ Len(Tail(q)) = Len(q) - 1
    BY <1>2
  <2>2. Tail(q) = <<>> => Len(q) = 1
    BY <2>1
  <2>3. Tail(q) # <<>> => Tail(q)[Len(Tail(q))] = q[Len(q)]
    BY <1>2, <2>1
  <2> QED BY <1>2, <2>1, <2>2, <2>3
<1> QED BY <1>1, <1>2

(* Only a push moves what is latest, and only the handler what it holds. *)
LEMMA OthersLeaveClients ==
  ASSUME [Next]_vars
  PROVE  \/ UNCHANGED <<cached, client>>
         \/ \E p \in Producers : Push(p)
         \/ \E c \in Clients : Handler(c)
<1>1. ASSUME NEW j \in Jobs, Begin(j) \/ Finish(j) \/ Fail(j)
      PROVE  UNCHANGED <<cached, client>>
  BY <1>1 DEF Begin, Finish, Fail
<1>2. CASE Event \/ TickStart \/ (\E r \in Resets : Reset(r)) \/ Ask \/ QueryStart \/ QueryEnd
           \/ UNCHANGED vars
  BY <1>2 DEF Event, TickStart, Reset, Ask, QueryStart, QueryEnd, vars
<1> QED BY <1>1, <1>2 DEF Next

LEMMA PushKeepsLatest ==
  ASSUME IInv, SubsOK, NEW p \in Producers, Push(p)
  PROVE  SubsOK'
<1>0. ClientOK /\ JobOK /\ DataOK
  BY TypeParts DEF IInv
<1>1. pay[p] \in Versions /\ cached' = pay[p]
  BY <1>0, Sets DEF JobOK, DataOK, Versions, Push
<1>2. subs' = subs \ Full /\ UNCHANGED <<cpc, item, shown>>
  BY DEF Push
<1>3. \A c \in Clients : queue'[c] = IF c \in subs \ Full THEN Append(queue[c], pay[p])
                                     ELSE queue[c]
  BY DEF Push
<1>4. PipeOK'
  BY <1>2, <1>3 DEF SubsOK, PipeOK
<1>5. ASSUME NEW c \in subs' PROVE Coming(c)' = cached'
  <2>1. c \in Clients /\ queue[c] \in Seq(Versions)
    BY <1>0, <1>2, <1>5 DEF ClientOK
  <2>2. queue'[c] = Append(queue[c], pay[p])
    BY <1>2, <1>3, <1>5, <2>1
  <2> QED BY <1>1, <2>1, <2>2, QueueEnds DEF Coming
<1> QED BY <1>4, <1>5 DEF SubsOK, LatestOnItsWay

LEMMA HandlerKeepsLatest ==
  ASSUME IInv, SubsOK, NEW c \in Clients, Handler(c)
  PROVE  SubsOK'
<1> USE DEF SubsOK, PipeOK, LatestOnItsWay, Coming
<1>0. ClientOK /\ DataOK /\ queue[c] \in Seq(Versions) /\ cached' = cached
  BY TypeParts DEF IInv, ClientOK, Handler, Connect, FirstFrame, Sent, Take, Lost, Quiet,
                   HangUp, Ping
(* Another client's handler. *)
<1>1. ASSUME NEW k \in Clients, k # c
      PROVE  /\ UNCHANGED <<queue[k], cpc[k], item[k], shown[k]>>
             /\ k \in subs' <=> k \in subs
  BY <1>0, <1>1 DEF ClientOK, Handler, Connect, FirstFrame, Sent, Take, Lost, Quiet,
                    HangUp, Ping
<1>2. SUFFICES ASSUME UNCHANGED cached
               PROVE  /\ cpc'[c] = "off" => c \notin subs' /\ queue'[c] = <<>>
                      /\ cpc'[c] \in {"off", "first"} => shown'[c] = None
                      /\ item'[c] # None => cpc'[c] = "send"
                      /\ c \in subs' => cached = None \/ Coming(c)' = cached
  <2>1. PipeOK'
    BY <1>0, <1>1, <1>2
  <2>2. \A k \in Clients : k # c => Coming(k)' = Coming(k)
    BY <1>1
  <2>3. subs' \subseteq Clients
    BY <1>0 DEF ClientOK, Handler, Connect, FirstFrame, Sent, Take, Lost, Quiet, HangUp, Ping
  <2>4. LatestOnItsWay'
    BY <1>0, <1>1, <1>2, <2>2, <2>3
  <2> QED BY <2>1, <2>4
<1>3. CASE Connect(c)
  BY <1>0, <1>3 DEF Connect, ClientOK
<1>4. CASE FirstFrame(c)
  BY <1>0, <1>4 DEF FirstFrame, ClientOK
<1>5. CASE Sent(c)
  BY <1>0, <1>5 DEF Sent, ClientOK
<1>6. CASE Take(c)
  <2>1. /\ cpc[c] = "wait" /\ queue[c] # <<>> /\ item[c] = None
        /\ cpc'[c] = "send" /\ queue'[c] = Tail(queue[c])
        /\ item'[c] = Head(queue[c]) /\ UNCHANGED <<subs, shown>>
    BY <1>0, <1>6 DEF Take, ClientOK
  <2>2. Head(queue[c]) # None
    BY <1>0, <2>1 DEF Versions
  <2>3. Coming(c)' = Coming(c)
    <3>1. CASE Tail(queue[c]) = <<>>
      BY <1>0, <2>1, <2>2, <3>1, QueueEnds
    <3>2. CASE Tail(queue[c]) # <<>>
      BY <1>0, <2>1, <3>2, QueueEnds
    <3> QED BY <3>1, <3>2
  <2> QED BY <2>1, <2>3
<1>7. CASE HangUp(c)
  BY <1>0, <1>7 DEF HangUp, ClientOK
<1>8. CASE c \in subs /\ queue[c] = <<>> /\ cpc[c] = "wait" /\ Ping(c)
  BY <1>0, <1>8 DEF Ping, ClientOK
<1> QED BY <1>3, <1>4, <1>5, <1>6, <1>7, <1>8 DEF Handler, Lost, Quiet

LEMMA SubsStep ==
  ASSUME IInv, SubsOK, [Next]_vars
  PROVE  SubsOK'
<1>1. CASE UNCHANGED <<cached, client>>
  BY <1>1 DEF client, SubsOK, PipeOK, LatestOnItsWay, Coming
<1> QED BY <1>1, OthersLeaveClients, PushKeepsLatest, HandlerKeepsLatest

LEMMA SubsInit == Init => SubsOK
  BY DEF Init, SubsOK, PipeOK, LatestOnItsWay

-----------------------------------------------------------------------------
(* Types of the server, for any clients; a queue never outgrows its bound, *)
(* and no more queries run than the semaphore admits.                      *)
THEOREM TypeInvariant == Spec => []TypeOK
<1>1. IInv => TypeOK
  BY DEF IInv
<1> QED BY InitOK, NextOK, <1>1, PTL DEF Spec

(* After a reset the loop, and each other reset in progress, pushes erased *)
(* data once more at most.                                                 *)
THEOREM ErasedInvariant == Spec => []ErasedPushedOnceMore
<1>1. IInv => ErasedPushedOnceMore
  BY DEF IInv, LateOK, ErasedPushedOnceMore
<1> QED BY InitOK, NextOK, <1>1, PTL DEF Spec

(* A subscriber never misses the last payload, however connections, pushes, *)
(* evictions and sends interleave.                                          *)
THEOREM LatestInvariant == Spec => []LatestOnItsWay
<1>1. Init => IInv /\ SubsOK
  BY InitOK, SubsInit
<1>2. IInv /\ SubsOK /\ [Next]_vars => IInv' /\ SubsOK'
  BY NextOK, SubsStep
<1>3. SubsOK => LatestOnItsWay
  BY DEF SubsOK
<1> QED BY <1>1, <1>2, <1>3, PTL DEF Spec
=============================================================================
