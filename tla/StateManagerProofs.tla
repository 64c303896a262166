------------------------- MODULE StateManagerProofs -------------------------
(***************************************************************************)
(* Proofs about StateManager, for any number of radios, channels, slots    *)
(* and timestamps, any cap and any eviction share of at least two.         *)
(***************************************************************************)
EXTENDS StateManager, FiniteSetTheorems, WellFoundedInduction, TLAPS

-----------------------------------------------------------------------------
(* Selecting the oldest radios.                                            *)

(* Every non-empty set of naturals has a least element. *)
LEMMA LeastNatural ==
    ASSUME NEW T, T \subseteq Nat, T # {}
    PROVE  \E n \in T : \A m \in T : n <= m
<1> DEFINE W == {0 .. n - 1 : n \in T}
<1>1. W \subseteq FiniteSubsetsOf(Nat) /\ W # {}
  <2>1. ASSUME NEW n \in T PROVE 0 .. n - 1 \in FiniteSubsetsOf(Nat)
    <3>1. IsFiniteSet(0 .. n - 1)
      BY FS_Interval
    <3> QED BY <3>1 DEF FiniteSubsetsOf
  <2> QED BY <2>1
<1> HIDE DEF W
<1>2. PICK w \in W : \A v \in W : ~ (<<v, w>> \in StrictSubsetOrdering(Nat))
  BY <1>1, FS_StrictSubsetOrderingWellFounded, WFMin
<1> USE DEF W
<1>3. PICK n \in T : w = 0 .. n - 1
  OBVIOUS
<1>4. ASSUME NEW m \in T, m < n PROVE FALSE
  <2>1. 0 .. m - 1 \in SUBSET Nat /\ w \in SUBSET Nat
    BY <1>3
  <2>2. 0 .. m - 1 \subseteq w /\ m \in w /\ m \notin 0 .. m - 1
    BY <1>3, <1>4
  <2>3. 0 .. m - 1 \in W
    OBVIOUS
  <2>4. <<0 .. m - 1, w>> \in StrictSubsetOrdering(Nat)
    BY <2>1, <2>2 DEF StrictSubsetOrdering
  <2> QED BY <1>2, <2>3, <2>4
<1> QED BY <1>4

(* Any non-empty part of a table has an oldest radio. *)
LEMMA OldestOne ==
    ASSUME NEW t \in Tables, Ranked(t), NEW D \in SUBSET DOMAIN t, D # {}
    PROVE  \E r \in D : \A q \in D \ {r} : Before(t, r, q)
<1>0. \A r \in DOMAIN t : t[r].lastSeen \in Nat /\ t[r].pos \in Nat
  BY StateManagerAssumption, FS_CardinalityType DEF Tables, RadioRec, Times
<1>1. PICK m \in D : \A q \in D : t[m].lastSeen <= t[q].lastSeen
  <2> DEFINE T == {t[r].lastSeen : r \in D}
  <2>1. T \subseteq Nat /\ T # {}
    BY <1>0
  <2>2. \E n \in T : \A k \in T : n <= k
    <3> HIDE DEF T
    <3> QED BY <2>1, LeastNatural
  <2> QED BY <2>2
<1> DEFINE E == {r \in D : t[r].lastSeen = t[m].lastSeen}
<1>2. PICK r \in E : \A q \in E : t[r].pos <= t[q].pos
  <2> DEFINE T == {t[q].pos : q \in E}
  <2>1. T \subseteq Nat /\ T # {}
    BY <1>0
  <2>2. \E n \in T : \A k \in T : n <= k
    <3> HIDE DEF T
    <3> QED BY <2>1, LeastNatural
  <2> QED BY <2>2
<1>3. ASSUME NEW q \in D \ {r} PROVE Before(t, r, q)
  <2>1. CASE q \in E
    BY <2>1, <1>0, <1>2 DEF Before, Ranked
  <2>2. CASE q \notin E
    BY <2>2, <1>0, <1>1, <1>2 DEF Before
  <2> QED BY <2>1, <2>2
<1> QED BY <1>3, <1>2

(* The domain of a table is finite. *)
LEMMA TableFinite ==
    ASSUME NEW t \in Tables
    PROVE  /\ DOMAIN t \in SUBSET Radios
           /\ IsFiniteSet(DOMAIN t)
           /\ Cardinality(DOMAIN t) \in Nat
           /\ Cardinality(DOMAIN t) <= Cardinality(Radios)
           /\ Cardinality(Radios) \in Nat
<1>1. DOMAIN t \in SUBSET Radios
  BY DEF Tables
<1>2. /\ IsFiniteSet(DOMAIN t)
      /\ Cardinality(DOMAIN t) <= Cardinality(Radios)
  BY <1>1, FS_Subset, StateManagerAssumption
<1> QED BY <1>1, <1>2, FS_CardinalityType, StateManagerAssumption

(* The first n radios of the sorted list exist, for every n up to its      *)
(* length: by the least n that would fail.                                 *)
LEMMA OldestExists ==
    ASSUME NEW t \in Tables, Ranked(t),
           NEW n \in 0 .. Cardinality(DOMAIN t)
    PROVE  \E S \in SUBSET DOMAIN t : IsOldest(t, S, n)
<1> DEFINE D == DOMAIN t
           Good(k) == \E S \in SUBSET D : IsOldest(t, S, k)
           Bad == {k \in 0 .. Cardinality(D) : ~Good(k)}
<1>1. SUFFICES ASSUME Bad # {} PROVE FALSE
  OBVIOUS
<1>2. IsFiniteSet(D) /\ Cardinality(D) \in Nat
  BY TableFinite
<1>3. PICK k \in Bad : \A j \in Bad : k <= j
  <2>1. Bad \subseteq Nat
    BY <1>2
  <2> QED BY <2>1, <1>1, LeastNatural
<1>4. k # 0
  BY FS_EmptySet, <1>3 DEF IsOldest
<1>5. k - 1 \in 0 .. Cardinality(D) /\ k - 1 \notin Bad
  BY <1>2, <1>3, <1>4
<1>6. PICK S \in SUBSET D : IsOldest(t, S, k - 1)
  BY <1>5
<1>7. D \ S # {}
  BY <1>2, <1>3, <1>6, S = D => Cardinality(S) = Cardinality(D) DEF IsOldest
<1>8. PICK r \in D \ S : \A q \in (D \ S) \ {r} : Before(t, r, q)
  BY <1>7, OldestOne
<1>9. Cardinality(S \cup {r}) = k
  <2>1. IsFiniteSet(S)
    BY <1>2, FS_Subset
  <2>2. Cardinality(S \cup {r}) = Cardinality(S) + 1
    BY <2>1, <1>8, FS_AddElement
  <2> QED BY <2>2, <1>2, <1>3, <1>6 DEF IsOldest
<1>10. IsOldest(t, S \cup {r}, k)
  BY <1>6, <1>8, <1>9 DEF IsOldest
<1> QED BY <1>10, <1>3

-----------------------------------------------------------------------------
(* What the operations on the table do to it.                              *)

IsTable(t) == t \in Tables /\ Ranked(t)

(* Dropping radios keeps the order of the others. *)
LEMMA KeepTable ==
    ASSUME NEW t, IsTable(t), NEW S \in SUBSET DOMAIN t
    PROVE  /\ IsTable(Keep(t, S))
           /\ DOMAIN Keep(t, S) = S
           /\ \A r \in S : Keep(t, S)[r].lastSeen = t[r].lastSeen
<1> DEFINE k == Keep(t, S)
           Below(r) == {q \in S : t[q].pos < t[r].pos}
<1>1. /\ S \in SUBSET Radios /\ IsFiniteSet(S)
      /\ Cardinality(S) \in Nat /\ Cardinality(S) <= Cardinality(Radios)
      /\ Cardinality(Radios) \in Nat
  BY TableFinite, FS_Subset, FS_CardinalityType DEF IsTable
<1>2. \A r \in S : t[r] \in RadioRec /\ t[r].pos \in Nat
  BY <1>1 DEF IsTable, Tables, RadioRec
<1>3. ASSUME NEW r \in S
      PROVE  Rank(t, S, r) \in Nat /\ Rank(t, S, r) < Cardinality(S)
  <2>1. Below(r) \in SUBSET S /\ r \notin Below(r)
    BY <1>2
  <2>2. /\ IsFiniteSet(Below(r)) /\ Cardinality(Below(r)) \in Nat
        /\ Cardinality(Below(r)) <= Cardinality(S)
        /\ Cardinality(Below(r)) # Cardinality(S)
    BY <1>1, <2>1, FS_Subset, FS_CardinalityType
  <2> QED BY <1>1, <2>2 DEF Rank
<1>4. ASSUME NEW r \in S, NEW q \in S, t[q].pos < t[r].pos
      PROVE  Rank(t, S, q) # Rank(t, S, r)
  <2>1. Below(q) \in SUBSET Below(r) /\ q \in Below(r) /\ q \notin Below(q)
    BY <1>2, <1>4
  <2>2. IsFiniteSet(Below(r))
    BY <1>1, FS_Subset
  <2>3. Cardinality(Below(q)) # Cardinality(Below(r))
    BY <2>1, <2>2, FS_Subset
  <2> QED BY <2>3 DEF Rank
<1>5. ASSUME NEW r \in S
      PROVE  /\ k[r] \in RadioRec
             /\ k[r].pos = Rank(t, S, r)
             /\ k[r].lastSeen = t[r].lastSeen
  <2>1. k[r] = [t[r] EXCEPT !.pos = Rank(t, S, r)]
    BY DEF Keep
  <2>2. t[r] \in RadioRec /\ Rank(t, S, r) \in 0 .. Cardinality(Radios)
    BY <1>1, <1>2, <1>3
  <2> HIDE DEF k
  <2> QED BY <2>1, <2>2 DEF RadioRec
<1>6. k \in [S -> RadioRec]
  <2>1. k = [r \in S |-> k[r]]
    BY DEF Keep
  <2> QED BY <1>5, <2>1
<1>7. DOMAIN k = S
  BY DEF Keep
<1>8. Ranked(k)
  <2>2. ASSUME NEW r \in S, NEW q \in S, k[r].pos = k[q].pos PROVE r = q
    <3>1. ~ (t[q].pos < t[r].pos) /\ ~ (t[r].pos < t[q].pos)
      BY <1>4, <1>5, <2>2
    <3> QED BY <3>1, <1>2 DEF IsTable, Ranked
  <2> QED BY <1>3, <1>5, <1>7, <2>2 DEF Ranked
<1> QED BY <1>1, <1>5, <1>6, <1>7, <1>8 DEF IsTable, Tables

(* A radio not in the table joins it at the end. *)
LEMMA InsertTable ==
    ASSUME NEW t, IsTable(t), NEW r \in Radios \ DOMAIN t, NEW ts \in Times
    PROVE  /\ IsTable(Insert(t, r, ts))
           /\ DOMAIN Insert(t, r, ts) = DOMAIN t \cup {r}
           /\ Cardinality(DOMAIN Insert(t, r, ts)) = Cardinality(DOMAIN t) + 1
<1> DEFINE i == Insert(t, r, ts)
<1>1. DOMAIN i = DOMAIN t \cup {r}
  BY DEF Insert
<1>2. /\ DOMAIN t \in SUBSET Radios /\ IsFiniteSet(DOMAIN t)
      /\ Cardinality(DOMAIN t) \in Nat
  BY TableFinite DEF IsTable
<1>3. Cardinality(DOMAIN i) = Cardinality(DOMAIN t) + 1
  BY <1>1, <1>2, FS_AddElement
<1>4. /\ Cardinality(Radios) \in Nat
      /\ Cardinality(DOMAIN i) <= Cardinality(Radios)
  BY <1>1, <1>2, FS_Subset, FS_CardinalityType, StateManagerAssumption
<1>5. \A q \in DOMAIN t : t[q] \in RadioRec /\ t[q].pos \in Nat
                          /\ t[q].pos < Cardinality(DOMAIN t)
  BY <1>4 DEF IsTable, Tables, RadioRec, Ranked
<1>6. i[r] = [lastSeen |-> ts, encrypted |-> FALSE, pos |-> Cardinality(DOMAIN t)]
  BY DEF Insert
<1>7. \A q \in DOMAIN t : i[q] = t[q]
  BY DEF Insert
<1>8. i[r] \in RadioRec
  BY <1>2, <1>3, <1>4, <1>6 DEF RadioRec
<1>9. i \in [DOMAIN i -> RadioRec]
  <2>1. \A q \in DOMAIN i : i[q] \in RadioRec
    BY <1>1, <1>5, <1>7, <1>8
  <2>2. i = [q \in DOMAIN i |-> i[q]]
    BY DEF Insert
  <2> QED BY <2>1, <2>2
<1>10. Ranked(i)
  <2>1. i[r].pos = Cardinality(DOMAIN t)
    BY <1>6
  <2> QED BY <1>1, <1>2, <1>3, <1>5, <1>7, <2>1 DEF IsTable, Ranked
<1> QED BY <1>1, <1>2, <1>3, <1>9, <1>10 DEF IsTable, Tables

(* A batch makes room: it covers the overshoot and is no longer than the   *)
(* table.                                                                  *)
LEMMA BatchBounds ==
    ASSUME NEW n \in Nat, n > MaxRadios
    PROVE  /\ Batch(n) \in 0 .. n
           /\ n - Batch(n) <= MaxRadios
           /\ n = MaxRadios + 1 => Batch(n) < n
<1>1. /\ MaxRadios \in Nat \ {0}
      /\ EvictShare \in Nat \ {0, 1}
  BY StateManagerAssumption
<1> DEFINE d == MaxRadios \div EvictShare
<1>2. d \in Nat /\ d <= MaxRadios
  BY <1>1, Z3
<1> HIDE DEF d
<1>3. Batch(n) = LET b == Later(Later(n - MaxRadios, d), 1)
                 IN  IF n < b THEN n ELSE b
  BY DEF Batch, d
<1> QED BY <1>1, <1>2, <1>3 DEF Later

(* Eviction leaves a table within the cap. *)
LEMMA EvictTable ==
    ASSUME NEW t, IsTable(t)
    PROVE  /\ IsTable(Evict(t))
           /\ DOMAIN Evict(t) \subseteq DOMAIN t
           /\ Cardinality(DOMAIN Evict(t)) <= MaxRadios
<1> DEFINE n == Cardinality(DOMAIN t)
           S == Oldest(t, Batch(n))
<1>1. IsFiniteSet(DOMAIN t) /\ n \in Nat /\ MaxRadios \in Nat
  BY TableFinite, StateManagerAssumption DEF IsTable
<1>2. CASE n <= MaxRadios
  BY <1>2 DEF Evict
<1>3. CASE ~ (n <= MaxRadios)
  <2>1. Batch(n) \in 0 .. n /\ n - Batch(n) <= MaxRadios
    BY <1>1, <1>3, BatchBounds
  <2>2. S \in SUBSET DOMAIN t /\ IsOldest(t, S, Batch(n))
    BY <2>1, OldestExists DEF Oldest, IsTable
  <2>3. Evict(t) = Keep(t, DOMAIN t \ S)
    BY <1>3 DEF Evict
  <2>4. IsTable(Evict(t)) /\ DOMAIN Evict(t) = DOMAIN t \ S
    BY <2>3, KeepTable
  <2>5. Cardinality(DOMAIN t \ S) = n - Batch(n)
    <3>1. DOMAIN t \cap S = S
      BY <2>2
    <3>2. Cardinality(S) = Batch(n)
      BY <2>2 DEF IsOldest
    <3>3. Cardinality(DOMAIN t \ S) = n - Cardinality(DOMAIN t \cap S)
      BY <1>1, FS_Difference
    <3> QED BY <3>1, <3>2, <3>3
  <2> QED BY <1>3, <2>1, <2>4, <2>5
<1> QED BY <1>2, <1>3

(* A table one over the cap does not lose its most recent radio. *)
LEMMA EvictKeepsNewest ==
    ASSUME NEW t, IsTable(t), NEW r \in DOMAIN t,
           \A q \in DOMAIN t \ {r} : Before(t, q, r),
           Cardinality(DOMAIN t) <= MaxRadios + 1
    PROVE  r \in DOMAIN Evict(t)
<1> DEFINE n == Cardinality(DOMAIN t)
           S == Oldest(t, Batch(n))
<1>1. IsFiniteSet(DOMAIN t) /\ n \in Nat /\ MaxRadios \in Nat
  BY TableFinite, StateManagerAssumption DEF IsTable
<1>2. CASE n <= MaxRadios
  BY <1>2 DEF Evict
<1>3. CASE ~ (n <= MaxRadios)
  <2>1. Batch(n) \in 0 .. n /\ Batch(n) < n
    BY <1>1, <1>3, BatchBounds
  <2>2. S \in SUBSET DOMAIN t /\ IsOldest(t, S, Batch(n))
    BY <2>1, OldestExists DEF Oldest, IsTable
  <2> HIDE DEF S
  <2>3. PICK b \in DOMAIN t : b \notin S
    BY <2>1, <2>2 DEF IsOldest
  <2>4. \A q \in DOMAIN t : t[q].lastSeen \in Int /\ t[q].pos \in Int
    BY StateManagerAssumption, FS_CardinalityType
    DEF IsTable, Tables, RadioRec, Times
  <2>5. r \notin S
    <3>1. SUFFICES ASSUME r \in S PROVE FALSE
      OBVIOUS
    <3>2. Before(t, r, b) /\ b # r
      BY <2>2, <2>3, <3>1 DEF IsOldest
    <3>3. Before(t, b, r)
      BY <3>2
    <3> QED BY <2>4, <3>2, <3>3 DEF Before
  <2>6. DOMAIN Evict(t) = DOMAIN t \ S
    BY <1>3, <2>2, KeepTable DEF Evict, S
  <2> QED BY <2>5, <2>6
<1> QED BY <1>2, <1>3

(* Touching and flagging keep a table within the cap. *)
LEMMA TouchTable ==
    ASSUME NEW t, IsTable(t), Cardinality(DOMAIN t) <= MaxRadios,
           NEW r \in Radios, NEW ts \in Times
    PROVE  /\ IsTable(Touch(t, r, ts))
           /\ Cardinality(DOMAIN Touch(t, r, ts)) <= MaxRadios
<1>1. CASE r \in DOMAIN t
  <2> DEFINE u == [t EXCEPT ![r].lastSeen = Later(t[r].lastSeen, ts)]
  <2>1. Touch(t, r, ts) = u /\ DOMAIN u = DOMAIN t
    BY <1>1 DEF Touch
  <2>2. \A q \in DOMAIN t : t[q] \in RadioRec
    BY DEF IsTable, Tables
  <2>3. Later(t[r].lastSeen, ts) \in Times
    BY <1>1, <2>2 DEF Later, RadioRec
  <2>4. \A q \in DOMAIN t : u[q] \in RadioRec /\ u[q].pos = t[q].pos
    BY <1>1, <2>2, <2>3 DEF RadioRec
  <2>5. u \in [DOMAIN t -> RadioRec]
    BY <1>1, <2>2, <2>3 DEF RadioRec, IsTable, Tables
  <2>6. IsTable(u)
    <3>1. u \in Tables
      BY <2>5 DEF IsTable, Tables
    <3> HIDE DEF u
    <3> QED BY <2>1, <2>4, <3>1 DEF IsTable, Ranked
  <2> QED BY <2>1, <2>6
<1>2. CASE r \notin DOMAIN t
  <2>1. IsTable(Insert(t, r, ts))
    BY <1>2, InsertTable
  <2> QED BY <1>2, <2>1, EvictTable DEF Touch
<1> QED BY <1>1, <1>2

LEMMA FlagTable ==
    ASSUME NEW t, IsTable(t), NEW r, NEW b \in BOOLEAN
    PROVE  IsTable(Flag(t, r, b)) /\ DOMAIN Flag(t, r, b) = DOMAIN t
<1>1. CASE r \in DOMAIN t
  <2> DEFINE u == [t EXCEPT ![r].encrypted = b]
  <2>1. Flag(t, r, b) = u /\ DOMAIN u = DOMAIN t
    BY <1>1 DEF Flag
  <2>2. \A q \in DOMAIN t : t[q] \in RadioRec
    BY DEF IsTable, Tables
  <2>3. \A q \in DOMAIN t : u[q] \in RadioRec /\ u[q].pos = t[q].pos
    BY <1>1, <2>2 DEF RadioRec
  <2>4. u \in [DOMAIN t -> RadioRec]
    BY <1>1, <2>2 DEF RadioRec, IsTable, Tables
  <2>5. u \in Tables
    BY <2>4 DEF IsTable, Tables
  <2> HIDE DEF u
  <2> QED BY <2>1, <2>3, <2>5 DEF IsTable, Ranked
<1>2. CASE r \notin DOMAIN t
  BY <1>2 DEF Flag
<1> QED BY <1>1, <1>2

(* The radio just heard stays in the table, when it is the most recent. *)
LEMMA TouchKeepsNewest ==
    ASSUME NEW t, IsTable(t), Cardinality(DOMAIN t) <= MaxRadios,
           NEW r \in Radios, NEW ts \in Times,
           \A q \in DOMAIN t : t[q].lastSeen <= ts
    PROVE  r \in DOMAIN Touch(t, r, ts)
<1>1. CASE r \in DOMAIN t
  BY <1>1 DEF Touch
<1>2. CASE r \notin DOMAIN t
  <2> DEFINE i == Insert(t, r, ts)
  <2>1. /\ IsTable(i) /\ DOMAIN i = DOMAIN t \cup {r}
        /\ Cardinality(DOMAIN i) = Cardinality(DOMAIN t) + 1
    BY <1>2, InsertTable
  <2>2. \A q \in DOMAIN i \ {r} : Before(i, q, r)
    <3>1. ASSUME NEW q \in DOMAIN t PROVE Before(i, q, r)
      <4>1. i[q] = t[q] /\ i[r].lastSeen = ts /\ i[r].pos = Cardinality(DOMAIN t)
        BY <1>2 DEF Insert
      <4>2. t[q].pos < Cardinality(DOMAIN t)
        BY DEF IsTable, Ranked
      <4>3. t[q].lastSeen \in Int /\ ts \in Int
        BY StateManagerAssumption DEF IsTable, Tables, RadioRec, Times
      <4> HIDE DEF i
      <4> QED BY <4>1, <4>2, <4>3 DEF Before
    <3> HIDE DEF i
    <3> QED BY <2>1, <3>1
  <2>3. Cardinality(DOMAIN i) <= MaxRadios + 1
    BY <2>1, TableFinite, StateManagerAssumption DEF IsTable
  <2>4. r \in DOMAIN Evict(i)
    <3> HIDE DEF i
    <3> QED BY <2>1, <2>2, <2>3, EvictKeepsNewest
  <2> QED BY <1>2, <2>4 DEF Touch
<1> QED BY <1>1, <1>2

(* Eviction drops only radios last heard no later than those it keeps. *)
LEMMA EvictDropsOldest ==
    ASSUME NEW t, IsTable(t)
    PROVE  /\ \A b \in DOMAIN Evict(t) : Evict(t)[b].lastSeen = t[b].lastSeen
           /\ \A a \in DOMAIN t \ DOMAIN Evict(t), b \in DOMAIN Evict(t) :
                  t[a].lastSeen <= t[b].lastSeen
<1> DEFINE n == Cardinality(DOMAIN t)
           S == Oldest(t, Batch(n))
<1>1. IsFiniteSet(DOMAIN t) /\ n \in Nat /\ MaxRadios \in Nat
  BY TableFinite, StateManagerAssumption DEF IsTable
<1>2. CASE n <= MaxRadios
  BY <1>2 DEF Evict
<1>3. CASE ~ (n <= MaxRadios)
  <2>1. Batch(n) \in 0 .. n
    BY <1>1, <1>3, BatchBounds
  <2>2. S \in SUBSET DOMAIN t /\ IsOldest(t, S, Batch(n))
    BY <2>1, OldestExists DEF Oldest, IsTable
  <2>3. Evict(t) = Keep(t, DOMAIN t \ S)
    BY <1>3 DEF Evict
  <2> HIDE DEF S
  <2>4. /\ DOMAIN Evict(t) = DOMAIN t \ S
        /\ \A b \in DOMAIN Evict(t) : Evict(t)[b].lastSeen = t[b].lastSeen
    BY <2>3, KeepTable
  <2>5. \A a \in S, b \in DOMAIN t \ S : t[a].lastSeen <= t[b].lastSeen
    <3>1. \A q \in DOMAIN t : t[q].lastSeen \in Int
      BY StateManagerAssumption DEF IsTable, Tables, RadioRec, Times
    <3>2. \A a \in S, b \in DOMAIN t \ S : Before(t, a, b)
      BY <2>2 DEF IsOldest
    <3> QED BY <2>2, <3>1, <3>2 DEF Before
  <2> QED BY <2>2, <2>4, <2>5
<1> QED BY <1>2, <1>3

(* So does a radio that is heard: the others keep their time, its own only *)
(* grows, and is that of the event if it was not in the table.             *)
LEMMA TouchDropsOldest ==
    ASSUME NEW t, IsTable(t), NEW r \in Radios, NEW ts \in Times
    PROVE  LET u == Touch(t, r, ts)
           IN  /\ \A b \in DOMAIN u \cap DOMAIN t : t[b].lastSeen <= u[b].lastSeen
               /\ \A b \in DOMAIN u \ DOMAIN t : u[b].lastSeen = ts
               /\ \A a \in DOMAIN t \ DOMAIN u, b \in DOMAIN u :
                      t[a].lastSeen <= u[b].lastSeen
<1>0. /\ \A q \in DOMAIN t : t[q] \in RadioRec /\ t[q].lastSeen \in Int
      /\ ts \in Int
  BY StateManagerAssumption DEF IsTable, Tables, RadioRec, Times
<1>1. CASE r \in DOMAIN t
  <2> DEFINE u == [t EXCEPT ![r].lastSeen = Later(t[r].lastSeen, ts)]
  <2>1. Touch(t, r, ts) = u /\ DOMAIN u = DOMAIN t
    BY <1>1 DEF Touch
  <2>2. \A b \in DOMAIN t : t[b].lastSeen <= u[b].lastSeen
    BY <1>0, <1>1 DEF Later, RadioRec
  <2> HIDE DEF u
  <2> QED BY <2>1, <2>2
<1>2. CASE r \notin DOMAIN t
  <2> DEFINE i == Insert(t, r, ts)
             u == Evict(i)
  <2>1. Touch(t, r, ts) = u /\ IsTable(i) /\ DOMAIN i = DOMAIN t \cup {r}
    BY <1>2, InsertTable DEF Touch
  <2>2. i[r].lastSeen = ts /\ \A q \in DOMAIN t : i[q] = t[q]
    BY <1>2 DEF Insert
  <2>3. DOMAIN u \subseteq DOMAIN i
    <3> HIDE DEF i
    <3> QED BY <2>1, EvictTable
  <2>4. /\ \A b \in DOMAIN u : u[b].lastSeen = i[b].lastSeen
        /\ \A a \in DOMAIN i \ DOMAIN u, b \in DOMAIN u : i[a].lastSeen <= i[b].lastSeen
    <3> HIDE DEF i
    <3> QED BY <2>1, EvictDropsOldest
  <2> HIDE DEF i, u
  <2>5. \A b \in DOMAIN u \cap DOMAIN t : t[b].lastSeen <= u[b].lastSeen
    BY <1>0, <2>2, <2>4
  <2>6. \A b \in DOMAIN u \ DOMAIN t : u[b].lastSeen = ts
    BY <2>1, <2>2, <2>3, <2>4
  <2>7. \A a \in DOMAIN t \ DOMAIN u, b \in DOMAIN u : t[a].lastSeen <= u[b].lastSeen
    BY <2>1, <2>2, <2>3, <2>4
  <2> QED BY <2>1, <2>5, <2>6, <2>7
<1> QED BY <1>1, <1>2

-----------------------------------------------------------------------------
(* What the operations on the calls do to them.                            *)

CallMaps == UNION {[K -> CallRec] : K \in SUBSET Keys}

LEMMA UnexpiredCalls ==
    ASSUME NEW cs \in CallMaps, NEW now
    PROVE  /\ Unexpired(cs, now) \in CallMaps
           /\ DOMAIN Unexpired(cs, now)
                 = DOMAIN cs \ {k \in DOMAIN cs : Stale(cs[k], now)}
           /\ \A k \in DOMAIN Unexpired(cs, now) : Unexpired(cs, now)[k] = cs[k]
<1>1. PICK K \in SUBSET Keys : cs \in [K -> CallRec]
  BY DEF CallMaps
<1> DEFINE D == {j \in DOMAIN cs : ~Stale(cs[j], now)}
<1>2. D \in SUBSET Keys /\ \A k \in D : cs[k] \in CallRec
  BY <1>1
<1>3. Unexpired(cs, now) \in [D -> CallRec]
  BY <1>2 DEF Unexpired
<1> QED BY <1>2, <1>3 DEF Unexpired, CallMaps

LEMMA PutCalls ==
    ASSUME NEW cs \in CallMaps, NEW k \in Keys, NEW c \in CallRec
    PROVE  Put(cs, k, c) \in CallMaps
<1>1. PICK K \in SUBSET Keys : cs \in [K -> CallRec]
  BY DEF CallMaps
<1>2. Put(cs, k, c) \in [K \cup {k} -> CallRec]
  BY <1>1 DEF Put
<1> QED BY <1>2 DEF CallMaps

(* The two records a voice frame can leave at its key. *)
LEMMA CallRecords ==
    ASSUME NEW ts \in Times
    PROVE  /\ \A c \in CallRec : Extend(c, ts) \in CallRec
           /\ \A src \in Radios, tgt \in Talkgroups : NewCall(src, tgt, ts) \in CallRec
<1>1. ASSUME NEW c \in CallRec PROVE Extend(c, ts) \in CallRec
  <2>1. (IF c.frames < MaxFrames THEN c.frames + 1 ELSE c.frames) \in 1 .. MaxFrames
    BY StateManagerAssumption DEF CallRec
  <2> QED BY <2>1 DEF Extend, CallRec
<1>2. \A src \in Radios, tgt \in Talkgroups : NewCall(src, tgt, ts) \in CallRec
  BY StateManagerAssumption DEF NewCall, CallRec
<1> QED BY <1>1, <1>2

-----------------------------------------------------------------------------
(* Type correctness and the cap.                                           *)

TypeCap == TypeOK /\ CapHolds

LEMMA EmptyTable ==
    ASSUME NEW t, t = [r \in {} |-> r]
    PROVE  IsTable(t) /\ Cardinality(DOMAIN t) <= MaxRadios
<1>1. t \in [{} -> RadioRec]
  OBVIOUS
<1>2. IsTable(t)
  BY <1>1 DEF IsTable, Tables, Ranked
<1> QED BY <1>2, FS_EmptySet, StateManagerAssumption

LEMMA TypeCapInit == Init => TypeCap
<1> SUFFICES ASSUME Init PROVE TypeCap
  OBVIOUS
<1>1. PICK snap \in Snapshots : radios = Evict(snap)
  BY DEF Init
<1>2. IsTable(radios) /\ CapHolds
  BY <1>1, EvictTable, StateManagerAssumption DEF IsTable, CapHolds
<1>3. calls \in [{} -> CallRec]
  BY DEF Init
<1> QED BY <1>2, <1>3 DEF Init, TypeCap, TypeOK, IsTable

LEMMA TypeCapStep == TypeCap /\ [Next]_vars => TypeCap'
<1> SUFFICES ASSUME TypeCap, [Next]_vars PROVE TypeCap'
  OBVIOUS
<1> USE DEF TypeCap
<1>0. /\ IsTable(radios) /\ Cardinality(DOMAIN radios) <= MaxRadios
      /\ calls \in CallMaps
  BY DEF TypeOK, CapHolds, IsTable, CallMaps
<1> DEFINE Good == /\ IsTable(radios') /\ Cardinality(DOMAIN radios') <= MaxRadios
                   /\ calls' \in CallMaps
                   /\ open' \in SUBSET (Keys \X Radios \X Talkgroups)
<1>1. ASSUME NEW ch \in Channels, NEW ts \in Times, Arrive(ch, ts), Good,
             heard' \in Radios \cup {None}
      PROVE  TypeCap'
  BY <1>1 DEF Arrive, TypeOK, CapHolds, IsTable, CallMaps
<1>2. \A now, K : /\ Expired(open, calls, now) \in SUBSET (Keys \X Radios \X Talkgroups)
                  /\ Ended(Expired(open, calls, now), Unexpired(calls, now), K)
                        \in SUBSET (Keys \X Radios \X Talkgroups)
  BY DEF TypeOK, Expired, Ended
<1>3. ASSUME NEW ch \in Channels, NEW ts \in Times, NEW slot \in Slots,
             NEW src \in Radios, NEW tgt \in Talkgroups,
             VoiceCall(ch, slot, src, tgt, ts)
      PROVE  TypeCap'
  <2> DEFINE k == CallKey(ch, slot)
             live == Unexpired(calls, ts)
             same == k \in DOMAIN live /\ live[k].src = src /\ live[k].tgt = tgt
  <2>1. live \in CallMaps /\ k \in Keys
    BY <1>0, UnexpiredCalls DEF Keys, CallKey
  <2>2. /\ IsTable(Touch(radios, src, ts))
        /\ Cardinality(DOMAIN Touch(radios, src, ts)) <= MaxRadios
    BY <1>0, TouchTable
  <2>3. Arrive(ch, ts) /\ heard' \in Radios \cup {None}
    BY <1>3 DEF VoiceCall, Newest
  <2>4. CASE same
    <3>1. live[k] \in CallRec
      BY <2>1, <2>4 DEF CallMaps
    <3>2. Put(live, k, Extend(live[k], ts)) \in CallMaps
      BY <2>1, <3>1, CallRecords, PutCalls
    <3>3. /\ radios' = Touch(radios, src, ts)
          /\ calls' = Put(live, k, Extend(live[k], ts))
          /\ open' = Expired(open, calls, ts)
      BY <1>3, <2>4 DEF VoiceCall
    <3> HIDE DEF live, k
    <3> QED BY <1>1, <1>2, <2>2, <2>3, <3>2, <3>3
  <2>5. CASE ~same
    <3>1. Put(live, k, NewCall(src, tgt, ts)) \in CallMaps
      BY <2>1, CallRecords, PutCalls
    <3>2. /\ radios' = Flag(Touch(radios, src, ts), src, FALSE)
          /\ calls' = Put(live, k, NewCall(src, tgt, ts))
          /\ open' = (Ended(Expired(open, calls, ts), live, {k} \cap DOMAIN live) \ Orphans(k))
                        \cup {<<k, src, tgt>>}
      BY <1>3, <2>5 DEF VoiceCall
    <3>3. IsTable(radios') /\ Cardinality(DOMAIN radios') <= MaxRadios
      BY <2>2, <3>2, FlagTable
    <3>4. open' \in SUBSET (Keys \X Radios \X Talkgroups)
      BY <1>2, <2>1, <3>2
    <3> HIDE DEF live, k
    <3> QED BY <1>1, <2>3, <3>1, <3>2, <3>3, <3>4
  <2> QED BY <2>4, <2>5
<1>4. ASSUME NEW ch \in Channels, NEW ts \in Times, NEW r \in Radios,
             RadioEvent(ch, r, ts)
      PROVE  TypeCap'
  <2>1. Unexpired(calls, ts) \in CallMaps
    BY <1>0, UnexpiredCalls
  <2> QED BY <1>0, <1>1, <1>2, <1>4, <2>1, TouchTable DEF RadioEvent, Newest
<1>5. ASSUME NEW ch \in Channels, NEW ts \in Times,
             NEW src \in Radios, NEW tgt \in Radios, PairEvent(ch, src, tgt, ts)
      PROVE  TypeCap'
  <2>1. Unexpired(calls, ts) \in CallMaps
    BY <1>0, UnexpiredCalls
  <2>2. /\ IsTable(Touch(radios, src, ts))
        /\ Cardinality(DOMAIN Touch(radios, src, ts)) <= MaxRadios
    BY <1>0, TouchTable
  <2>3. /\ IsTable(radios')
        /\ Cardinality(DOMAIN radios') <= MaxRadios
    BY <1>5, <2>2, TouchTable DEF PairEvent
  <2> QED BY <1>1, <1>2, <1>5, <2>1, <2>3 DEF PairEvent, Newest
<1>6. ASSUME NEW ch \in Channels, NEW ts \in Times, NEW slot \in Slots,
             Encryption(ch, slot, ts)
      PROVE  TypeCap'
  <2> DEFINE k == CallKey(ch, slot)
             live == Unexpired(calls, ts)
  <2>1. live \in CallMaps
    BY <1>0, UnexpiredCalls
  <2>2. Arrive(ch, ts) /\ heard' = None /\ open' = Expired(open, calls, ts)
    BY <1>6 DEF Encryption
  <2>3. CASE k \in DOMAIN live
    <3>1. calls' = [live EXCEPT ![k].encrypted = TRUE]
          /\ radios' = Flag(radios, live[k].src, TRUE)
      BY <1>6, <2>3 DEF Encryption
    <3>2. calls' \in CallMaps
      <4>1. PICK K \in SUBSET Keys : live \in [K -> CallRec]
        BY <2>1 DEF CallMaps
      <4>2. calls' \in [K -> CallRec]
        <5> HIDE DEF live, k
        <5> QED BY <2>3, <3>1, <4>1 DEF CallRec
      <4> QED BY <4>2 DEF CallMaps
    <3> HIDE DEF live, k
    <3> QED BY <1>0, <1>1, <1>2, <2>2, <3>1, <3>2, FlagTable
  <2>4. CASE k \notin DOMAIN live
    <3>1. calls' = live /\ radios' = radios
      BY <1>6, <2>4 DEF Encryption
    <3> HIDE DEF live, k
    <3> QED BY <1>0, <1>1, <1>2, <2>1, <2>2, <3>1
  <2> QED BY <2>3, <2>4
<1>7. ASSUME NEW ch \in Channels, NEW ts \in Times, OtherEvent(ch, ts)
      PROVE  TypeCap'
  <2>1. Unexpired(calls, ts) \in CallMaps
    BY <1>0, UnexpiredCalls
  <2> QED BY <1>0, <1>1, <1>2, <1>7, <2>1 DEF OtherEvent
<1>8. ASSUME NEW now \in Times, Tick(now)
      PROVE  TypeCap'
  <2>1. Unexpired(calls, now) \in CallMaps
    BY <1>0, UnexpiredCalls
  <2> QED BY <1>2, <1>8, <2>1 DEF Tick, TypeOK, CapHolds, CallMaps
<1>9. CASE Reset
  <2>1. IsTable(radios') /\ Cardinality(DOMAIN radios') <= MaxRadios
    BY <1>9, EmptyTable DEF Reset
  <2>2. calls' \in [{} -> CallRec]
    BY <1>9 DEF Reset
  <2> QED BY <1>9, <2>1, <2>2 DEF Reset, TypeOK, CapHolds, IsTable
<1>10. ASSUME NEW snap \in Snapshots \cup {radios}, NEW start \in Times,
              Restart(snap, start)
       PROVE  TypeCap'
  <2>1. IsTable(snap)
    BY <1>0, StateManagerAssumption DEF IsTable
  <2>2. IsTable(radios') /\ Cardinality(DOMAIN radios') <= MaxRadios
    BY <1>10, <2>1, EvictTable DEF Restart
  <2>3. calls' \in [{} -> CallRec]
    BY <1>10 DEF Restart
  <2> QED BY <1>10, <2>2, <2>3 DEF Restart, TypeOK, CapHolds, IsTable
<1>11. CASE UNCHANGED vars
  BY <1>11 DEF vars, TypeOK, CapHolds
<1> QED BY <1>3, <1>4, <1>5, <1>6, <1>7, <1>8, <1>9, <1>10, <1>11 DEF Next, Event

(* Every reachable state is well typed. *)
THEOREM TypeInvariant == Spec => []TypeOK
<1>1. TypeCap => TypeOK
  BY DEF TypeCap
<1> QED BY <1>1, TypeCapInit, TypeCapStep, PTL DEF Spec

(* The table never holds more than max_radios radios, whatever the clocks  *)
(* of the channels say and whatever snapshot was loaded.                   *)
THEOREM CapInvariant == Spec => []CapHolds
<1>1. TypeCap => CapHolds
  BY DEF TypeCap
<1> QED BY <1>1, TypeCapInit, TypeCapStep, PTL DEF Spec

-----------------------------------------------------------------------------
(* Callbacks.                                                              *)

Ids(cs) == {CallId(cs, k) : k \in DOMAIN cs}

(* What expiry announces is the end of the calls that do not go on. *)
LEMMA ExpiredIds ==
    ASSUME NEW cs \in CallMaps, NEW now
    PROVE  /\ Ids(Unexpired(cs, now)) \subseteq Ids(cs)
           /\ \A o : Expired(o, cs, now) = o \ (Ids(cs) \ Ids(Unexpired(cs, now)))
<1> DEFINE live == Unexpired(cs, now)
           X == {k \in DOMAIN cs : Stale(cs[k], now)}
<1>1. DOMAIN live = DOMAIN cs \ X /\ \A k \in DOMAIN live : live[k] = cs[k]
  BY UnexpiredCalls
<1> HIDE DEF live
<1>2. \A k \in DOMAIN live : CallId(live, k) = CallId(cs, k)
  BY <1>1 DEF CallId
<1>3. \A k, j \in DOMAIN cs : CallId(cs, k) = CallId(cs, j) => k = j
  BY DEF CallId
<1>4. \A o : Expired(o, cs, now) = o \ {CallId(cs, k) : k \in X}
  BY DEF Expired, Ended
<1>5. /\ {CallId(cs, k) : k \in DOMAIN cs \ X} \subseteq Ids(cs)
      /\ {CallId(cs, k) : k \in X}
            = Ids(cs) \ {CallId(cs, k) : k \in DOMAIN cs \ X}
  BY <1>3 DEF Ids
<1>6. {CallId(cs, k) : k \in DOMAIN cs \ X} = Ids(live)
  BY <1>1, <1>2 DEF Ids
<1> QED BY <1>4, <1>5, <1>6 DEF live

(* Replacing the call of a key ends the old one and announces the new one. *)
LEMMA PutIds ==
    ASSUME NEW cs, NEW k, NEW c, NEW K, K = {k} \cap DOMAIN cs
    PROVE  /\ Ids(Put(cs, k, c)) = Ended(Ids(cs), cs, K)
                                      \cup {<<k, c.src, c.tgt>>}
           /\ k \in DOMAIN cs /\ c.src = cs[k].src /\ c.tgt = cs[k].tgt
                 => Ids(Put(cs, k, c)) = Ids(cs)
<1> DEFINE new == Put(cs, k, c)
<1>1. /\ DOMAIN new = DOMAIN cs \cup {k} /\ new[k] = c
      /\ \A j \in DOMAIN cs \ {k} : new[j] = cs[j]
  BY DEF Put
<1> HIDE DEF new
<1>2. /\ CallId(new, k) = <<k, c.src, c.tgt>>
      /\ \A j \in DOMAIN cs \ {k} : CallId(new, j) = CallId(cs, j)
  BY <1>1 DEF CallId
<1>3. Ids(new) = {CallId(cs, j) : j \in DOMAIN cs \ {k}} \cup {<<k, c.src, c.tgt>>}
  BY <1>1, <1>2 DEF Ids
<1>4. \A i, j \in DOMAIN cs : CallId(cs, i) = CallId(cs, j) => i = j
  BY DEF CallId
<1>5. Ended(Ids(cs), cs, K) = {CallId(cs, j) : j \in DOMAIN cs \ {k}}
  BY <1>4 DEF Ended, Ids
<1>6. ASSUME k \in DOMAIN cs, c.src = cs[k].src, c.tgt = cs[k].tgt
      PROVE  Ids(new) = Ids(cs)
  BY <1>3, <1>6 DEF Ids, CallId
<1> QED BY <1>3, <1>5, <1>6 DEF new

(* Every call in progress was announced: what the action property needs to *)
(* be inductive.                                                           *)
Announced == Ids(calls) \subseteq open

LEMMA CallbacksStep ==
    ASSUME TypeCap, Announced, [Next]_vars
    PROVE  /\ Ids(calls') \subseteq open'
           /\ Reset \/ open' \ Ids(calls') \subseteq open \ Ids(calls)
<1> DEFINE Live(now) == Unexpired(calls, now)
           Fair == /\ Ids(calls') \subseteq open'
                   /\ open' \ Ids(calls') \subseteq open \ Ids(calls)
<1>0. calls \in CallMaps
  BY DEF TypeCap, TypeOK, CallMaps
<1>1. \A now : /\ Expired(open, calls, now) = open \ (Ids(calls) \ Ids(Live(now)))
               /\ Ids(Live(now)) \subseteq Ids(calls)
               /\ Live(now) \in CallMaps
  BY <1>0, ExpiredIds, UnexpiredCalls
(* A step that does no more than expire calls is fair to the listener. *)
<1>2. ASSUME NEW now, open' = Expired(open, calls, now), Ids(calls') = Ids(Live(now))
      PROVE  Fair
  BY <1>1, <1>2 DEF Announced
<1>3. ASSUME NEW ch \in Channels, NEW ts \in Times, NEW slot \in Slots,
             NEW src \in Radios, NEW tgt \in Talkgroups,
             VoiceCall(ch, slot, src, tgt, ts)
      PROVE  Fair
  <2> DEFINE k == CallKey(ch, slot)
             live == Unexpired(calls, ts)
             same == k \in DOMAIN live /\ live[k].src = src /\ live[k].tgt = tgt
  <2>1. CASE same
    <3>1. calls' = Put(live, k, Extend(live[k], ts)) /\ open' = Expired(open, calls, ts)
      BY <1>3, <2>1 DEF VoiceCall
    <3>2. live[k] \in CallRec
      BY <1>1, <2>1 DEF CallMaps
    <3>3. /\ Extend(live[k], ts).src = live[k].src
          /\ Extend(live[k], ts).tgt = live[k].tgt
      <4> HIDE DEF live, k
      <4> QED BY <3>2 DEF Extend, CallRec
    <3> DEFINE c == Extend(live[k], ts)
    <3>4. c.src = live[k].src /\ c.tgt = live[k].tgt /\ k \in DOMAIN live
      BY <2>1, <3>3
    <3>5. Ids(calls') = Ids(live)
      <4>1. calls' = Put(live, k, c)
        BY <3>1
      <4> HIDE DEF live, k, c
      <4> QED BY <4>1, <3>4, PutIds
    <3> QED BY <1>2, <3>1, <3>5
  <2>2. CASE ~same
    <3> DEFINE c == NewCall(src, tgt, ts)
               K == {k} \cap DOMAIN live
               E == {CallId(live, j) : j \in K}
    <3>1. /\ calls' = Put(live, k, c)
          /\ open' = (Ended(Expired(open, calls, ts), live, K) \ Orphans(k))
                        \cup {<<k, src, tgt>>}
      BY <1>3, <2>2 DEF VoiceCall
    <3>2. c.src = src /\ c.tgt = tgt
      BY DEF NewCall
    <3>3. Ids(calls') = (Ids(live) \ E) \cup {<<k, src, tgt>>}
      <4>1. K = {k} \cap DOMAIN live
        OBVIOUS
      <4>2. Ended(Ids(live), live, K) = Ids(live) \ E
        BY DEF Ended
      <4> HIDE DEF live, k, c, K, E
      <4> QED BY <4>1, <4>2, <3>1, <3>2, PutIds
    <3>4. open' = (((open \ (Ids(calls) \ Ids(live))) \ E) \ Orphans(k))
                     \cup {<<k, src, tgt>>}
      BY <1>1, <3>1 DEF Ended
    <3>5. Orphans(k) \cap Ids(calls) = {} /\ Ids(live) \subseteq Ids(calls)
      BY <1>1 DEF Orphans, Active, Ids
    <3>6. Ids(calls) \subseteq open
      BY DEF Announced
    <3> DEFINE new == Ids(calls')
               old == Ids(calls)
               on == Ids(live)
               orphans == Orphans(k)
               id == <<k, src, tgt>>
    <3>7. /\ new = (on \ E) \cup {id}
          /\ open' = (((open \ (old \ on)) \ E) \ orphans) \cup {id}
          /\ orphans \cap old = {} /\ on \subseteq old /\ old \subseteq open
      BY <3>3, <3>4, <3>5, <3>6
    <3> HIDE DEF new, old, on, E, orphans, id
    <3>8. new \subseteq open' /\ open' \ new \subseteq open \ old
      BY <3>7
    <3> QED BY <3>8 DEF new, old
  <2> QED BY <2>1, <2>2
<1>4. ASSUME NEW ch \in Channels, NEW ts \in Times, NEW slot \in Slots,
             Encryption(ch, slot, ts)
      PROVE  Fair
  <2> DEFINE k == CallKey(ch, slot)
             live == Unexpired(calls, ts)
  <2>0. open' = Expired(open, calls, ts)
    BY <1>4 DEF Encryption
  <2>1. CASE k \in DOMAIN live
    <3>1. calls' = [live EXCEPT ![k].encrypted = TRUE]
      BY <1>4, <2>1 DEF Encryption
    <3>2. \A j \in DOMAIN live : live[j] \in CallRec
      BY <1>1 DEF CallMaps
    <3>3. Ids(calls') = Ids(live)
      <4> HIDE DEF live, k
      <4>1. DOMAIN calls' = DOMAIN live
            /\ \A j \in DOMAIN live : CallId(calls', j) = CallId(live, j)
        BY <2>1, <3>1, <3>2 DEF CallId, CallRec
      <4> QED BY <4>1 DEF Ids
    <3> QED BY <1>2, <2>0, <3>3
  <2>2. CASE k \notin DOMAIN live
    BY <1>2, <1>4, <2>0, <2>2 DEF Encryption
  <2> QED BY <2>1, <2>2
<1>5. ASSUME \E snap \in Snapshots \cup {radios}, start \in Times : Restart(snap, start)
      PROVE  Fair
  BY <1>5 DEF Restart, Ids
<1>6. Reset => Ids(calls') \subseteq open'
  BY DEF Reset, Ids
<1>7. UNCHANGED vars => Fair
  BY DEF vars, Ids, CallId, Announced
<1>8. ASSUME NEW now, calls' = Unexpired(calls, now), open' = Expired(open, calls, now)
      PROVE  Fair
  BY <1>2, <1>8
<1> HIDE DEF Fair
<1>9. /\ \A ch, r, ts : RadioEvent(ch, r, ts) => Fair
      /\ \A ch, src, tgt, ts : PairEvent(ch, src, tgt, ts) => Fair
      /\ \A ch, ts : OtherEvent(ch, ts) => Fair
      /\ \A now : Tick(now) => Fair
  BY <1>8 DEF RadioEvent, PairEvent, OtherEvent, Tick
<1>10. Fair \/ (Reset /\ Ids(calls') \subseteq open')
  BY <1>3, <1>4, <1>5, <1>6, <1>7, <1>9 DEF Next, Event
<1> QED BY <1>10 DEF Fair

(* No call starts unannounced, and none ends unannounced but in a reset,   *)
(* for any number of channels, slots and radios.                           *)
THEOREM CallbacksAnnounced == Spec => CallbacksBalanced
<1>1. Init => Announced
  BY DEF Init, Announced, Ids
<1>2. TypeCap /\ Announced /\ [Next]_vars => Announced'
  BY CallbacksStep DEF Announced
<1>3. TypeCap /\ Announced /\ [Next]_vars
         => [/\ Active' \subseteq open'
             /\ open' \ Active' \subseteq open \ Active \/ Reset]_vars
  <2>1. Active = Ids(calls) /\ Active' = Ids(calls')
    BY DEF Active, Ids
  <2> QED BY <2>1, CallbacksStep
<1> QED BY <1>1, <1>2, <1>3, TypeCapInit, TypeCapStep, PTL DEF Spec, CallbacksBalanced

-----------------------------------------------------------------------------
(* The radio just heard.                                                   *)

LEMMA HeardStep == TypeCap /\ LastHeardIsLive /\ [Next]_vars => LastHeardIsLive'
<1> SUFFICES ASSUME TypeCap, LastHeardIsLive, [Next]_vars PROVE LastHeardIsLive'
  OBVIOUS
<1>0. IsTable(radios) /\ Cardinality(DOMAIN radios) <= MaxRadios
  BY DEF TypeCap, TypeOK, CapHolds, IsTable
<1>1. ASSUME NEW t, IsTable(t), Cardinality(DOMAIN t) <= MaxRadios,
             NEW r \in Radios, NEW ts \in Times, Newest(t, r, ts) # None
      PROVE  Newest(t, r, ts) = r /\ r \in DOMAIN Touch(t, r, ts)
  BY <1>1, TouchKeepsNewest DEF Newest
<1>2. ASSUME NEW ch \in Channels, NEW ts \in Times, NEW slot \in Slots,
             NEW src \in Radios, NEW tgt \in Talkgroups,
             VoiceCall(ch, slot, src, tgt, ts)
      PROVE  LastHeardIsLive'
  <2>1. /\ heard' = Newest(radios, src, ts)
        /\ \/ radios' = Touch(radios, src, ts)
           \/ radios' = Flag(Touch(radios, src, ts), src, FALSE)
    BY <1>2 DEF VoiceCall
  <2>2. DOMAIN radios' = DOMAIN Touch(radios, src, ts)
    BY <1>0, <2>1, TouchTable, FlagTable
  <2> QED BY <1>0, <1>1, <2>1, <2>2 DEF LastHeardIsLive
<1>3. ASSUME NEW ch \in Channels, NEW ts \in Times, NEW r \in Radios,
             RadioEvent(ch, r, ts)
      PROVE  LastHeardIsLive'
  BY <1>0, <1>1, <1>3 DEF RadioEvent, LastHeardIsLive
<1>4. ASSUME NEW ch \in Channels, NEW ts \in Times,
             NEW src \in Radios, NEW tgt \in Radios, PairEvent(ch, src, tgt, ts)
      PROVE  LastHeardIsLive'
  BY <1>0, <1>1, <1>4, TouchTable DEF PairEvent, LastHeardIsLive
<1>5. ASSUME heard' = None \/ UNCHANGED <<heard, radios>> PROVE LastHeardIsLive'
  BY <1>5 DEF LastHeardIsLive
<1> QED BY <1>2, <1>3, <1>4, <1>5
        DEF Next, Event, Encryption, OtherEvent, Tick, Reset, Restart, vars

(* The most recent radio is never the one evicted to make room for it. *)
THEOREM HeardInvariant == Spec => []LastHeardIsLive
<1>1. Init => LastHeardIsLive
  BY DEF Init, LastHeardIsLive
<1> QED BY <1>1, TypeCapInit, TypeCapStep, HeardStep, PTL DEF Spec

-----------------------------------------------------------------------------
(* Who is evicted.                                                         *)

(* No radio of t that is missing from u was heard later than one u has,    *)
(* unless that one was heard at ts.                                        *)
Outlived(t, u, ts) ==
    \A a \in DOMAIN t \ DOMAIN u, b \in DOMAIN u :
        t[a].lastSeen <= u[b].lastSeen \/ u[b].lastSeen = ts

LEMMA TwoTouches ==
    ASSUME NEW t, IsTable(t), Cardinality(DOMAIN t) <= MaxRadios,
           NEW r \in Radios, NEW q \in Radios, NEW ts \in Times
    PROVE  Outlived(t, Touch(Touch(t, r, ts), q, ts), ts)
<1> DEFINE u == Touch(t, r, ts)
           w == Touch(u, q, ts)
<1>1. IsTable(u) /\ Cardinality(DOMAIN u) <= MaxRadios
  BY TouchTable
<1>2. /\ \A b \in DOMAIN u \cap DOMAIN t : t[b].lastSeen <= u[b].lastSeen
      /\ \A a \in DOMAIN t \ DOMAIN u, b \in DOMAIN u : t[a].lastSeen <= u[b].lastSeen
  BY TouchDropsOldest
<1> HIDE DEF u
<1>3. IsTable(w)
  BY <1>1, TouchTable
<1>4. /\ \A b \in DOMAIN w \cap DOMAIN u : u[b].lastSeen <= w[b].lastSeen
      /\ \A b \in DOMAIN w \ DOMAIN u : w[b].lastSeen = ts
      /\ \A a \in DOMAIN u \ DOMAIN w, b \in DOMAIN w : u[a].lastSeen <= w[b].lastSeen
  BY <1>1, TouchDropsOldest
<1> HIDE DEF w
<1>5. /\ \A b \in DOMAIN t : t[b].lastSeen \in Int
      /\ \A b \in DOMAIN u : u[b].lastSeen \in Int
      /\ \A b \in DOMAIN w : w[b].lastSeen \in Int
  BY <1>1, <1>3, StateManagerAssumption DEF IsTable, Tables, RadioRec, Times
<1>6. ASSUME NEW a \in DOMAIN t \ DOMAIN w, NEW b \in DOMAIN w
      PROVE  t[a].lastSeen <= w[b].lastSeen \/ w[b].lastSeen = ts
  <2>1. CASE a \in DOMAIN u
    BY <1>2, <1>4, <1>5, <2>1
  <2>2. CASE a \notin DOMAIN u /\ b \in DOMAIN u
    BY <1>2, <1>4, <1>5, <2>2
  <2>3. CASE a \notin DOMAIN u /\ b \notin DOMAIN u
    BY <1>4, <2>3
  <2> QED BY <2>1, <2>2, <2>3
<1> QED BY <1>6 DEF Outlived, u, w

LEMMA FlagKeepsTimes ==
    ASSUME NEW t, IsTable(t), NEW r, NEW b \in BOOLEAN
    PROVE  \A q \in DOMAIN t : Flag(t, r, b)[q].lastSeen = t[q].lastSeen
<1>1. \A q \in DOMAIN t : t[q] \in RadioRec
  BY DEF IsTable, Tables
<1> QED BY <1>1 DEF Flag, RadioRec

LEMMA EvictionStep ==
    ASSUME TypeCap, Next, lastEventAt' # None
    PROVE  Outlived(radios, radios', lastEventAt')
<1>0. IsTable(radios) /\ Cardinality(DOMAIN radios) <= MaxRadios
  BY DEF TypeCap, TypeOK, CapHolds, IsTable
<1>1. ASSUME NEW r \in Radios, NEW ts \in Times
      PROVE  /\ IsTable(Touch(radios, r, ts))
             /\ Outlived(radios, Touch(radios, r, ts), ts)
  <2>1. IsTable(Touch(radios, r, ts))
    BY <1>0, TouchTable
  <2>2. \A a \in DOMAIN radios \ DOMAIN Touch(radios, r, ts), b \in DOMAIN Touch(radios, r, ts) :
            radios[a].lastSeen <= Touch(radios, r, ts)[b].lastSeen
    BY <1>0, TouchDropsOldest
  <2> QED BY <2>1, <2>2 DEF Outlived
<1>2. ASSUME NEW ch \in Channels, NEW ts \in Times, NEW slot \in Slots,
             NEW src \in Radios, NEW tgt \in Talkgroups,
             VoiceCall(ch, slot, src, tgt, ts)
      PROVE  Outlived(radios, radios', lastEventAt')
  <2> DEFINE u == Touch(radios, src, ts)
  <2>1. lastEventAt' = ts /\ (radios' = u \/ radios' = Flag(u, src, FALSE))
    BY <1>2 DEF VoiceCall, Arrive
  <2>2. IsTable(u) /\ Outlived(radios, u, ts)
    BY <1>1
  <2> HIDE DEF u
  <2>3. DOMAIN Flag(u, src, FALSE) = DOMAIN u
        /\ \A q \in DOMAIN u : Flag(u, src, FALSE)[q].lastSeen = u[q].lastSeen
    BY <2>2, FlagTable, FlagKeepsTimes
  <2> QED BY <2>1, <2>2, <2>3 DEF Outlived
<1>3. ASSUME NEW ch \in Channels, NEW ts \in Times, NEW r \in Radios, RadioEvent(ch, r, ts)
      PROVE  Outlived(radios, radios', lastEventAt')
  BY <1>1, <1>3 DEF RadioEvent, Arrive
<1>4. ASSUME NEW ch \in Channels, NEW ts \in Times,
             NEW src \in Radios, NEW tgt \in Radios, PairEvent(ch, src, tgt, ts)
      PROVE  Outlived(radios, radios', lastEventAt')
  BY <1>0, <1>4, TwoTouches DEF PairEvent, Arrive
<1>5. ASSUME NEW r, radios' = Flag(radios, r, TRUE)
      PROVE  Outlived(radios, radios', lastEventAt')
  BY <1>0, <1>5, FlagTable DEF Outlived
<1>6. CASE radios' = radios
  BY <1>6 DEF Outlived
<1>7. ASSUME NEW ch \in Channels, NEW ts \in Times, NEW slot \in Slots, Encryption(ch, slot, ts)
      PROVE  Outlived(radios, radios', lastEventAt')
  BY <1>5, <1>6, <1>7 DEF Encryption
<1>8. CASE Event
  BY <1>2, <1>3, <1>4, <1>6, <1>7, <1>8 DEF Event, OtherEvent
<1>9. CASE ~Event
  BY <1>6, <1>9 DEF Next, Tick, Reset, Restart
<1> QED BY <1>8, <1>9

(* The cap costs the radios that were silent the longest, for any cap, any *)
(* eviction share and however the clocks of the channels differ.           *)
THEOREM OldestEvicted == Spec => EvictsTheOldest
<1> DEFINE A == \A a \in DOMAIN radios \ DOMAIN radios', b \in DOMAIN radios' :
                    lastEventAt' # None => \/ radios[a].lastSeen <= radios'[b].lastSeen
                                           \/ radios'[b].lastSeen = lastEventAt'
<1>1. TypeCap /\ [Next]_vars => [A]_vars
  BY EvictionStep DEF Outlived
<1> HIDE DEF A
<1>2. Spec => [][A]_vars
  BY <1>1, TypeCapInit, TypeCapStep, PTL DEF Spec
<1> QED BY <1>2 DEF A, EvictsTheOldest

-----------------------------------------------------------------------------
(* What a step may do to a call.                                           *)

(* The only calls a step alters are the one of its key and the expired.    *)
LEMMA CallStep ==
    ASSUME TypeCap, Next, NEW k \in DOMAIN calls, lastEventAt' # None
    PROVE  \/ k \in DOMAIN calls' /\ calls'[k] = calls[k]
           \/ /\ k \notin DOMAIN calls'
              /\ \/ Stale(calls[k], lastEventAt')
                 \/ \E now \in Times : Stale(calls[k], now) /\ Tick(now)
           \/ /\ k \in DOMAIN calls' /\ k[1] = curChannel'
              /\ \/ ~Stale(calls[k], lastEventAt')
                 \/ calls'[k].frames = 1 /\ ~calls'[k].encrypted
<1>0. calls \in CallMaps
  BY DEF TypeCap, TypeOK, CallMaps
<1>1. \A now : LET live == Unexpired(calls, now)
               IN  \/ k \in DOMAIN live /\ live[k] = calls[k] /\ ~Stale(calls[k], now)
                   \/ k \notin DOMAIN live /\ Stale(calls[k], now)
  <2>1. ASSUME NEW now
        PROVE  LET live == Unexpired(calls, now)
               IN  \/ k \in DOMAIN live /\ live[k] = calls[k] /\ ~Stale(calls[k], now)
                   \/ k \notin DOMAIN live /\ Stale(calls[k], now)
    BY <1>0, UnexpiredCalls
  <2> QED BY <2>1
<1>2. ASSUME NEW ch \in Channels, NEW ts \in Times, NEW slot \in Slots,
             NEW src \in Radios, NEW tgt \in Talkgroups,
             VoiceCall(ch, slot, src, tgt, ts)
      PROVE  \/ k \in DOMAIN calls' /\ calls'[k] = calls[k]
             \/ k \notin DOMAIN calls' /\ Stale(calls[k], lastEventAt')
             \/ /\ k \in DOMAIN calls' /\ k[1] = curChannel'
                /\ \/ ~Stale(calls[k], lastEventAt')
                   \/ calls'[k].frames = 1 /\ ~calls'[k].encrypted
  <2> DEFINE j == CallKey(ch, slot)
             live == Unexpired(calls, ts)
  <2>1. lastEventAt' = ts /\ curChannel' = ch
    BY <1>2 DEF VoiceCall, Arrive
  <2>2. PICK c : /\ calls' = Put(live, j, c)
                 /\ \/ j \in DOMAIN live /\ c = Extend(live[j], ts)
                    \/ c = NewCall(src, tgt, ts)
    BY <1>2 DEF VoiceCall
  <2>3. \/ k \in DOMAIN live /\ live[k] = calls[k] /\ ~Stale(calls[k], ts)
        \/ k \notin DOMAIN live /\ Stale(calls[k], ts)
    BY <1>1
  <2>4. j[1] = ch
    BY DEF CallKey
  <2> HIDE DEF live, j
  <2>5. CASE k # j
    BY <2>1, <2>2, <2>3, <2>5 DEF Put
  <2>6. CASE k = j
    <3>1. k \in DOMAIN calls' /\ calls'[k] = c
      BY <2>2, <2>6 DEF Put
    <3>2. NewCall(src, tgt, ts).frames = 1 /\ ~NewCall(src, tgt, ts).encrypted
      BY DEF NewCall
    <3> QED BY <2>1, <2>2, <2>3, <2>4, <2>6, <3>1, <3>2
  <2> QED BY <2>5, <2>6
<1>3. ASSUME NEW ch \in Channels, NEW ts \in Times, NEW slot \in Slots,
             Encryption(ch, slot, ts)
      PROVE  \/ k \in DOMAIN calls' /\ calls'[k] = calls[k]
             \/ k \notin DOMAIN calls' /\ Stale(calls[k], lastEventAt')
             \/ /\ k \in DOMAIN calls' /\ k[1] = curChannel'
                /\ ~Stale(calls[k], lastEventAt')
  <2> DEFINE j == CallKey(ch, slot)
             live == Unexpired(calls, ts)
  <2>1. lastEventAt' = ts /\ curChannel' = ch
    BY <1>3 DEF Encryption, Arrive
  <2>2. calls' = live \/ calls' = [live EXCEPT ![j].encrypted = TRUE]
    BY <1>3 DEF Encryption
  <2>3. \/ k \in DOMAIN live /\ live[k] = calls[k] /\ ~Stale(calls[k], ts)
        \/ k \notin DOMAIN live /\ Stale(calls[k], ts)
    BY <1>1
  <2>4. j[1] = ch
    BY DEF CallKey
  <2> HIDE DEF live, j
  <2> QED BY <2>1, <2>2, <2>3, <2>4
<1>4. ASSUME NEW ch \in Channels, NEW ts \in Times,
             Arrive(ch, ts), calls' = Unexpired(calls, ts)
      PROVE  \/ k \in DOMAIN calls' /\ calls'[k] = calls[k]
             \/ k \notin DOMAIN calls' /\ Stale(calls[k], lastEventAt')
  BY <1>1, <1>4 DEF Arrive
<1>5. ASSUME NEW now \in Times, Tick(now)
      PROVE  \/ k \in DOMAIN calls' /\ calls'[k] = calls[k]
             \/ k \notin DOMAIN calls' /\ Stale(calls[k], now)
  BY <1>1, <1>5 DEF Tick
<1>6. ~Reset /\ \A snap, start : ~Restart(snap, start)
  BY DEF Reset, Restart
<1>7. CASE Event
  BY <1>2, <1>3, <1>4, <1>7 DEF Event, RadioEvent, PairEvent, OtherEvent
<1>8. CASE \E now \in Times : Tick(now)
  BY <1>5, <1>8
<1> QED BY <1>6, <1>7, <1>8 DEF Next

(* A frame or an encryption marker touches only a call that has not been   *)
(* silent for longer than the timeout.                                     *)
THEOREM NoLeakAcrossGap == Spec => NoFrameJoinsStaleCall
<1> DEFINE A == \A k \in DOMAIN calls \cap DOMAIN calls' :
                   \/ calls'[k] = calls[k]
                   \/ ~Stale(calls[k], lastEventAt')
                   \/ calls'[k].frames = 1 /\ ~calls'[k].encrypted
<1>1. TypeCap /\ [Next]_vars => [A]_vars
  <2> SUFFICES ASSUME TypeCap, Next, NEW k \in DOMAIN calls \cap DOMAIN calls'
               PROVE  \/ calls'[k] = calls[k]
                      \/ ~Stale(calls[k], lastEventAt')
                      \/ calls'[k].frames = 1 /\ ~calls'[k].encrypted
    OBVIOUS
  <2>1. CASE lastEventAt' # None
    BY <2>1, CallStep
  <2>2. CASE lastEventAt' = None
    <3>1. \A ch \in Channels, ts \in Times : ~Arrive(ch, ts)
      BY <2>2, StateManagerAssumption DEF Arrive
    <3>2. ~Event
      <4>1. ASSUME NEW ch \in Channels, NEW ts \in Times
            PROVE  /\ \A slot, src, tgt : ~VoiceCall(ch, slot, src, tgt, ts)
                   /\ \A r : ~RadioEvent(ch, r, ts)
                   /\ \A src, tgt : ~PairEvent(ch, src, tgt, ts)
                   /\ \A slot : ~Encryption(ch, slot, ts)
                   /\ ~OtherEvent(ch, ts)
        BY <3>1, Zenon DEF VoiceCall, RadioEvent, PairEvent, Encryption, OtherEvent
      <4> QED BY <4>1, Zenon DEF Event
    <3>3. ASSUME NEW now \in Times, Tick(now) PROVE calls'[k] = calls[k]
      BY <3>3, UnexpiredCalls DEF Tick, TypeCap, TypeOK, CallMaps
    <3> QED BY <3>2, <3>3 DEF Next, Reset, Restart
  <2> QED BY <2>1, <2>2
<1> HIDE DEF A
<1>2. Spec => [][A]_vars
  BY <1>1, TypeCapInit, TypeCapStep, PTL DEF Spec
<1> QED BY <1>2 DEF A, NoFrameJoinsStaleCall

(* An event of one channel never alters another channel's call. *)
THEOREM ChannelsIsolated == Spec => ChannelsIndependent
<1> DEFINE A == \A k \in DOMAIN calls :
          lastEventAt' # None /\ k[1] # curChannel' =>
             \/ k \in DOMAIN calls' /\ calls'[k] = calls[k]
             \/ /\ k \notin DOMAIN calls'
                /\ \/ Stale(calls[k], lastEventAt')
                   \/ \E now \in Times : Stale(calls[k], now) /\ Tick(now)
<1>1. TypeCap /\ [Next]_vars => [A]_vars
  <2> SUFFICES ASSUME TypeCap, Next, NEW k \in DOMAIN calls,
                      lastEventAt' # None, k[1] # curChannel'
               PROVE  \/ k \in DOMAIN calls' /\ calls'[k] = calls[k]
                      \/ /\ k \notin DOMAIN calls'
                         /\ \/ Stale(calls[k], lastEventAt')
                            \/ \E now \in Times : Stale(calls[k], now) /\ Tick(now)
    OBVIOUS
  <2> QED BY CallStep
<1> HIDE DEF A
<1>2. Spec => [][A]_vars
  BY <1>1, TypeCapInit, TypeCapStep, PTL DEF Spec
<1> QED BY <1>2 DEF A, ChannelsIndependent
=============================================================================
