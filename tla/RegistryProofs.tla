--------------------------- MODULE RegistryProofs ---------------------------
(***************************************************************************)
(* Lemmas that the other proofs cite: a least natural, and about the       *)
(* connection tables that the budget period is a clock value between       *)
(* creation and now, and every connection change keeps the tables well     *)
(* typed.                                                                  *)
(***************************************************************************)
EXTENDS ConnectionRegistry, WellFoundedInduction, TLAPS

\* A nonempty set of naturals has a least element.
LEMMA LeastExists ==
    ASSUME NEW S \in SUBSET Nat, S # {}
    PROVE  \E i \in S : \A j \in S : i <= j
<1> DEFINE R == OpToRel(<, Nat)
<1>1. IsWellFoundedOn(R, Nat)
  BY NatLessThanWellFounded
<1>2. \A i, j \in Nat : i < j => <<i, j>> \in R
  BY DEF OpToRel
<1> HIDE DEF R
<1>3. PICK i \in S : \A j \in S : <<j, i>> \notin R
  BY <1>1, WFMin
<1>4. \A j \in S : i \in Nat /\ j \in Nat /\ ~(j < i)
  BY <1>2, <1>3
<1>5. \A j \in S : i <= j
  BY <1>4
<1> QED BY <1>5

\* Euclidean division, the only fact about \div the period arithmetic needs.
LEMMA DivisionBounds ==
    ASSUME NEW a \in Nat, NEW b \in Nat, b > 0
    PROVE  /\ (a \div b) * b \in Nat
           /\ (a \div b) * b <= a
<1>1. /\ a \div b \in Int /\ a % b \in Int
      /\ a = b * (a \div b) + (a % b)
      /\ 0 <= a % b /\ a % b < b
  OBVIOUS
<1> DEFINE q == a \div b
           r == a % b
<1>2. q \in Int /\ r \in Int /\ a = b * q + r /\ 0 <= r /\ r < b
  BY <1>1
<1> HIDE DEF q, r
<1>3. q >= 0
  <2>1. SUFFICES ASSUME q <= -1 PROVE FALSE
    BY <1>2
  <2>2. b * q <= -b
    BY <2>1, <1>2
  <2> QED BY <2>2, <1>2
<1>4. b * q \in Int /\ b * q >= 0 /\ q * b = b * q
  BY <1>2, <1>3
<1> QED BY <1>2, <1>4 DEF q

\* period_start never leaves created_at..now, so it is a period of the table.
LEMMA PeriodStartInTime ==
    ASSUME NEW c \in ConnectionIds, NEW created \in Time, NEW t \in Time,
           created <= t
    PROVE  /\ PeriodStart(c, created, t) \in Time
           /\ created <= PeriodStart(c, created, t)
           /\ PeriodStart(c, created, t) <= t
<1> USE RegistryAssumption DEF Time
<1>1. CASE Interval[c] = 0
  BY <1>1 DEF PeriodStart
<1>2. CASE Interval[c] # 0
  <2> DEFINE step == ((t - created) \div Interval[c]) * Interval[c]
  <2>1. t - created \in Nat /\ Interval[c] \in Nat /\ Interval[c] > 0
    BY <1>2
  <2>2. step \in Nat /\ step <= t - created
    BY <2>1, DivisionBounds
  <2>3. PeriodStart(c, created, t) = created + step
    BY <1>2 DEF PeriodStart
  <2> HIDE DEF step
  <2> QED BY <2>2, <2>3
<1> QED BY <1>1, <1>2

\* insert_connection_state keeps the connection tables well typed.
LEMMA InsertConnectionStateType ==
    ASSUME RegistryTypeOK,
           NEW c \in ConnectionIds, NEW created \in Time, NEW amount \in Nat,
           NEW t \in Time, created <= t,
           InsertConnectionState(c, created, amount, t)
    PROVE  RegistryTypeOK'
<1> DEFINE period == PeriodStart(c, created, t)
<1>1. period \in Time
  BY PeriodStartInTime
<1>2. t \in Nat
  BY RegistryAssumption DEF Time
<1> HIDE DEF period
<1>3. connections' \in [ConnectionIds -> ConnectionRow]
  BY <1>1 DEF RegistryTypeOK, InsertConnectionState, ConnectionRow, period
<1>4. outbox' \in [ConnectionIds -> OutboxRow \cup {NoChange}]
  BY <1>2 DEF RegistryTypeOK, InsertConnectionState, OutboxRow
<1>5. used' \in [ConnectionIds -> [Time -> Nat]]
  BY <1>1 DEF RegistryTypeOK, InsertConnectionState, period
<1> QED BY <1>3, <1>4, <1>5 DEF RegistryTypeOK

\* tombstone_connection keeps the connection tables well typed.
LEMMA TombstoneConnectionType ==
    ASSUME RegistryTypeOK,
           NEW c \in ConnectionIds, NEW r \in Nat, NEW t \in Time,
           TombstoneConnection(c, r, t)
    PROVE  RegistryTypeOK'
<1>1. t \in Nat /\ r + 1 \in Nat
  BY RegistryAssumption DEF Time
<1>2. connections' \in [ConnectionIds -> ConnectionRow]
  BY <1>1, ZenonT(60) DEF RegistryTypeOK, TombstoneConnection, ConnectionRow
<1>3. outbox' \in [ConnectionIds -> OutboxRow \cup {NoChange}]
  BY <1>1 DEF RegistryTypeOK, TombstoneConnection, OutboxRow
<1> QED BY <1>2, <1>3 DEF RegistryTypeOK, TombstoneConnection
=============================================================================
