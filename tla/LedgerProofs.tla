---------------------------- MODULE LedgerProofs ----------------------------
(***************************************************************************)
(* The two tables of the ledger that processes share, for every number of  *)
(* processes, events, hashes, connections and tokens and every amount and  *)
(* duration.                                                               *)
(*                                                                         *)
(* Payment accounting: its types, one debit per payment hash, the limit a  *)
(* reservation can never pass, that it implements PaymentLifecycle, and    *)
(* that the used amount of every period is the sum of its debits.  The     *)
(* first four follow from the types alone: each method revalidates what it *)
(* needs in its own transaction.  The sum needs induction over the set of  *)
(* events.                                                                 *)
(*                                                                         *)
(* Event claims: types, exclusive leases and the refinement of             *)
(* EventLifecycle.  ExclusiveLease is not inductive: nothing in it says    *)
(* why a lease that has not expired is the one the row names.  ClaimsInv   *)
(* adds that, and that random tokens are not shared.                       *)
(***************************************************************************)
EXTENDS PaymentAccounting, EventClaims, RegistryProofs, FiniteSetTheorems

-----------------------------------------------------------------------------
(* Payment accounting. *)

\* A stored row, whatever condition says there is one.
LEMMA StoredRow ==
    ASSUME AccountingTypeOK, NEW e \in EventIds, Exists(e)
    PROVE  attempts[e] \in AttemptRow
BY DEF AccountingTypeOK, Exists, NoAttempt

\* Rounding msat up to sat stays in Nat.
LEMMA CeilNat ==
    ASSUME NEW m \in Nat
    PROVE  MsatToSatCeil(m) \in Nat
<1>1. m + 999 \in Nat /\ m + 999 \in Int
  OBVIOUS
<1>2. (m + 999) \div 1000 \in Int /\ (m + 999) \div 1000 >= 0
  BY <1>1
<1> QED BY <1>2 DEF MsatToSatCeil

LEMMA ChargedNat ==
    ASSUME NEW c \in ConnectionIds, NEW principal \in Nat, NEW fee \in Nat
    PROVE  Charged(c, principal, fee) \in Nat
<1>1. MsatToSatCeil(principal) \in Nat /\ MsatToSatCeil(fee) \in Nat
  BY CeilNat
<1> QED BY <1>1 DEF Charged

\* Reserved(row) is what an unresolved row holds.
LEMMA ReservedNat ==
    ASSUME NEW row \in AttemptRow
    PROVE  Reserved(row) \in Nat
BY DEF AttemptRow, Reserved

\* adjust_period_used stores a natural number: the subtraction is checked.
LEMMA AdjustType ==
    ASSUME RegistryTypeOK, NEW row \in AttemptRow, NEW old \in Nat,
           NEW new \in Nat, AdjustPeriodUsed(row, old, new)
    PROVE  used' \in [ConnectionIds -> [Time -> Nat]]
<1>1. row.conn \in ConnectionIds /\ row.period \in Time
  BY DEF AttemptRow
<1>2. used[row.conn][row.period] \in Nat /\ used[row.conn] \in [Time -> Nat]
  BY <1>1 DEF RegistryTypeOK
<1>3. (used[row.conn][row.period] - old) + new \in Nat
  BY <1>2 DEF AdjustPeriodUsed
<1> QED BY <1>1, <1>2, <1>3 DEF RegistryTypeOK, AdjustPeriodUsed

-----------------------------------------------------------------------------
\* Each operation keeps the types.
LEMMA ReserveType ==
    ASSUME AccountingTypeOK, NEW e \in EventIds, NEW h \in Hashes,
           NEW c \in ConnectionIds, NEW r \in Nat, NEW principal \in Nat,
           NEW t \in Time, ReservePayment(e, h, c, r, principal, t)
    PROVE  AccountingTypeOK'
<1> DEFINE period == PeriodStart(c, connections[c].created_at, t)
<1>1. connections[c].created_at \in Time /\ connections[c].created_at <= t
  BY RegistryAssumption
  DEF AccountingTypeOK, RegistryTypeOK, ConnectionRow, ReservePayment, Time
<1>2. period \in Time
  BY <1>1, PeriodStartInTime
<1>3. MaximumFee[c] \in Nat
  BY RegistryAssumption
<1>4. /\ used' = [used EXCEPT ![c][period] = @ + principal + MaximumFee[c]]
      /\ attempts' = [attempts EXCEPT ![e] =
             [hash |-> h, conn |-> c, revision |-> r, period |-> period,
              principal |-> principal, fee_reserve |-> MaximumFee[c],
              state |-> "reserved", initiated |-> FALSE, legacy |-> FALSE,
              actual_principal |-> 0, actual_fee |-> 0, charged |-> 0,
              exceeded |-> FALSE, updated_at |-> t]]
      /\ connections' = connections /\ outbox' = outbox
  BY DEF ReservePayment
<1> HIDE DEF period
<1>5. used' \in [ConnectionIds -> [Time -> Nat]]
  <2>1. /\ used \in [ConnectionIds -> [Time -> Nat]]
        /\ used[c] \in [Time -> Nat] /\ used[c][period] \in Nat
    BY <1>2 DEF AccountingTypeOK, RegistryTypeOK
  <2>2. used[c][period] + principal + MaximumFee[c] \in Nat
    BY <2>1, <1>3
  <2> QED BY <2>1, <2>2, <1>2, <1>4
<1>6. attempts' \in [EventIds -> AttemptRow \cup {NoAttempt}]
  BY <1>2, <1>3, <1>4 DEF AccountingTypeOK, AttemptRow
<1> QED BY <1>4, <1>5, <1>6 DEF AccountingTypeOK, RegistryTypeOK

LEMMA InitiatedType ==
    ASSUME AccountingTypeOK, NEW e \in EventIds, NEW t \in Time,
           MarkPaymentInitiated(e, t)
    PROVE  AccountingTypeOK'
<1>1. attempts[e] \in AttemptRow
  BY StoredRow DEF MarkPaymentInitiated, InitiatedOk
<1>2. [attempts[e] EXCEPT !.initiated = TRUE, !.updated_at = t] \in AttemptRow
  BY <1>1 DEF AttemptRow
<1> QED BY <1>2 DEF MarkPaymentInitiated, AccountingTypeOK, RegistryTypeOK,
                    registryVars

LEMMA ReleaseType ==
    ASSUME AccountingTypeOK, NEW e \in EventIds, NEW t \in Time,
           ReleaseUninitiatedPayment(e, t)
    PROVE  AccountingTypeOK'
<1>1. attempts[e] \in AttemptRow
  BY StoredRow DEF ReleaseUninitiatedPayment, ReleaseOk
<1>2. used' \in [ConnectionIds -> [Time -> Nat]]
  BY <1>1, ReservedNat, AdjustType
  DEF ReleaseUninitiatedPayment, AccountingTypeOK
<1> QED BY <1>2 DEF ReleaseUninitiatedPayment, AccountingTypeOK, RegistryTypeOK

LEMMA PendingType ==
    ASSUME AccountingTypeOK, NEW e \in EventIds, NEW t \in Time,
           MarkPaymentPending(e, t)
    PROVE  AccountingTypeOK'
<1>1. attempts[e] \in AttemptRow
  BY StoredRow DEF MarkPaymentPending, PendingOk, Unresolved, Exists
<1>2. [attempts[e] EXCEPT !.state = "pending", !.updated_at = t] \in AttemptRow
  BY <1>1 DEF AttemptRow
<1> QED BY <1>2 DEF MarkPaymentPending, AccountingTypeOK, RegistryTypeOK,
                    registryVars

LEMMA FailedType ==
    ASSUME AccountingTypeOK, NEW e \in EventIds, NEW t \in Time,
           MarkPaymentFailed(e, t)
    PROVE  AccountingTypeOK'
<1>1. attempts[e] \in AttemptRow
  BY StoredRow DEF MarkPaymentFailed, FailedOk
<1>2. [attempts[e] EXCEPT !.state = "failed", !.updated_at = t] \in AttemptRow
  BY <1>1 DEF AttemptRow
<1>3. used' \in [ConnectionIds -> [Time -> Nat]]
  BY <1>1, ReservedNat, AdjustType
  DEF MarkPaymentFailed, AccountingTypeOK, RegistryTypeOK
<1> QED BY <1>2, <1>3 DEF MarkPaymentFailed, AccountingTypeOK, RegistryTypeOK

\* The row a settlement writes, named so that the proofs need not expand it.
Settled(row, principal, fee, t) ==
    [row EXCEPT
        !.state = "succeeded",
        !.actual_principal = MsatToSatCeil(principal),
        !.actual_fee = MsatToSatCeil(fee),
        !.charged = Charged(row.conn, principal, fee),
        !.exceeded = \/ MsatToSatCeil(principal) > row.principal
                     \/ CountFees[row.conn]
                        /\ MsatToSatCeil(fee) > row.fee_reserve,
        !.updated_at = t]

LEMMA SettledRow ==
    ASSUME NEW row \in AttemptRow, NEW principal \in Nat, NEW fee \in Nat,
           NEW t \in Time
    PROVE  /\ Settled(row, principal, fee, t) \in AttemptRow
           /\ Settled(row, principal, fee, t).state = "succeeded"
           /\ Settled(row, principal, fee, t).hash = row.hash
           /\ Settled(row, principal, fee, t).conn = row.conn
           /\ Settled(row, principal, fee, t).period = row.period
           /\ Settled(row, principal, fee, t).charged =
                Charged(row.conn, principal, fee)
           /\ Settled(row, principal, fee, t).exceeded =
                (\/ MsatToSatCeil(principal) > row.principal
                 \/ CountFees[row.conn]
                    /\ MsatToSatCeil(fee) > row.fee_reserve)
<1> DEFINE p == MsatToSatCeil(principal)
           f == MsatToSatCeil(fee)
           charged == Charged(row.conn, principal, fee)
           exceeded == \/ p > row.principal
                       \/ CountFees[row.conn] /\ f > row.fee_reserve
<1>1. row.conn \in ConnectionIds
  BY DEF AttemptRow
<1>2. p \in Nat /\ f \in Nat /\ charged \in Nat
  BY <1>1, CeilNat, ChargedNat
<1>3. exceeded \in BOOLEAN
  OBVIOUS
<1>4. Settled(row, principal, fee, t) =
        [row EXCEPT !.state = "succeeded", !.actual_principal = p,
                    !.actual_fee = f, !.charged = charged,
                    !.exceeded = exceeded, !.updated_at = t]
  BY DEF Settled
<1> HIDE DEF p, f, charged, exceeded
<1>5. Settled(row, principal, fee, t) \in AttemptRow
  BY <1>2, <1>3, <1>4, ZenonT(60) DEF AttemptRow
<1>6. /\ Settled(row, principal, fee, t).hash = row.hash
      /\ Settled(row, principal, fee, t).conn = row.conn
      /\ Settled(row, principal, fee, t).period = row.period
      /\ Settled(row, principal, fee, t).state = "succeeded"
      /\ Settled(row, principal, fee, t).charged = charged
      /\ Settled(row, principal, fee, t).exceeded = exceeded
  BY <1>4 DEF AttemptRow
<1> QED BY <1>5, <1>6 DEF p, f, charged, exceeded

LEMMA SettledKeeps ==
    ASSUME NEW row \in AttemptRow, NEW principal \in Nat, NEW fee \in Nat,
           NEW t \in Time, NEW new, new = Settled(row, principal, fee, t)
    PROVE  /\ new.hash = row.hash
           /\ new.conn = row.conn
           /\ new.period = row.period
           /\ new.revision = row.revision
           /\ new.principal = row.principal
           /\ new.fee_reserve = row.fee_reserve
           /\ new.legacy <=> row.legacy
           /\ new.initiated <=> row.initiated
           /\ new.updated_at = t /\ new.state = "succeeded"
<1> DEFINE p == MsatToSatCeil(principal)
           f == MsatToSatCeil(fee)
           charged == Charged(row.conn, principal, fee)
           exceeded == \/ p > row.principal
                       \/ CountFees[row.conn] /\ f > row.fee_reserve
<1>1. new = [row EXCEPT !.state = "succeeded", !.actual_principal = p,
                    !.actual_fee = f, !.charged = charged,
                    !.exceeded = exceeded, !.updated_at = t]
  BY DEF Settled
<1> HIDE DEF p, f, charged, exceeded
<1> QED BY <1>1 DEF AttemptRow

\* The two ways mark_payment_succeeded ends with Ok.
LEMMA SucceededCases ==
    ASSUME AccountingTypeOK, NEW e \in EventIds, NEW principal \in Nat,
           NEW fee \in Nat, NEW t \in Time,
           MarkPaymentSucceeded(e, principal, fee, t)
    PROVE  /\ attempts[e] \in AttemptRow /\ attempts[e].initiated
           /\ connections' = connections /\ outbox' = outbox
           /\ \/ /\ attempts[e].state = "succeeded"
                 /\ used' = used /\ attempts' = attempts
              \/ /\ attempts[e].state # "succeeded"
                 /\ AdjustPeriodUsed(attempts[e],
                        IF Unresolved(e) THEN Reserved(attempts[e]) ELSE 0,
                        Charged(attempts[e].conn, principal, fee))
                 /\ attempts' = [attempts EXCEPT ![e] =
                        Settled(attempts[e], principal, fee, t)]
<1>1. attempts[e] \in AttemptRow
  BY StoredRow DEF MarkPaymentSucceeded, SucceededOk
<1> QED BY <1>1 DEF MarkPaymentSucceeded, SucceededOk, Settled,
                    AccountingTypeOK

LEMMA SucceededType ==
    ASSUME AccountingTypeOK, NEW e \in EventIds, NEW principal \in Nat,
           NEW fee \in Nat, NEW t \in Time,
           MarkPaymentSucceeded(e, principal, fee, t)
    PROVE  AccountingTypeOK'
<1> DEFINE old == IF Unresolved(e) THEN Reserved(attempts[e]) ELSE 0
           charged == Charged(attempts[e].conn, principal, fee)
           settled == Settled(attempts[e], principal, fee, t)
<1>1. /\ attempts[e] \in AttemptRow
      /\ connections' = connections /\ outbox' = outbox
      /\ \/ used' = used /\ attempts' = attempts
         \/ /\ AdjustPeriodUsed(attempts[e], old, charged)
            /\ attempts' = [attempts EXCEPT ![e] = settled]
  BY SucceededCases
<1>2. settled \in AttemptRow
  BY <1>1, SettledRow
<1>3. old \in Nat
  BY <1>1, ReservedNat
<1>4. charged \in Nat
  BY <1>1, ChargedNat DEF AttemptRow
<1> HIDE DEF old, charged, settled
<1>5. used' \in [ConnectionIds -> [Time -> Nat]]
  BY <1>1, <1>3, <1>4, AdjustType DEF AccountingTypeOK, RegistryTypeOK
<1> QED BY <1>1, <1>2, <1>5 DEF AccountingTypeOK, RegistryTypeOK

LEMMA ConnectionStepType ==
    ASSUME AccountingTypeOK, ConnectionStep
    PROVE  AccountingTypeOK'
<1>0. RegistryTypeOK /\ attempts' = attempts
  BY DEF AccountingTypeOK, ConnectionStep
<1>1. PICK c \in ConnectionIds, t \in Time :
        \/ InsertConnection(c, t)
        \/ \E created \in Time, amount \in Principals :
               ImportConnection(c, created, amount, t)
        \/ TombstoneConnection(c, connections[c].revision, t)
  BY DEF ConnectionStep
<1>2. CASE InsertConnection(c, t)
  <2>1. t <= t
    BY RegistryAssumption DEF Time
  <2>2. RegistryTypeOK'
    BY <1>0, <1>2, <2>1, InsertConnectionStateType DEF InsertConnection
  <2> QED BY <1>0, <2>2 DEF AccountingTypeOK
<1>3. CASE \E created \in Time, amount \in Principals :
             ImportConnection(c, created, amount, t)
  <2>1. PICK created \in Time, amount \in Principals :
          created <= t /\ InsertConnectionState(c, created, amount, t)
    BY <1>3 DEF ImportConnection
  <2>2. amount \in Nat
    BY AccountingAssumption
  <2>3. RegistryTypeOK'
    BY <1>0, <2>1, <2>2, InsertConnectionStateType
  <2> QED BY <1>0, <2>3 DEF AccountingTypeOK
<1>4. CASE TombstoneConnection(c, connections[c].revision, t)
  <2>1. connections[c].revision \in Nat
    BY <1>0 DEF RegistryTypeOK, ConnectionRow
  <2>2. RegistryTypeOK'
    BY <1>0, <1>4, <2>1, TombstoneConnectionType
  <2> QED BY <1>0, <2>2 DEF AccountingTypeOK
<1> QED BY <1>1, <1>2, <1>3, <1>4

\* One transaction on the row of event e, with any arguments.
Transaction(e, t) ==
    \/ \E h \in Hashes, c \in ConnectionIds, r \in Nat, principal \in Nat :
           ReservePayment(e, h, c, r, principal, t)
    \/ MarkPaymentInitiated(e, t) \/ ReleaseUninitiatedPayment(e, t)
    \/ MarkPaymentPending(e, t) \/ MarkPaymentFailed(e, t)
    \/ \E principal \in Nat, fee \in Nat : MarkPaymentSucceeded(e, principal, fee, t)

\* A step, with the choices its caller made named.
LEMMA Steps ==
    ASSUME AccountingTypeOK, [AccountingNext]_accountingVars
    PROVE  \/ ConnectionStep
           \/ \E e \in EventIds, h \in Hashes, c \in ConnectionIds, r \in Nat,
                 principal \in Nat, t \in Time :
                  ReservePayment(e, h, c, r, principal, t)
           \/ \E e \in EventIds, t \in Time :
                  \/ MarkPaymentInitiated(e, t)
                  \/ ReleaseUninitiatedPayment(e, t)
                  \/ MarkPaymentPending(e, t)
                  \/ MarkPaymentFailed(e, t)
           \/ \E e \in EventIds, principal \in Nat, fee \in Nat, t \in Time :
                  MarkPaymentSucceeded(e, principal, fee, t)
           \/ UNCHANGED accountingVars
<1>1. \A c \in ConnectionIds : connections[c].revision \in Nat
  BY DEF AccountingTypeOK, RegistryTypeOK, ConnectionRow
<1>2. CASE Reserve
  <2>1. PICK e \in EventIds, h \in Hashes, c \in ConnectionIds,
             principal \in Principals, t \in Time :
          ReservePayment(e, h, c, connections[c].revision, principal, t)
    BY <1>2 DEF Reserve
  <2>2. principal \in Nat
    BY AccountingAssumption
  <2> QED BY <1>1, <2>1, <2>2
<1>3. CASE MarkSucceeded
  <2>1. PICK e \in EventIds, principal \in SettledMsat, fee \in FeeMsat,
             t \in Time : MarkPaymentSucceeded(e, principal, fee, t)
    BY <1>3 DEF MarkSucceeded
  <2>2. principal \in Nat /\ fee \in Nat
    BY AccountingAssumption
  <2> QED BY <2>1, <2>2
<1>4. CASE Initiate \/ Release \/ MarkPending \/ MarkFailed
  BY <1>4 DEF Initiate, Release, MarkPending, MarkFailed
<1> QED BY <1>2, <1>3, <1>4 DEF AccountingNext

LEMMA TransactionSteps ==
    ASSUME AccountingTypeOK, [AccountingNext]_accountingVars
    PROVE  \/ ConnectionStep \/ UNCHANGED accountingVars
           \/ \E e \in EventIds, t \in Time : Transaction(e, t)
BY Steps DEF Transaction

LEMMA AccountingTypeInit == AccountingInit => AccountingTypeOK
<1> SUFFICES ASSUME AccountingInit PROVE AccountingTypeOK
  OBVIOUS
<1>1. 0 \in Time
  BY RegistryAssumption DEF Time
<1>2. AbsentConnection \in ConnectionRow
  BY <1>1 DEF AbsentConnection, ConnectionRow
<1>3. RegistryTypeOK
  BY <1>2 DEF AccountingInit, RegistryInit, RegistryTypeOK
<1> QED BY <1>3 DEF AccountingInit, AccountingTypeOK

LEMMA AccountingTypeStep ==
    ASSUME AccountingTypeOK, [AccountingNext]_accountingVars
    PROVE  AccountingTypeOK'
<1>1. CASE UNCHANGED accountingVars
  BY <1>1 DEF accountingVars, AccountingTypeOK, RegistryTypeOK
<1> QED BY <1>1, Steps, ConnectionStepType, ReserveType, InitiatedType,
           ReleaseType, PendingType, FailedType, SucceededType

(***************************************************************************)
(* The accounting tables keep their types: in particular no refund or      *)
(* settlement drives used_sat of a period below zero.                      *)
(***************************************************************************)
THEOREM AccountingTypeCorrect == AccountingSpec => []AccountingTypeOK
<1>1. AccountingTypeOK /\ [AccountingNext]_accountingVars => AccountingTypeOK'
  BY AccountingTypeStep
<1> QED BY <1>1, AccountingTypeInit, PTL DEF AccountingSpec

-----------------------------------------------------------------------------
\* A row that is neither new nor moved keeps the hash it was reserved with.
LEMMA HashesKept ==
    ASSUME AccountingTypeOK, NEW e \in EventIds, NEW row,
           Exists(e), row.hash = attempts[e].hash,
           attempts' = [attempts EXCEPT ![e] = row]
    PROVE  OneAttemptPerHash => OneAttemptPerHash'
BY DEF AccountingTypeOK, OneAttemptPerHash, Exists

LEMMA OneAttemptStep ==
    ASSUME AccountingTypeOK, OneAttemptPerHash, [AccountingNext]_accountingVars
    PROVE  OneAttemptPerHash'
<1>1. CASE UNCHANGED accountingVars \/ ConnectionStep
  BY <1>1 DEF accountingVars, ConnectionStep, OneAttemptPerHash, Exists
<1>2. ASSUME NEW e \in EventIds, NEW h \in Hashes, NEW c \in ConnectionIds,
             NEW r \in Nat, NEW principal \in Nat, NEW t \in Time,
             ReservePayment(e, h, c, r, principal, t)
      PROVE  OneAttemptPerHash'
  <2>1. /\ \A f \in EventIds : ~(Exists(f) /\ attempts[f].hash = h)
        /\ \A f \in EventIds : f # e => attempts'[f] = attempts[f]
        /\ attempts'[e].hash = h
    BY <1>2 DEF ReservePayment, TrackedBy, AccountingTypeOK
  <2> QED BY <2>1 DEF OneAttemptPerHash, Exists
<1>3. ASSUME NEW e \in EventIds, NEW t \in Time,
             \/ MarkPaymentInitiated(e, t) \/ MarkPaymentPending(e, t)
             \/ MarkPaymentFailed(e, t)
      PROVE  OneAttemptPerHash'
  <2>1. Exists(e) /\ attempts[e] \in AttemptRow
    BY <1>3, StoredRow
    DEF MarkPaymentInitiated, MarkPaymentPending, MarkPaymentFailed,
        InitiatedOk, PendingOk, FailedOk, Unresolved, Exists
  <2>2. CASE attempts' = attempts
    BY <2>2 DEF OneAttemptPerHash, Exists
  <2>3. CASE attempts' # attempts
    <3>1. \/ attempts' = [attempts EXCEPT ![e] =
                 [attempts[e] EXCEPT !.initiated = TRUE, !.updated_at = t]]
          \/ attempts' = [attempts EXCEPT ![e] =
                 [attempts[e] EXCEPT !.state = "pending", !.updated_at = t]]
          \/ attempts' = [attempts EXCEPT ![e] =
                 [attempts[e] EXCEPT !.state = "failed", !.updated_at = t]]
      BY <1>3, <2>3
      DEF MarkPaymentInitiated, MarkPaymentPending, MarkPaymentFailed,
          AccountingTypeOK
    <3>2. /\ [attempts[e] EXCEPT !.initiated = TRUE, !.updated_at = t].hash =
                 attempts[e].hash
          /\ [attempts[e] EXCEPT !.state = "pending", !.updated_at = t].hash =
                 attempts[e].hash
          /\ [attempts[e] EXCEPT !.state = "failed", !.updated_at = t].hash =
                 attempts[e].hash
      BY <2>1 DEF AttemptRow
    <3> QED BY <2>1, <3>1, <3>2, HashesKept
  <2> QED BY <2>2, <2>3
<1>4. ASSUME NEW e \in EventIds, NEW t \in Time, ReleaseUninitiatedPayment(e, t)
      PROVE  OneAttemptPerHash'
  BY <1>4 DEF ReleaseUninitiatedPayment, OneAttemptPerHash, Exists, NoAttempt,
              AccountingTypeOK
<1>5. ASSUME NEW e \in EventIds, NEW principal \in Nat, NEW fee \in Nat,
             NEW t \in Time, MarkPaymentSucceeded(e, principal, fee, t)
      PROVE  OneAttemptPerHash'
  <2>1. CASE attempts' = attempts
    BY <2>1 DEF OneAttemptPerHash, Exists
  <2>2. CASE attempts' # attempts
    <3>1. /\ attempts[e] \in AttemptRow
          /\ attempts' = [attempts EXCEPT ![e] =
                             Settled(attempts[e], principal, fee, t)]
      BY <1>5, <2>2, SucceededCases
    <3>2. Exists(e)
      BY <3>1 DEF Exists, AttemptRow
    <3> QED BY <3>1, <3>2, SettledRow, HashesKept
  <2> QED BY <2>1, <2>2
<1> QED BY <1>1, <1>2, <1>3, <1>4, <1>5, Steps

(***************************************************************************)
(* reserve_payment's look-up by hash makes the hash unique for ever: one   *)
(* invoice has one debit, whichever events ask for it and in which order   *)
(* they reserve, release and reserve again.                                *)
(***************************************************************************)
THEOREM HashTrackedOnce == AccountingSpec => []OneAttemptPerHash
<1>1. AccountingInit => OneAttemptPerHash
  BY DEF AccountingInit, OneAttemptPerHash, Exists, NoAttempt
<1>2. AccountingTypeOK /\ OneAttemptPerHash /\ [AccountingNext]_accountingVars
        => OneAttemptPerHash'
  BY OneAttemptStep
<1> QED BY <1>1, <1>2, AccountingTypeCorrect, PTL DEF AccountingSpec

-----------------------------------------------------------------------------
\* What adjust_period_used does to one entry of the table.
LEMMA AdjustEntry ==
    ASSUME RegistryTypeOK, NEW row \in AttemptRow, NEW old \in Nat,
           NEW new \in Nat, AdjustPeriodUsed(row, old, new),
           NEW c \in ConnectionIds, NEW t \in Time
    PROVE  \/ used'[c][t] = used[c][t]
           \/ /\ c = row.conn /\ t = row.period
              /\ used'[c][t] = (used[c][t] - old) + new
<1>1. row.conn \in ConnectionIds /\ row.period \in Time
  BY DEF AttemptRow
<1>2. /\ used \in [ConnectionIds -> [Time -> Nat]]
      /\ used' = [used EXCEPT ![row.conn][row.period] = (@ - old) + new]
  BY DEF RegistryTypeOK, AdjustPeriodUsed
<1> QED BY <1>1, <1>2

\* A settlement within its authorization charges no more than it reserved.
LEMMA CoveredCharge ==
    ASSUME NEW row \in AttemptRow, NEW principal \in Nat, NEW fee \in Nat,
           ~(MsatToSatCeil(principal) > row.principal),
           ~(CountFees[row.conn] /\ MsatToSatCeil(fee) > row.fee_reserve)
    PROVE  Charged(row.conn, principal, fee) <= Reserved(row)
<1>1. MsatToSatCeil(principal) \in Nat /\ MsatToSatCeil(fee) \in Nat
  BY CeilNat
<1>2. row.principal \in Nat /\ row.fee_reserve \in Nat
  BY DEF AttemptRow
<1> QED BY <1>1, <1>2 DEF Charged, Reserved

\* A connection starts a period with no more than its limit.
LEMMA InsertWithinLimit ==
    ASSUME RegistryTypeOK, NEW c \in ConnectionIds, NEW created \in Time,
           NEW amount \in Nat, NEW t \in Time, created <= t,
           amount <= Limit[c], InsertConnectionState(c, created, amount, t)
    PROVE  \A d \in ConnectionIds, u \in Time :
               used'[d][u] = used[d][u] \/ used'[d][u] <= Limit[d]
<1> DEFINE period == PeriodStart(c, created, t)
<1>1. period \in Time
  BY PeriodStartInTime
<1>2. /\ used \in [ConnectionIds -> [Time -> Nat]]
      /\ used' = [used EXCEPT ![c][period] = amount]
  BY DEF RegistryTypeOK, InsertConnectionState
<1> HIDE DEF period
<1> QED BY <1>1, <1>2

\* A period that stays, shrinks or is within its limit needs no excuse.
LEMMA NoExcuseNeeded ==
    ASSUME AccountingTypeOK, AccountingTypeOK',
           \A c \in ConnectionIds, t \in Time :
               used'[c][t] <= used[c][t] \/ used'[c][t] <= Limit[c]
    PROVE  CoveredStep
<1>1. \A c \in ConnectionIds, t \in Time :
        used[c][t] \in Nat /\ used'[c][t] \in Nat /\ Limit[c] \in Nat
  BY RegistryAssumption DEF AccountingTypeOK, RegistryTypeOK
<1> QED BY <1>1 DEF CoveredStep

\* A reservation stays within the limit.
LEMMA ReserveCovered ==
    ASSUME AccountingTypeOK, AccountingTypeOK',
           NEW e \in EventIds, NEW h \in Hashes, NEW c \in ConnectionIds,
           NEW r \in Nat, NEW principal \in Nat, NEW t \in Time,
           ReservePayment(e, h, c, r, principal, t)
    PROVE  CoveredStep
<1>0. /\ RegistryTypeOK
      /\ \A d \in ConnectionIds, u \in Time :
           used[d][u] \in Nat /\ used'[d][u] \in Nat /\ Limit[d] \in Nat
  BY RegistryAssumption DEF AccountingTypeOK, RegistryTypeOK
<1> DEFINE period == PeriodStart(c, connections[c].created_at, t)
<1>1. connections[c].created_at \in Time /\ connections[c].created_at <= t
  BY RegistryAssumption
  DEF AccountingTypeOK, RegistryTypeOK, ConnectionRow, ReservePayment, Time
<1>2. period \in Time
  BY <1>1, PeriodStartInTime
<1>3. /\ used \in [ConnectionIds -> [Time -> Nat]]
      /\ used' = [used EXCEPT ![c][period] = @ + principal + MaximumFee[c]]
      /\ used[c][period] + principal + MaximumFee[c] <= Limit[c]
  BY DEF ReservePayment, FitsBudget, AccountingTypeOK, RegistryTypeOK
<1> HIDE DEF period
<1>4. \A d \in ConnectionIds, u \in Time :
        used'[d][u] = used[d][u] \/ used'[d][u] <= Limit[d]
  BY <1>2, <1>3
<1>5. \A d \in ConnectionIds, u \in Time :
        used'[d][u] <= used[d][u] \/ used'[d][u] <= Limit[d]
  BY <1>0, <1>4
<1> QED BY <1>0, <1>5, NoExcuseNeeded

\* A release or a refund lowers a period.
LEMMA RefundCovered ==
    ASSUME AccountingTypeOK, AccountingTypeOK', NEW e \in EventIds, NEW t \in Time,
           ReleaseUninitiatedPayment(e, t) \/ MarkPaymentFailed(e, t),
           used' # used
    PROVE  CoveredStep
<1>0. /\ RegistryTypeOK
      /\ \A d \in ConnectionIds, u \in Time :
           used[d][u] \in Nat /\ used'[d][u] \in Nat /\ Limit[d] \in Nat
  BY RegistryAssumption DEF AccountingTypeOK, RegistryTypeOK
<1>1. /\ attempts[e] \in AttemptRow
      /\ AdjustPeriodUsed(attempts[e], Reserved(attempts[e]), 0)
  BY StoredRow
  DEF ReleaseUninitiatedPayment, MarkPaymentFailed, ReleaseOk, FailedOk
<1>2. Reserved(attempts[e]) \in Nat
  BY <1>1, ReservedNat
<1>3. \A d \in ConnectionIds, u \in Time :
        \/ used'[d][u] = used[d][u]
        \/ used'[d][u] = (used[d][u] - Reserved(attempts[e])) + 0
  BY <1>0, <1>1, <1>2, AdjustEntry
<1>4. \A d \in ConnectionIds, u \in Time : used'[d][u] <= used[d][u]
  BY <1>0, <1>2, <1>3
<1> QED BY <1>0, <1>4, NoExcuseNeeded

\* What a settlement that changes its row stores there.
LEMMA SettlementStored ==
    ASSUME AccountingTypeOK, NEW e \in EventIds, NEW principal \in Nat, NEW fee \in Nat,
           NEW t \in Time, MarkPaymentSucceeded(e, principal, fee, t),
           attempts[e].state # "succeeded"
    PROVE  LET row == attempts[e]
               old == IF Unresolved(e) THEN Reserved(row) ELSE 0
           IN  /\ row \in AttemptRow /\ Exists(e)
               /\ AdjustPeriodUsed(row, old, Charged(row.conn, principal, fee))
               /\ attempts' = [attempts EXCEPT ![e] = Settled(row, principal, fee, t)]
               /\ attempts'[e].state = "succeeded"
               /\ attempts'[e].exceeded = (\/ MsatToSatCeil(principal) > row.principal
                                           \/ CountFees[row.conn]
                                              /\ MsatToSatCeil(fee) > row.fee_reserve)
<1> DEFINE row == attempts[e]
           old == IF Unresolved(e) THEN Reserved(row) ELSE 0
<1>1. /\ row \in AttemptRow
      /\ AdjustPeriodUsed(row, old, Charged(row.conn, principal, fee))
      /\ attempts' = [attempts EXCEPT ![e] = Settled(row, principal, fee, t)]
  BY SucceededCases
<1>2. Exists(e) /\ attempts'[e] = Settled(row, principal, fee, t)
  BY <1>1 DEF Exists, AttemptRow, AccountingTypeOK
<1>3. /\ Settled(row, principal, fee, t).state = "succeeded"
      /\ Settled(row, principal, fee, t).exceeded =
             (\/ MsatToSatCeil(principal) > row.principal
              \/ CountFees[row.conn] /\ MsatToSatCeil(fee) > row.fee_reserve)
  BY <1>1, SettledRow
<1> QED BY <1>1, <1>2, <1>3

\* A settlement raises one only if its reservation did not cover it.
LEMMA SettlementCovered ==
    ASSUME AccountingTypeOK, AccountingTypeOK',
           NEW e \in EventIds, NEW principal \in Nat, NEW fee \in Nat,
           NEW t \in Time, MarkPaymentSucceeded(e, principal, fee, t),
           used' # used
    PROVE  CoveredStep
<1>0. /\ RegistryTypeOK
      /\ \A d \in ConnectionIds, u \in Time :
           used[d][u] \in Nat /\ used'[d][u] \in Nat /\ Limit[d] \in Nat
  BY RegistryAssumption DEF AccountingTypeOK, RegistryTypeOK
<1> DEFINE row == attempts[e]
           old == IF Unresolved(e) THEN Reserved(row) ELSE 0
           charged == Charged(row.conn, principal, fee)
<1>1. /\ row \in AttemptRow /\ row.state # "succeeded" /\ Exists(e)
      /\ AdjustPeriodUsed(row, old, charged) /\ attempts'[e].state = "succeeded"
      /\ attempts'[e].exceeded = (\/ MsatToSatCeil(principal) > row.principal
                                  \/ CountFees[row.conn]
                                     /\ MsatToSatCeil(fee) > row.fee_reserve)
  <2>1. row.state # "succeeded"
    BY SucceededCases
  <2> QED BY <2>1, SettlementStored
<1>2. old \in Nat /\ charged \in Nat /\ Reserved(row) \in Nat
  BY <1>1, ReservedNat, ChargedNat DEF AttemptRow
<1>4. CASE attempts'[e].exceeded \/ row.state = "failed"
  <2>1. Uncovered(e)
    BY <1>1, <1>4 DEF Uncovered
  <2>2. \A d \in ConnectionIds, u \in Time :
          \/ used'[d][u] = used[d][u]
          \/ row.conn = d /\ row.period = u
    BY <1>0, <1>1, <1>2, AdjustEntry
  <2> QED BY <1>0, <2>1, <2>2 DEF CoveredStep
<1>5. CASE ~(attempts'[e].exceeded \/ row.state = "failed")
  <2>1. Unresolved(e) /\ charged <= Reserved(row)
    BY <1>1, <1>5, CoveredCharge DEF Unresolved, AttemptRow
  <2>2. charged <= old
    BY <2>1
  <2>3. \A d \in ConnectionIds, u \in Time :
          \/ used'[d][u] = used[d][u]
          \/ used'[d][u] = (used[d][u] - old) + charged
    BY <1>0, <1>1, <1>2, AdjustEntry
  <2> HIDE DEF old, charged
  <2>4. \A d \in ConnectionIds, u \in Time : used'[d][u] <= used[d][u]
    BY <1>0, <1>2, <2>2, <2>3
  <2> QED BY <1>0, <2>4, NoExcuseNeeded
<1> QED BY <1>4, <1>5

LEMMA CoveredStepHolds ==
    ASSUME AccountingTypeOK, [AccountingNext]_accountingVars
    PROVE  CoveredStep
<1>0. /\ AccountingTypeOK' /\ RegistryTypeOK
      /\ \A c \in ConnectionIds, t \in Time :
           used[c][t] \in Nat /\ used'[c][t] \in Nat /\ Limit[c] \in Nat
  BY AccountingTypeStep, RegistryAssumption
  DEF AccountingTypeOK, RegistryTypeOK
<1>1. CASE used' = used
  <2>1. \A c \in ConnectionIds, t \in Time : used'[c][t] <= used[c][t]
    BY <1>0, <1>1
  <2> QED BY <1>0, <2>1, NoExcuseNeeded
<1>2. CASE ConnectionStep
  <2>1. PICK c \in ConnectionIds, t \in Time :
          \/ InsertConnection(c, t)
          \/ \E created \in Time, amount \in Principals :
                 ImportConnection(c, created, amount, t)
          \/ TombstoneConnection(c, connections[c].revision, t)
    BY <1>2 DEF ConnectionStep
  <2>2. CASE TombstoneConnection(c, connections[c].revision, t)
    BY <2>2, <1>1 DEF TombstoneConnection
  <2>3. CASE ~TombstoneConnection(c, connections[c].revision, t)
    <3>1. PICK created \in Time, amount \in Nat :
            /\ created <= t /\ amount <= Limit[c]
            /\ InsertConnectionState(c, created, amount, t)
      <4>1. Limit[c] \in Nat /\ 0 <= Limit[c] /\ t <= t
        BY RegistryAssumption DEF Time
      <4> QED BY <2>1, <2>3, <4>1, AccountingAssumption
              DEF InsertConnection, ImportConnection
    <3>2. \A d \in ConnectionIds, u \in Time :
            used'[d][u] = used[d][u] \/ used'[d][u] <= Limit[d]
      BY <1>0, <3>1, InsertWithinLimit
    <3>3. \A d \in ConnectionIds, u \in Time :
            used'[d][u] <= used[d][u] \/ used'[d][u] <= Limit[d]
      BY <1>0, <3>2
    <3> QED BY <1>0, <3>3, NoExcuseNeeded
  <2> QED BY <2>2, <2>3
<1>3. ASSUME NEW e \in EventIds, NEW h \in Hashes, NEW c \in ConnectionIds,
             NEW r \in Nat, NEW principal \in Nat, NEW t \in Time,
             ReservePayment(e, h, c, r, principal, t)
      PROVE  CoveredStep
  BY <1>0, <1>3, ReserveCovered
<1>4. ASSUME NEW e \in EventIds, NEW t \in Time,
             ReleaseUninitiatedPayment(e, t) \/ MarkPaymentFailed(e, t),
             used' # used
      PROVE  CoveredStep
  BY <1>0, <1>4, RefundCovered
<1>5. ASSUME NEW e \in EventIds, NEW principal \in Nat, NEW fee \in Nat,
             NEW t \in Time, MarkPaymentSucceeded(e, principal, fee, t),
             used' # used
      PROVE  CoveredStep
  BY <1>0, <1>5, SettlementCovered
<1>6. ASSUME NEW e \in EventIds, NEW t \in Time,
             MarkPaymentInitiated(e, t) \/ MarkPaymentPending(e, t)
      PROVE  used' = used
  BY <1>6 DEF MarkPaymentInitiated, MarkPaymentPending, registryVars
<1>7. UNCHANGED accountingVars => used' = used
  BY DEF accountingVars
<1> QED BY <1>1, <1>2, <1>3, <1>4, <1>5, <1>6, <1>7, Steps

(***************************************************************************)
(* Whatever the amounts, the periods and the order of calls, a step takes  *)
(* a budget period past its limit only when it records a settlement its    *)
(* reservation did not cover.                                              *)
(***************************************************************************)
THEOREM LimitPassedOnlyBySettlement ==
    AccountingSpec => LimitExceededOnlyBySettlement
<1>1. AccountingTypeOK /\ [AccountingNext]_accountingVars
        => [CoveredStep]_accountingVars
  BY CoveredStepHolds
<1> QED BY <1>1, AccountingTypeCorrect, PTL
        DEF AccountingSpec, LimitExceededOnlyBySettlement

-----------------------------------------------------------------------------
\* The phase and hold of a payment, as Lifecycle's variables.
phases == [e \in EventIds |-> Phase(attempts[e])]
holds == [e \in EventIds |-> Contribution(attempts[e])]

\* A write of one row changes the phase and the hold of that payment only.
LEMMA OneRowMoves ==
    ASSUME AccountingTypeOK, NEW e \in EventIds, NEW row,
           attempts' = [attempts EXCEPT ![e] = row]
    PROVE  /\ phases' = [phases EXCEPT ![e] = Phase(row)]
           /\ holds' = [holds EXCEPT ![e] = Contribution(row)]
           /\ phases[e] = Phase(attempts[e]) /\ phases'[e] = Phase(row)
           /\ holds[e] = Contribution(attempts[e])
           /\ holds'[e] = Contribution(row)
<1>1. \A f \in EventIds : attempts'[f] = IF f = e THEN row ELSE attempts[f]
  BY DEF AccountingTypeOK
<1>2. /\ phases = [f \in EventIds |-> Phase(attempts[f])]
      /\ holds = [f \in EventIds |-> Contribution(attempts[f])]
  BY DEF phases, holds
<1>3. phases' = [f \in EventIds |-> IF f = e THEN Phase(row) ELSE phases[f]]
  BY <1>1 DEF phases
<1>4. holds' = [f \in EventIds |-> IF f = e THEN Contribution(row) ELSE holds[f]]
  BY <1>1 DEF holds
<1> QED BY <1>2, <1>3, <1>4

\* Each transaction is the step of Lifecycle of the same meaning, or none.
LEMMA ReserveDebits ==
    ASSUME AccountingTypeOK, NEW e \in EventIds, NEW h \in Hashes,
           NEW c \in ConnectionIds, NEW r \in Nat, NEW principal \in Nat,
           NEW t \in Time, ReservePayment(e, h, c, r, principal, t)
    PROVE  Lifecycle!Debit(e)
<1> DEFINE row ==
      [hash |-> h, conn |-> c, revision |-> r,
       period |-> PeriodStart(c, connections[c].created_at, t),
       principal |-> principal, fee_reserve |-> MaximumFee[c],
       state |-> "reserved", initiated |-> FALSE, legacy |-> FALSE,
       actual_principal |-> 0, actual_fee |-> 0, charged |-> 0,
       exceeded |-> FALSE, updated_at |-> t]
<1>1. /\ attempts' = [attempts EXCEPT ![e] = row] /\ principal > 0
      /\ attempts[e].state = "none"
  BY DEF ReservePayment, Exists
<1>2. MaximumFee[c] \in Nat
  BY RegistryAssumption
<1>3. Phase(attempts[e]) = "free" /\ Phase(row) = "held"
  BY <1>1 DEF Phase
<1>4. Contribution(row) \in Nat /\ Contribution(row) > 0
  BY <1>1, <1>2 DEF Contribution, Reserved
<1> HIDE DEF row
<1> QED BY <1>1, <1>3, <1>4, OneRowMoves, ZenonT(60)
        DEF phases, holds, Lifecycle!Debit, Lifecycle!Move, Lifecycle!SetHold

LEMMA ReleaseGivesBack ==
    ASSUME AccountingTypeOK, NEW e \in EventIds, NEW t \in Time,
           ReleaseUninitiatedPayment(e, t)
    PROVE  Lifecycle!Release(e)
<1>1. /\ attempts' = [attempts EXCEPT ![e] = NoAttempt]
      /\ attempts[e].state = "reserved" /\ ~attempts[e].initiated
  BY DEF ReleaseUninitiatedPayment, ReleaseOk
<1>2. Phase(attempts[e]) = "held" /\ Phase(NoAttempt) = "free"
  BY <1>1 DEF Phase, NoAttempt
<1>3. Contribution(NoAttempt) = 0
  BY DEF Contribution, NoAttempt
<1>4. /\ phases[e] = "held" /\ phases' = [phases EXCEPT ![e] = "free"]
      /\ holds'[e] = 0 /\ holds' = [holds EXCEPT ![e] = 0]
  BY <1>1, <1>2, <1>3, OneRowMoves
<1>5. Lifecycle!Move(e, {"held"}, "free")
  BY <1>4 DEF phases, Lifecycle!Move
<1>6. holds'[e] \in Nat /\ holds' = [holds EXCEPT ![e] = holds'[e]]
  BY <1>4
<1>7. Lifecycle!SetHold(e)
  BY <1>6 DEF holds, Lifecycle!SetHold
<1> QED BY <1>4, <1>5, <1>7 DEF holds, Lifecycle!Release

LEMMA InitiateCommits ==
    ASSUME AccountingTypeOK, NEW e \in EventIds, NEW t \in Time,
           MarkPaymentInitiated(e, t),
           attempts' # attempts
    PROVE  Lifecycle!Commit(e)
<1> DEFINE row == [attempts[e] EXCEPT !.initiated = TRUE, !.updated_at = t]
<1>1. /\ attempts' = [attempts EXCEPT ![e] = row]
      /\ attempts[e].state = "reserved" /\ ~attempts[e].initiated
  BY DEF MarkPaymentInitiated, InitiatedOk, AccountingTypeOK
<1>2. attempts[e] \in AttemptRow
  BY <1>1, StoredRow DEF Exists
<1>3. Phase(attempts[e]) = "held" /\ Phase(row) = "committed"
  BY <1>1, <1>2 DEF Phase, AttemptRow
<1>4. Contribution(row) = Contribution(attempts[e])
  BY <1>1, <1>2 DEF Contribution, Reserved, AttemptRow
<1> HIDE DEF row
<1>5. holds' = holds
  BY <1>1, <1>4, OneRowMoves DEF holds
<1>6. phases[e] = "held" /\ phases' = [phases EXCEPT ![e] = "committed"]
  BY <1>1, <1>3, OneRowMoves
<1> QED BY <1>5, <1>6
        DEF phases, holds, Lifecycle!Commit, Lifecycle!Move

LEMMA PendingStutters ==
    ASSUME AccountingTypeOK, NEW e \in EventIds, NEW t \in Time,
           MarkPaymentPending(e, t),
           attempts' # attempts
    PROVE  phases' = phases /\ holds' = holds
<1> DEFINE row == [attempts[e] EXCEPT !.state = "pending", !.updated_at = t]
<1>1. /\ attempts' = [attempts EXCEPT ![e] = row]
      /\ attempts[e].state = "reserved" /\ attempts[e].initiated
  BY DEF MarkPaymentPending, PendingOk, Unresolved, AccountingTypeOK
<1>2. attempts[e] \in AttemptRow
  BY <1>1, StoredRow DEF Exists
<1>3. Phase(row) = Phase(attempts[e])
  BY <1>1, <1>2 DEF Phase, AttemptRow
<1>4. Contribution(row) = Contribution(attempts[e])
  BY <1>1, <1>2 DEF Contribution, Reserved, AttemptRow
<1> HIDE DEF row
<1> QED BY <1>1, <1>3, <1>4, OneRowMoves DEF phases, holds

LEMMA FailureRefunds ==
    ASSUME AccountingTypeOK, NEW e \in EventIds, NEW t \in Time,
           MarkPaymentFailed(e, t),
           attempts' # attempts
    PROVE  Lifecycle!Refund(e)
<1> DEFINE row == [attempts[e] EXCEPT !.state = "failed", !.updated_at = t]
<1>1. /\ attempts' = [attempts EXCEPT ![e] = row]
      /\ attempts[e].state \in {"reserved", "pending"}
      /\ attempts[e].initiated
  BY DEF MarkPaymentFailed, FailedOk, Unresolved, AccountingTypeOK
<1>2. attempts[e] \in AttemptRow
  BY <1>1, StoredRow DEF Exists
<1>3. Phase(attempts[e]) = "committed" /\ Phase(row) = "refunded"
  BY <1>1, <1>2 DEF Phase, AttemptRow
<1>4. Contribution(row) = 0
  BY <1>1, <1>2 DEF Contribution, AttemptRow
<1> HIDE DEF row
<1>5. /\ phases[e] = "committed"
      /\ phases' = [phases EXCEPT ![e] = "refunded"]
      /\ holds'[e] = 0 /\ holds' = [holds EXCEPT ![e] = 0]
  BY <1>1, <1>3, <1>4, OneRowMoves, ZenonT(60)
<1>6. Lifecycle!Move(e, {"committed"}, "refunded")
  BY <1>5 DEF phases, Lifecycle!Move
<1>7. holds'[e] \in Nat /\ holds' = [holds EXCEPT ![e] = holds'[e]]
  BY <1>5
<1>8. Lifecycle!SetHold(e)
  BY <1>7 DEF holds, Lifecycle!SetHold
<1> QED BY <1>5, <1>6, <1>8 DEF holds, Lifecycle!Refund

LEMMA SuccessSettles ==
    ASSUME AccountingTypeOK, NEW e \in EventIds, NEW principal \in Nat, NEW fee \in Nat,
           NEW t \in Time, MarkPaymentSucceeded(e, principal, fee, t),
           attempts' # attempts
    PROVE  Lifecycle!Settle(e)
<1> DEFINE row == Settled(attempts[e], principal, fee, t)
<1>1. /\ attempts' = [attempts EXCEPT ![e] = row]
      /\ attempts[e] \in AttemptRow /\ attempts[e].initiated
      /\ attempts[e].state # "succeeded"
  BY SucceededCases
<1>2. /\ row.state = "succeeded"
      /\ row.charged = Charged(attempts[e].conn, principal, fee)
  BY <1>1, SettledRow
<1>3. row.charged \in Nat
  BY <1>1, <1>2, ChargedNat DEF AttemptRow
<1> HIDE DEF row
<1>4. Phase(attempts[e]) \in {"committed", "refunded"}
  BY <1>1 DEF Phase, AttemptRow
<1>5. Phase(row) = "settled" /\ Contribution(row) \in Nat
  BY <1>2, <1>3 DEF Phase, Contribution
<1> QED BY <1>1, <1>4, <1>5, OneRowMoves, ZenonT(60)
        DEF phases, holds, Lifecycle!Settle, Lifecycle!Move, Lifecycle!SetHold

LEMMA TransactionMovesPayment ==
    ASSUME AccountingTypeOK, NEW e \in EventIds, NEW t \in Time, Transaction(e, t)
    PROVE  [Lifecycle!Next]_<<phases, holds>>
<1>1. CASE attempts' = attempts
  BY <1>1 DEF phases, holds
<1> QED BY <1>1, ReserveDebits, ReleaseGivesBack, InitiateCommits, PendingStutters,
           FailureRefunds, SuccessSettles DEF Transaction, Lifecycle!Next

LEMMA PaymentLifecycleStep ==
    ASSUME AccountingTypeOK, [AccountingNext]_accountingVars
    PROVE  [Lifecycle!Next]_<<phases, holds>>
<1>1. CASE ConnectionStep \/ UNCHANGED accountingVars
  BY <1>1 DEF ConnectionStep, accountingVars, phases, holds
<1> QED BY <1>1, TransactionSteps, TransactionMovesPayment

(***************************************************************************)
(* The accounting methods implement PaymentLifecycle: a debit is taken     *)
(* before commitment, given back only by a release before commitment or a  *)
(* definitive failure after it, and a settlement is final.                 *)
(***************************************************************************)
THEOREM LedgerImplementsLifecycle == AccountingSpec => ImplementsLifecycle
<1>1. AccountingInit => Lifecycle!Init
  BY DEF AccountingInit, Lifecycle!Init, Phase, Contribution, NoAttempt
<1>2. AccountingTypeOK /\ [AccountingNext]_accountingVars
        => [Lifecycle!Next]_Lifecycle!lifecycleVars
  BY PaymentLifecycleStep DEF Lifecycle!lifecycleVars, phases, holds
<1> QED BY <1>1, <1>2, AccountingTypeCorrect, PTL
        DEF AccountingSpec, ImplementsLifecycle, Lifecycle!Spec

-----------------------------------------------------------------------------
(***************************************************************************)
(* Sums over a finite set.  The library's SumFunctionOnSet is a fold, that *)
(* is a CHOOSE of a recursive function over SUBSET S; induction over S is  *)
(* replaced by a least counterexample throughout.                          *)
(***************************************************************************)
\* The element the fold takes out of a set next.
Picked(s) == CHOOSE x \in s : TRUE

\* The recursion of the fold, for the subsets of S.
Summed(f, g, s) == IF s = {} THEN 0 ELSE f[Picked(s)] + g[s \ {Picked(s)}]

LEMMA PickedIn ==
    ASSUME NEW s, s # {}
    PROVE  Picked(s) \in s
BY DEF Picked

\* Taking it out leaves a subset of S with one element less.
LEMMA SmallerSubset ==
    ASSUME NEW S, IsFiniteSet(S), NEW s \in SUBSET S, s # {}
    PROVE  /\ s \ {Picked(s)} \in SUBSET S
           /\ Cardinality(s) \in Nat /\ Cardinality(s \ {Picked(s)}) \in Nat
           /\ Cardinality(s \ {Picked(s)}) = Cardinality(s) - 1
<1>1. IsFiniteSet(s)
  BY FS_Subset
<1>2. Picked(s) \in s
  BY PickedIn
<1>3. Cardinality(s \ {Picked(s)}) = Cardinality(s) - 1 /\ IsFiniteSet(s \ {Picked(s)})
  BY <1>1, <1>2, FS_RemoveElement
<1> QED BY <1>1, <1>3, FS_CardinalityType

\* Induction over the subsets of S: a nonempty collection of them has a member
\* whose reduct is not in it.
LEMMA MinimalSubset ==
    ASSUME NEW S, IsFiniteSet(S), NEW B \in SUBSET (SUBSET S), B # {}
    PROVE  \E s \in B : s # {} => s \ {Picked(s)} \notin B
<1> DEFINE Sizes == {Cardinality(s) : s \in B}
<1>1. \A s \in SUBSET S : Cardinality(s) \in Nat
  BY FS_Subset, FS_CardinalityType
<1>2. Sizes \in SUBSET Nat /\ Sizes # {}
  BY <1>1
<1>3. PICK n \in Sizes : \A m \in Sizes : n <= m
  BY <1>2, LeastExists
<1>4. PICK s \in B : n = Cardinality(s)
  BY <1>3
<1>5. ASSUME s # {}, s \ {Picked(s)} \in B PROVE FALSE
  <2>1. n \in Nat /\ Cardinality(s \ {Picked(s)}) = n - 1
    BY <1>4, <1>5, SmallerSubset
  <2>2. n <= Cardinality(s \ {Picked(s)})
    BY <1>3, <1>5
  <2> QED BY <2>1, <2>2
<1> QED BY <1>4, <1>5

\* The recursion has a solution: one up to every cardinality, by least
\* counterexample.
LEMMA SumExists ==
    ASSUME NEW S, IsFiniteSet(S), NEW f \in [S -> Int]
    PROVE  \E g \in [SUBSET S -> Int] : \A s \in SUBSET S : g[s] = Summed(f, g, s)
<1> DEFINE Upto(n) == \E g \in [SUBSET S -> Int] :
               \A s \in SUBSET S : Cardinality(s) <= n => g[s] = Summed(f, g, s)
           Bad == {n \in Nat : ~Upto(n)}
<1>0. \A s \in SUBSET S : IsFiniteSet(s) /\ Cardinality(s) \in Nat /\ (Cardinality(s) = 0 <=> s = {})
  BY FS_Subset, FS_CardinalityType, FS_EmptySet
<1>1. Upto(0)
  <2> DEFINE g == [s \in SUBSET S |-> 0]
  <2>1. g \in [SUBSET S -> Int]
    OBVIOUS
  <2>2. \A s \in SUBSET S : Cardinality(s) <= 0 => g[s] = Summed(f, g, s)
    BY <1>0 DEF Summed
  <2> HIDE DEF g
  <2> QED BY <2>1, <2>2
<1>2. ASSUME NEW n \in Nat, Upto(n) PROVE Upto(n + 1)
  <2>1. PICK g \in [SUBSET S -> Int] :
            \A s \in SUBSET S : Cardinality(s) <= n => g[s] = Summed(f, g, s)
    BY <1>2
  <2> DEFINE h == [s \in SUBSET S |-> IF Cardinality(s) <= n THEN g[s] ELSE Summed(f, g, s)]
  <2>2. ASSUME NEW s \in SUBSET S PROVE Summed(f, g, s) \in Int
    BY SmallerSubset, PickedIn DEF Summed
  <2>3. h \in [SUBSET S -> Int]
    BY <2>2
  <2>4. ASSUME NEW s \in SUBSET S, Cardinality(s) <= n + 1 PROVE h[s] = Summed(f, h, s)
    <3>1. CASE s = {}
      BY <3>1, <2>1, <1>0 DEF Summed
    <3>2. CASE s # {}
      <4>1. h[s \ {Picked(s)}] = g[s \ {Picked(s)}]
        BY <2>4, <3>2, SmallerSubset
      <4>2. Summed(f, h, s) = Summed(f, g, s)
        BY <4>1, <3>2 DEF Summed
      <4> QED BY <4>2, <2>1
    <3> QED BY <3>1, <3>2
  <2> HIDE DEF h
  <2> QED BY <2>3, <2>4
<1> HIDE DEF Upto
<1>3. Bad = {}
  <2> SUFFICES ASSUME Bad # {} PROVE FALSE
    OBVIOUS
  <2>1. PICK n \in Bad : \A m \in Bad : n <= m
    BY LeastExists
  <2>2. n # 0
    BY <1>1, <2>1
  <2>3. n - 1 \in Nat /\ n - 1 \notin Bad
    BY <2>1, <2>2
  <2>4. Upto(n - 1)
    BY <2>3
  <2>5. Upto((n - 1) + 1)
    BY <2>3, <2>4, <1>2
  <2> QED BY <2>1, <2>5
<1>4. Upto(Cardinality(S))
  BY <1>3, FS_CardinalityType
<1>5. \A s \in SUBSET S : Cardinality(s) <= Cardinality(S)
  BY FS_Subset
<1> QED BY <1>4, <1>5 DEF Upto

\* The library's sum over S is the value at S of such a function.
LEMMA SumUnfolds ==
    ASSUME NEW S, IsFiniteSet(S), NEW f \in [S -> Int]
    PROVE  \E g \in [SUBSET S -> Int] :
               /\ \A s \in SUBSET S : g[s] = Summed(f, g, s)
               /\ SumFunctionOnSet(f, S) = g[S]
<1> DEFINE Rec(g) == g = [s \in SUBSET S |-> Summed(f, g, s)]
           iter == CHOOSE g : Rec(g)
<1>1. SumFunctionOnSet(f, S) = iter[S]
  BY DEF SumFunctionOnSet, FoldFunctionOnSet, MapThenFoldSet, Summed, Picked
<1>2. PICK g \in [SUBSET S -> Int] : \A s \in SUBSET S : g[s] = Summed(f, g, s)
  BY SumExists
<1>3. Rec(g)
  BY <1>2
<1>4. Rec(iter)
  BY <1>3
<1> HIDE DEF iter
<1>5. \A s \in SUBSET S : iter[s] = Summed(f, iter, s)
  BY <1>4
<1>6. \A s \in SUBSET S : iter[s] = g[s]
  <2> DEFINE Bad == {s \in SUBSET S : iter[s] # g[s]}
  <2>1. SUFFICES ASSUME Bad # {} PROVE FALSE
    OBVIOUS
  <2>2. PICK s \in Bad : s # {} => s \ {Picked(s)} \notin Bad
    <3>1. Bad \in SUBSET (SUBSET S)
      OBVIOUS
    <3> HIDE DEF Bad
    <3> QED BY <2>1, <3>1, MinimalSubset
  <2>3. s # {}
    BY <1>2, <1>5 DEF Summed
  <2>4. iter[s \ {Picked(s)}] = g[s \ {Picked(s)}]
    BY <2>2, <2>3
  <2> QED BY <2>3, <2>4, <1>2, <1>5 DEF Summed
<1> QED BY <1>1, <1>2, <1>6

\* The sum is an integer, and a change of f at one place changes it by as much.
LEMMA SumChanges ==
    ASSUME NEW S, IsFiniteSet(S), NEW f \in [S -> Int], NEW h \in [S -> Int],
           NEW x \in S, \A y \in S \ {x} : h[y] = f[y]
    PROVE  /\ SumFunctionOnSet(f, S) \in Int
           /\ SumFunctionOnSet(h, S) = SumFunctionOnSet(f, S) + (h[x] - f[x])
<1>1. PICK g \in [SUBSET S -> Int] :
               /\ \A s \in SUBSET S : g[s] = Summed(f, g, s)
               /\ SumFunctionOnSet(f, S) = g[S]
  BY SumUnfolds
<1>2. PICK k \in [SUBSET S -> Int] :
               /\ \A s \in SUBSET S : k[s] = Summed(h, k, s)
               /\ SumFunctionOnSet(h, S) = k[S]
  BY SumUnfolds
<1> DEFINE Shift(s) == IF x \in s THEN h[x] - f[x] ELSE 0
           Bad == {s \in SUBSET S : k[s] # g[s] + Shift(s)}
<1>3. Bad = {}
  <2>1. SUFFICES ASSUME Bad # {} PROVE FALSE
    OBVIOUS
  <2>2. PICK s \in Bad : s # {} => s \ {Picked(s)} \notin Bad
    <3>1. Bad \in SUBSET (SUBSET S)
      OBVIOUS
    <3> HIDE DEF Bad
    <3> QED BY <2>1, <3>1, MinimalSubset
  <2>3. s # {}
    <3>1. ASSUME s = {} PROVE FALSE
      <4>1. k[s] = 0 /\ g[s] = 0 /\ x \notin s
        BY <3>1, <1>1, <1>2 DEF Summed
      <4> QED BY <4>1
    <3> QED BY <3>1
  <2> DEFINE y == Picked(s)
             u == s \ {y}
  <2>4. s \in SUBSET S /\ u \in SUBSET S /\ y \in s /\ y \in S
    BY <2>3, PickedIn
  <2>5. k[u] = g[u] + Shift(u) /\ k[s] # g[s] + Shift(s)
    BY <2>2, <2>3, <2>4
  <2>6. k[s] = h[y] + k[u] /\ g[s] = f[y] + g[u]
    BY <2>3, <1>1, <1>2 DEF Summed
  <2> HIDE DEF y
  <2>7. /\ k[u] \in Int /\ g[u] \in Int /\ h[y] \in Int /\ f[y] \in Int
        /\ f[x] \in Int /\ h[x] \in Int
    BY <2>4
  <2>8. CASE y = x
    <3>1. Shift(u) = 0 /\ Shift(s) = h[x] - f[x]
      BY <2>4, <2>8
    <3> HIDE DEF Shift, u
    <3> QED BY <2>5, <2>6, <2>7, <2>8, <3>1
  <2>9. CASE y # x
    <3>1. h[y] = f[y] /\ Shift(u) = Shift(s) /\ Shift(s) \in Int
      BY <2>4, <2>7, <2>9
    <3> HIDE DEF Shift, u
    <3> QED BY <2>5, <2>6, <2>7, <3>1
  <2> QED BY <2>8, <2>9
<1>4. k[S] = g[S] + Shift(S) /\ Shift(S) = h[x] - f[x]
  BY <1>3
<1> QED BY <1>1, <1>2, <1>4

\* A sum of naturals is a natural, and 0 if they all are.
LEMMA SumOfNaturals ==
    ASSUME NEW S, IsFiniteSet(S), NEW f \in [S -> Nat]
    PROVE  /\ SumFunctionOnSet(f, S) \in Nat
           /\ (\A x \in S : f[x] = 0) => SumFunctionOnSet(f, S) = 0
<1>0. f \in [S -> Int]
  OBVIOUS
<1>1. PICK g \in [SUBSET S -> Int] :
               /\ \A s \in SUBSET S : g[s] = Summed(f, g, s)
               /\ SumFunctionOnSet(f, S) = g[S]
  BY <1>0, SumUnfolds
<1> DEFINE zeros == \A x \in S : f[x] = 0
           Bad == {s \in SUBSET S : g[s] < 0 \/ (zeros /\ g[s] # 0)}
<1>2. Bad = {}
  <2>1. SUFFICES ASSUME Bad # {} PROVE FALSE
    OBVIOUS
  <2>2. PICK s \in Bad : s # {} => s \ {Picked(s)} \notin Bad
    <3>1. Bad \in SUBSET (SUBSET S)
      OBVIOUS
    <3> HIDE DEF Bad
    <3> QED BY <2>1, <3>1, MinimalSubset
  <2>3. s # {}
    <3>1. ASSUME s = {} PROVE FALSE
      <4>1. g[s] = 0
        BY <3>1, <1>1 DEF Summed
      <4> QED BY <4>1
    <3> QED BY <3>1
  <2> DEFINE y == Picked(s)
             u == s \ {y}
  <2>4. s \in SUBSET S /\ u \in SUBSET S /\ y \in s /\ y \in S
    BY <2>3, PickedIn
  <2>5. g[u] \in Int /\ g[u] >= 0 /\ (zeros => g[u] = 0)
    BY <2>2, <2>3, <2>4
  <2>6. g[s] = f[y] + g[u] /\ f[y] \in Nat /\ (zeros => f[y] = 0)
    BY <2>3, <2>4, <1>1 DEF Summed
  <2> HIDE DEF y, u, zeros
  <2>7. g[s] >= 0 /\ (zeros => g[s] = 0)
    BY <2>5, <2>6
  <2> QED BY <2>7
<1>3. g[S] \in Int /\ g[S] >= 0 /\ (zeros => g[S] = 0)
  BY <1>2
<1> QED BY <1>1, <1>3

\* No summand of naturals exceeds their sum.
LEMMA SummandWithinSum ==
    ASSUME NEW S, IsFiniteSet(S), NEW f \in [S -> Nat], NEW x \in S
    PROVE  f[x] <= SumFunctionOnSet(f, S)
<1> DEFINE h == [f EXCEPT ![x] = 0]
<1>1. h \in [S -> Nat] /\ h[x] = 0 /\ \A y \in S \ {x} : h[y] = f[y]
  OBVIOUS
<1>2. f \in [S -> Int] /\ h \in [S -> Int]
  BY <1>1
<1> HIDE DEF h
<1>3. /\ SumFunctionOnSet(f, S) \in Int
      /\ SumFunctionOnSet(h, S) = SumFunctionOnSet(f, S) + (h[x] - f[x])
  BY <1>1, <1>2, SumChanges
<1>4. SumFunctionOnSet(h, S) \in Nat
  BY <1>1, SumOfNaturals
<1>5. f[x] \in Nat
  OBVIOUS
<1> QED BY <1>1, <1>3, <1>4, <1>5

-----------------------------------------------------------------------------
\* What a row adds to the debits of one budget period.
Share(row, c, t) ==
    IF row.state # "none" /\ row.conn = c /\ row.period = t
    THEN Contribution(row) ELSE 0

LEMMA ShareNat ==
    ASSUME NEW row \in AttemptRow \cup {NoAttempt}, NEW c, NEW t
    PROVE  Share(row, c, t) \in Nat
BY DEF Share, Contribution, Reserved, AttemptRow, NoAttempt

LEMMA DebitsNat ==
    ASSUME AccountingTypeOK, NEW c, NEW t
    PROVE  /\ Debits(c, t) \in [EventIds -> Nat]
           /\ \A e \in EventIds : Debits(c, t)[e] = Share(attempts[e], c, t)
<1>1. \A e \in EventIds : attempts[e] \in AttemptRow \cup {NoAttempt}
  BY DEF AccountingTypeOK
<1>2. Debits(c, t) = [e \in EventIds |-> Share(attempts[e], c, t)]
  BY DEF Debits, Share, Exists
<1> QED BY <1>1, <1>2, ShareNat

\* A write of one row moves the sum of a period's debits by that row's part.
SumsMove(e, row) ==
    \A c \in ConnectionIds, t \in Time :
        /\ SumFunctionOnSet(Debits(c, t), EventIds) \in Nat
        /\ SumFunctionOnSet(Debits(c, t)', EventIds) =
               SumFunctionOnSet(Debits(c, t), EventIds)
                   + (Share(row, c, t) - Share(attempts[e], c, t))

LEMMA SumMoves ==
    ASSUME AccountingTypeOK, NEW e \in EventIds,
           NEW row \in AttemptRow \cup {NoAttempt},
           attempts' = [attempts EXCEPT ![e] = row]
    PROVE  SumsMove(e, row)
<1> SUFFICES ASSUME NEW c \in ConnectionIds, NEW t \in Time
             PROVE  /\ SumFunctionOnSet(Debits(c, t), EventIds) \in Nat
                    /\ SumFunctionOnSet(Debits(c, t)', EventIds) =
                           SumFunctionOnSet(Debits(c, t), EventIds)
                               + (Share(row, c, t) - Share(attempts[e], c, t))
  BY DEF SumsMove
<1> DEFINE f == Debits(c, t)
           h == [x \in EventIds |-> Share(attempts'[x], c, t)]
<1>1. IsFiniteSet(EventIds)
  BY AccountingAssumption
<1>2. Debits(c, t)' = h
  BY DEF Debits, Share, Exists, Contribution, Reserved
<1>3. \A x \in EventIds : attempts'[x] = IF x = e THEN row ELSE attempts[x]
  BY DEF AccountingTypeOK
<1>4. \A x \in EventIds : attempts'[x] \in AttemptRow \cup {NoAttempt}
  BY <1>3 DEF AccountingTypeOK
<1>5. /\ f \in [EventIds -> Nat]
      /\ \A x \in EventIds : f[x] = Share(attempts[x], c, t)
  BY DebitsNat
<1>6. h \in [EventIds -> Nat]
  BY <1>4, ShareNat
<1>7. f \in [EventIds -> Int] /\ h \in [EventIds -> Int]
  BY <1>5, <1>6
<1>8. \A x \in EventIds \ {e} : h[x] = f[x]
  BY <1>3, <1>5
<1>9. h[e] = Share(row, c, t) /\ f[e] = Share(attempts[e], c, t)
  BY <1>3, <1>5
<1> HIDE DEF f, h
<1>10. SumFunctionOnSet(h, EventIds) =
           SumFunctionOnSet(f, EventIds) + (h[e] - f[e])
  BY <1>1, <1>7, <1>8, SumChanges
<1>11. SumFunctionOnSet(f, EventIds) \in Nat
  BY <1>1, <1>5, SumOfNaturals
<1> QED BY <1>2, <1>9, <1>10, <1>11 DEF f

(***************************************************************************)
(* A connection that was never inserted has no debits, imported or its     *)
(* own: what lets insert_connection_state write its first period row       *)
(* instead of adding to one.                                               *)
(***************************************************************************)
AbsentHoldsNothing ==
    \A c \in ConnectionIds :
        connections[c].status = "absent" =>
            /\ connections[c].imported = 0
            /\ \A e \in EventIds : Exists(e) => attempts[e].conn # c

BudgetInv == BudgetIsSumOfDebits /\ AbsentHoldsNothing

\* A step that writes one row and moves `used' by what that row's part moves.
LEMMA RowWritten ==
    ASSUME AccountingTypeOK, BudgetInv, NEW e \in EventIds,
           NEW row \in AttemptRow \cup {NoAttempt},
           attempts' = [attempts EXCEPT ![e] = row],
           connections' = connections,
           row.state # "none" => connections[row.conn].status # "absent",
           \A c \in ConnectionIds, t \in Time :
               used'[c][t] = used[c][t]
                   + (Share(row, c, t) - Share(attempts[e], c, t))
    PROVE  BudgetInv'
<1>0. SumsMove(e, row)
  BY SumMoves
<1>1. ASSUME NEW c \in ConnectionIds, NEW t \in Time
      PROVE  used'[c][t] =
                 Imported(c, t)' + SumFunctionOnSet(Debits(c, t)', EventIds)
  <2>1. /\ SumFunctionOnSet(Debits(c, t), EventIds) \in Nat
        /\ SumFunctionOnSet(Debits(c, t)', EventIds) =
               SumFunctionOnSet(Debits(c, t), EventIds)
                   + (Share(row, c, t) - Share(attempts[e], c, t))
    BY <1>0 DEF SumsMove
  <2>2. used[c][t] = Imported(c, t) + SumFunctionOnSet(Debits(c, t), EventIds)
    BY DEF BudgetInv, BudgetIsSumOfDebits
  <2>3. Imported(c, t)' = Imported(c, t) /\ Imported(c, t) \in Nat
    BY DEF Imported, AccountingTypeOK, RegistryTypeOK, ConnectionRow
  <2>4. Share(row, c, t) \in Nat /\ Share(attempts[e], c, t) \in Nat
    BY ShareNat DEF AccountingTypeOK
  <2>5. used'[c][t] = used[c][t] + (Share(row, c, t) - Share(attempts[e], c, t))
    OBVIOUS
  <2> QED BY <2>1, <2>2, <2>3, <2>4, <2>5
<1>2. BudgetIsSumOfDebits'
  BY <1>1 DEF BudgetIsSumOfDebits
<1>3. \A x \in EventIds : attempts'[x] = IF x = e THEN row ELSE attempts[x]
  BY DEF AccountingTypeOK
<1>4. AbsentHoldsNothing'
  BY <1>3 DEF BudgetInv, AbsentHoldsNothing, Exists
<1> QED BY <1>2, <1>4 DEF BudgetInv

\* The row an operation works on belongs to an inserted connection.
LEMMA OwnerInserted ==
    ASSUME AccountingTypeOK, BudgetInv, NEW e \in EventIds, Exists(e)
    PROVE  /\ attempts[e].conn \in ConnectionIds
           /\ attempts[e].period \in Time
           /\ connections[attempts[e].conn].status # "absent"
<1>1. attempts[e] \in AttemptRow
  BY StoredRow
<1> QED BY <1>1 DEF AttemptRow, BudgetInv, AbsentHoldsNothing

\* A stored row replaced by one of the same connection and period.
LEMMA RowReplaced ==
    ASSUME AccountingTypeOK, BudgetInv, NEW e \in EventIds, Exists(e),
           NEW row \in AttemptRow, row.conn = attempts[e].conn,
           row.period = attempts[e].period,
           attempts' = [attempts EXCEPT ![e] = row],
           connections' = connections,
           \/ used' = used /\ Contribution(row) = Contribution(attempts[e])
           \/ AdjustPeriodUsed(attempts[e], Contribution(attempts[e]),
                               Contribution(row))
    PROVE  BudgetInv'
<1> DEFINE old == Contribution(attempts[e])
           new == Contribution(row)
<1>1. attempts[e] \in AttemptRow
  BY StoredRow
<1>2. old \in Nat /\ new \in Nat
  BY <1>1 DEF Contribution, Reserved, AttemptRow
<1>3. ASSUME NEW c \in ConnectionIds, NEW t \in Time
      PROVE  used'[c][t] = used[c][t]
                 + (Share(row, c, t) - Share(attempts[e], c, t))
  <2>1. used[c][t] \in Nat
    BY DEF AccountingTypeOK, RegistryTypeOK
  <2>2. CASE c = attempts[e].conn /\ t = attempts[e].period
    <3>1. Share(row, c, t) = new /\ Share(attempts[e], c, t) = old
      BY <2>2 DEF Share, Exists, AttemptRow
    <3>2. used'[c][t] = (used[c][t] - old) + new
      <4>1. CASE used' = used /\ new = old
        BY <4>1, <2>1, <1>2
      <4>2. CASE AdjustPeriodUsed(attempts[e], old, new)
        BY <4>2, <2>2 DEF AdjustPeriodUsed, AccountingTypeOK, RegistryTypeOK
      <4> QED BY <4>1, <4>2
    <3> HIDE DEF old, new
    <3> QED BY <1>2, <2>1, <3>1, <3>2
  <2>3. CASE ~(c = attempts[e].conn /\ t = attempts[e].period)
    <3>1. Share(row, c, t) = 0 /\ Share(attempts[e], c, t) = 0
      BY <2>3 DEF Share
    <3>2. used'[c][t] = used[c][t]
      BY <1>1, <1>2, <2>3, AdjustEntry DEF AccountingTypeOK
    <3> QED BY <2>1, <3>1, <3>2
  <2> QED BY <2>2, <2>3
<1>4. connections[row.conn].status # "absent"
  BY OwnerInserted
<1> QED BY <1>3, <1>4, RowWritten, ZenonT(60)

\* insert_connection_state replaces the period row of a connection without
\* debits.
LEMMA BudgetInsert ==
    ASSUME AccountingTypeOK, BudgetInv, NEW c \in ConnectionIds,
           NEW created \in Time, NEW amount \in Nat, NEW t \in Time,
           created <= t, InsertConnectionState(c, created, amount, t),
           attempts' = attempts
    PROVE  BudgetInv'
<1> DEFINE period == PeriodStart(c, created, t)
<1>1. period \in Time
  BY PeriodStartInTime
<1>2. /\ used' = [used EXCEPT ![c][period] = amount]
      /\ used \in [ConnectionIds -> [Time -> Nat]]
      /\ connections' = [connections EXCEPT ![c] =
             [status |-> "active", revision |-> 0, created_at |-> created,
              updated_at |-> t, imported |-> amount, imported_in |-> period]]
      /\ connections \in [ConnectionIds -> ConnectionRow]
      /\ connections[c].status = "absent"
  BY DEF InsertConnectionState, Unclaimed, AccountingTypeOK, RegistryTypeOK
<1> HIDE DEF period
<1>3. ASSUME NEW d \in ConnectionIds, NEW u \in Time
      PROVE  used'[d][u] =
                 Imported(d, u)' + SumFunctionOnSet(Debits(d, u)', EventIds)
  <2>1. Debits(d, u)' = Debits(d, u)
    BY DEF Debits, Exists, Contribution, Reserved
  <2>2. used[d][u] = Imported(d, u) + SumFunctionOnSet(Debits(d, u), EventIds)
    BY DEF BudgetInv, BudgetIsSumOfDebits
  <2>3. CASE d # c
    <3>1. used'[d][u] = used[d][u]
      BY <1>1, <1>2, <2>3
    <3>2. Imported(d, u)' = Imported(d, u)
      BY <1>2, <2>3 DEF Imported
    <3> QED BY <2>1, <2>2, <3>1, <3>2
  <2>4. CASE d = c
    <3>1. \A e \in EventIds : Debits(c, u)[e] = 0
      BY <1>2 DEF Debits, BudgetInv, AbsentHoldsNothing
    <3>2. Debits(c, u) \in [EventIds -> Nat] /\ IsFiniteSet(EventIds)
      BY DebitsNat, AccountingAssumption
    <3>3. SumFunctionOnSet(Debits(c, u), EventIds) = 0
      BY <3>1, <3>2, SumOfNaturals
    <3>4. Imported(c, u) = 0
      BY <1>2 DEF Imported, BudgetInv, AbsentHoldsNothing
    <3>5. used[c][u] = 0
      BY <2>2, <2>4, <3>3, <3>4
    <3>6. used'[c][u] = IF u = period THEN amount ELSE 0
      BY <1>1, <1>2, <3>5
    <3>7. Imported(c, u)' = IF u = period THEN amount ELSE 0
      BY <1>2 DEF Imported
    <3> QED BY <1>1, <2>1, <2>4, <3>3, <3>6, <3>7
  <2> QED BY <2>3, <2>4
<1>4. BudgetIsSumOfDebits'
  BY <1>3 DEF BudgetIsSumOfDebits
<1>5. AbsentHoldsNothing'
  BY <1>2 DEF BudgetInv, AbsentHoldsNothing, Exists
<1> QED BY <1>4, <1>5 DEF BudgetInv

LEMMA BudgetTombstone ==
    ASSUME AccountingTypeOK, BudgetInv, NEW c \in ConnectionIds, NEW t \in Time,
           TombstoneConnection(c, connections[c].revision, t), attempts' = attempts
    PROVE  BudgetInv'
<1>1. /\ used' = used
      /\ \A d \in ConnectionIds :
           /\ connections'[d].imported = connections[d].imported
           /\ connections'[d].imported_in = connections[d].imported_in
           /\ connections'[d].status = "absent" => connections[d].status = "absent"
  BY DEF TombstoneConnection, AccountingTypeOK, RegistryTypeOK, ConnectionRow
<1>2. \A d \in ConnectionIds, u \in Time :
        Debits(d, u)' = Debits(d, u) /\ Imported(d, u)' = Imported(d, u)
  BY <1>1 DEF Debits, Imported, Exists, Contribution, Reserved
<1>3. BudgetIsSumOfDebits'
  BY <1>1, <1>2 DEF BudgetInv, BudgetIsSumOfDebits
<1>4. AbsentHoldsNothing'
  BY <1>1 DEF BudgetInv, AbsentHoldsNothing, Exists
<1> QED BY <1>3, <1>4 DEF BudgetInv

LEMMA BudgetConnectionStep ==
    ASSUME AccountingTypeOK, BudgetInv, ConnectionStep
    PROVE  BudgetInv'
<1>0. attempts' = attempts
  BY DEF ConnectionStep
<1>1. PICK c \in ConnectionIds, t \in Time :
        \/ InsertConnection(c, t)
        \/ \E created \in Time, amount \in Principals :
               ImportConnection(c, created, amount, t)
        \/ TombstoneConnection(c, connections[c].revision, t)
  BY DEF ConnectionStep
<1>2. CASE InsertConnection(c, t)
  <2>1. t <= t /\ InsertConnectionState(c, t, 0, t)
    BY <1>2, RegistryAssumption DEF InsertConnection, Time
  <2> QED BY <1>0, <2>1, BudgetInsert
<1>3. CASE \E created \in Time, amount \in Principals :
             ImportConnection(c, created, amount, t)
  <2>1. PICK created \in Time, amount \in Principals :
          created <= t /\ InsertConnectionState(c, created, amount, t)
    BY <1>3 DEF ImportConnection
  <2>2. amount \in Nat
    BY AccountingAssumption
  <2> QED BY <1>0, <2>1, <2>2, BudgetInsert
<1>4. CASE TombstoneConnection(c, connections[c].revision, t)
  BY <1>0, <1>4, BudgetTombstone
<1> QED BY <1>1, <1>2, <1>3, <1>4

LEMMA BudgetReserve ==
    ASSUME AccountingTypeOK, BudgetInv, NEW e \in EventIds, NEW h \in Hashes,
           NEW c \in ConnectionIds, NEW r \in Nat, NEW principal \in Nat,
           NEW t \in Time, ReservePayment(e, h, c, r, principal, t)
    PROVE  BudgetInv'
<1> DEFINE period == PeriodStart(c, connections[c].created_at, t)
           row == [hash |-> h, conn |-> c, revision |-> r, period |-> period,
                   principal |-> principal, fee_reserve |-> MaximumFee[c],
                   state |-> "reserved", initiated |-> FALSE, legacy |-> FALSE,
                   actual_principal |-> 0, actual_fee |-> 0, charged |-> 0,
                   exceeded |-> FALSE, updated_at |-> t]
<1>1. /\ used' = [used EXCEPT ![c][period] = @ + principal + MaximumFee[c]]
      /\ attempts' = [attempts EXCEPT ![e] = row]
      /\ connections' = connections /\ ~Exists(e)
      /\ connections[c].status = "active"
  BY DEF ReservePayment, BudgetLoads, RevisionActive
<1>2. attempts' \in [EventIds -> AttemptRow \cup {NoAttempt}]
  BY ReserveType DEF AccountingTypeOK
<1>3. attempts'[e] = row
  BY <1>1 DEF AccountingTypeOK
<1>4. row \in AttemptRow \cup {NoAttempt} /\ period \in Time
  <2>1. connections[c].created_at \in Time /\ connections[c].created_at <= t
    BY RegistryAssumption
    DEF AccountingTypeOK, RegistryTypeOK, ConnectionRow, ReservePayment, Time
  <2> QED BY <1>2, <1>3, <2>1, PeriodStartInTime
<1>5. MaximumFee[c] \in Nat
  BY RegistryAssumption
<1>6. /\ row.state = "reserved" /\ row.conn = c /\ row.period = period
      /\ Contribution(row) = principal + MaximumFee[c]
  BY DEF Contribution, Reserved
<1> HIDE DEF row, period
<1>7. ASSUME NEW d \in ConnectionIds, NEW u \in Time
      PROVE  used'[d][u] = used[d][u]
                 + (Share(row, d, u) - Share(attempts[e], d, u))
  <2>1. used \in [ConnectionIds -> [Time -> Nat]] /\ used[d][u] \in Nat
    BY DEF AccountingTypeOK, RegistryTypeOK
  <2>2. Share(attempts[e], d, u) = 0
    BY <1>1 DEF Share, Exists
  <2>3. CASE d = c /\ u = period
    <3>1. Share(row, d, u) = principal + MaximumFee[c]
      BY <1>6, <2>3 DEF Share
    <3>2. used'[d][u] = used[d][u] + principal + MaximumFee[c]
      BY <1>1, <2>1, <2>3
    <3> QED BY <1>5, <2>1, <2>2, <3>1, <3>2
  <2>4. CASE ~(d = c /\ u = period)
    <3>1. Share(row, d, u) = 0
      BY <1>6, <2>4 DEF Share
    <3>2. used'[d][u] = used[d][u]
      BY <1>1, <1>4, <2>1, <2>4
    <3> QED BY <2>1, <2>2, <3>1, <3>2
  <2> QED BY <2>3, <2>4
<1>8. connections[row.conn].status # "absent"
  BY <1>1, <1>6
<1> QED BY <1>1, <1>4, <1>7, <1>8, RowWritten

LEMMA BudgetMarks ==
    ASSUME AccountingTypeOK, BudgetInv, NEW e \in EventIds, NEW t \in Time,
           MarkPaymentInitiated(e, t) \/ MarkPaymentPending(e, t)
               \/ MarkPaymentFailed(e, t),
           attempts' # attempts
    PROVE  BudgetInv'
<1>1. Exists(e) /\ attempts[e] \in AttemptRow /\ connections' = connections
  BY StoredRow
  DEF MarkPaymentInitiated, MarkPaymentPending, MarkPaymentFailed,
      InitiatedOk, PendingOk, FailedOk, Unresolved, Exists, registryVars
<1>2. CASE MarkPaymentInitiated(e, t)
  <2> DEFINE row == [attempts[e] EXCEPT !.initiated = TRUE, !.updated_at = t]
  <2>1. attempts' = [attempts EXCEPT ![e] = row] /\ used' = used
    BY <1>2 DEF MarkPaymentInitiated, AccountingTypeOK, registryVars
  <2>2. /\ row \in AttemptRow /\ row.conn = attempts[e].conn
        /\ row.period = attempts[e].period
        /\ Contribution(row) = Contribution(attempts[e])
    BY <1>1 DEF AttemptRow, Contribution, Reserved
  <2> HIDE DEF row
  <2> QED BY <1>1, <2>1, <2>2, RowReplaced
<1>3. CASE MarkPaymentPending(e, t)
  <2> DEFINE row == [attempts[e] EXCEPT !.state = "pending", !.updated_at = t]
  <2>1. /\ attempts' = [attempts EXCEPT ![e] = row] /\ used' = used
        /\ attempts[e].state = "reserved"
    BY <1>3 DEF MarkPaymentPending, PendingOk, Unresolved, AccountingTypeOK,
                registryVars
  <2>2. /\ row \in AttemptRow /\ row.conn = attempts[e].conn
        /\ row.period = attempts[e].period
        /\ Contribution(row) = Contribution(attempts[e])
    BY <1>1, <2>1 DEF AttemptRow, Contribution, Reserved
  <2> HIDE DEF row
  <2> QED BY <1>1, <2>1, <2>2, RowReplaced
<1>4. CASE MarkPaymentFailed(e, t)
  <2> DEFINE row == [attempts[e] EXCEPT !.state = "failed", !.updated_at = t]
  <2>1. /\ attempts' = [attempts EXCEPT ![e] = row] /\ Unresolved(e)
        /\ AdjustPeriodUsed(attempts[e], Reserved(attempts[e]), 0)
    BY <1>4 DEF MarkPaymentFailed
  <2>2. /\ row \in AttemptRow /\ row.conn = attempts[e].conn
        /\ row.period = attempts[e].period
        /\ Contribution(row) = 0
        /\ Contribution(attempts[e]) = Reserved(attempts[e])
    BY <1>1, <2>1 DEF AttemptRow, Contribution, Unresolved
  <2> HIDE DEF row
  <2> QED BY <1>1, <2>1, <2>2, RowReplaced
<1> QED BY <1>2, <1>3, <1>4

LEMMA BudgetRelease ==
    ASSUME AccountingTypeOK, BudgetInv, NEW e \in EventIds, NEW t \in Time,
           ReleaseUninitiatedPayment(e, t)
    PROVE  BudgetInv'
<1> DEFINE old == Reserved(attempts[e])
<1>1. /\ attempts' = [attempts EXCEPT ![e] = NoAttempt]
      /\ connections' = connections
      /\ AdjustPeriodUsed(attempts[e], old, 0)
      /\ attempts[e].state = "reserved"
  BY DEF ReleaseUninitiatedPayment, ReleaseOk
<1>2. attempts[e] \in AttemptRow /\ old \in Nat
  BY StoredRow, ReservedNat DEF ReleaseUninitiatedPayment, ReleaseOk
<1>3. NoAttempt.state = "none"
  BY DEF NoAttempt
<1> HIDE DEF old
<1>4. ASSUME NEW c \in ConnectionIds, NEW u \in Time
      PROVE  used'[c][u] = used[c][u]
                 + (Share(NoAttempt, c, u) - Share(attempts[e], c, u))
  <2>1. used[c][u] \in Nat /\ Share(NoAttempt, c, u) = 0
    BY <1>3 DEF AccountingTypeOK, RegistryTypeOK, Share
  <2>2. CASE c = attempts[e].conn /\ u = attempts[e].period
    <3>1. Share(attempts[e], c, u) = old
      BY <1>1, <2>2 DEF Share, Contribution, old
    <3>2. used'[c][u] = (used[c][u] - old) + 0
      BY <1>1, <2>2 DEF AdjustPeriodUsed, AccountingTypeOK, RegistryTypeOK
    <3> QED BY <1>2, <2>1, <3>1, <3>2
  <2>3. CASE ~(c = attempts[e].conn /\ u = attempts[e].period)
    <3>1. Share(attempts[e], c, u) = 0
      BY <2>3 DEF Share
    <3>2. attempts[e].conn \in ConnectionIds /\ attempts[e].period \in Time
      BY <1>2 DEF AttemptRow
    <3>3. used'[c][u] = used[c][u]
      BY <1>1, <2>3, <3>2 DEF AdjustPeriodUsed, AccountingTypeOK, RegistryTypeOK
    <3> QED BY <2>1, <3>1, <3>3
  <2> QED BY <2>2, <2>3
<1> QED BY <1>1, <1>3, <1>4, RowWritten

LEMMA BudgetSucceeded ==
    ASSUME AccountingTypeOK, BudgetInv, NEW e \in EventIds,
           NEW principal \in Nat, NEW fee \in Nat, NEW t \in Time,
           MarkPaymentSucceeded(e, principal, fee, t), attempts' # attempts
    PROVE  BudgetInv'
<1> DEFINE row == Settled(attempts[e], principal, fee, t)
<1>1. /\ attempts[e] \in AttemptRow /\ connections' = connections
      /\ attempts[e].state # "succeeded"
      /\ AdjustPeriodUsed(attempts[e],
             IF Unresolved(e) THEN Reserved(attempts[e]) ELSE 0,
             Charged(attempts[e].conn, principal, fee))
      /\ attempts' = [attempts EXCEPT ![e] = row]
  BY SucceededCases
<1>2. /\ row \in AttemptRow /\ row.state = "succeeded"
      /\ row.conn = attempts[e].conn /\ row.period = attempts[e].period
      /\ row.charged = Charged(attempts[e].conn, principal, fee)
  <2>1. \A old \in AttemptRow :
            LET new == Settled(old, principal, fee, t)
            IN  /\ new \in AttemptRow /\ new.state = "succeeded"
                /\ new.conn = old.conn /\ new.period = old.period
                /\ new.charged = Charged(old.conn, principal, fee)
    BY SettledRow, ZenonT(60)
  <2>2. attempts[e] \in AttemptRow
    BY <1>1
  <2> QED BY <2>1, <2>2
<1>3. /\ Contribution(row) = Charged(attempts[e].conn, principal, fee)
      /\ Contribution(attempts[e]) =
             IF Unresolved(e) THEN Reserved(attempts[e]) ELSE 0
  BY <1>1, <1>2 DEF Contribution, Unresolved
<1>4. Exists(e)
  BY <1>1 DEF Exists, AttemptRow
<1> HIDE DEF row
<1> QED BY <1>1, <1>2, <1>3, <1>4, RowReplaced

LEMMA TransactionKeepsBudget ==
    ASSUME AccountingTypeOK, BudgetInv, NEW f \in EventIds, NEW time \in Time,
           Transaction(f, time)
    PROVE  BudgetInv'
<1>1. CASE UNCHANGED <<connections, used, attempts>>
  BY <1>1 DEF BudgetInv, BudgetIsSumOfDebits, AbsentHoldsNothing, Imported,
              Debits, Exists, Contribution, Reserved
<1>2. ASSUME NEW e \in EventIds, NEW t \in Time, attempts' = attempts,
             MarkPaymentInitiated(e, t) \/ MarkPaymentPending(e, t)
                 \/ MarkPaymentFailed(e, t)
      PROVE  UNCHANGED <<connections, used, attempts>>
  <2> DEFINE row == [attempts[e] EXCEPT !.state = "failed", !.updated_at = t]
  <2>1. ASSUME Unresolved(e), attempts' = [attempts EXCEPT ![e] = row]
        PROVE  FALSE
    <3>1. attempts[e] \in AttemptRow
      BY <2>1, StoredRow DEF Unresolved, Exists
    <3>2. row.state = "failed"
      BY <3>1 DEF AttemptRow
    <3> HIDE DEF row
    <3>3. attempts[e] = row
      BY <1>2, <2>1 DEF AccountingTypeOK
    <3> QED BY <2>1, <3>2, <3>3 DEF Unresolved
  <2> QED BY <1>2, <2>1
    DEF MarkPaymentInitiated, MarkPaymentPending, MarkPaymentFailed,
        registryVars
<1>3. ASSUME NEW e \in EventIds, NEW principal \in Nat, NEW fee \in Nat,
             NEW t \in Time, MarkPaymentSucceeded(e, principal, fee, t),
             attempts' = attempts
      PROVE  UNCHANGED <<connections, used, attempts>>
  <2>1. /\ attempts[e] \in AttemptRow /\ connections' = connections
        /\ \/ used' = used
           \/ /\ attempts[e].state # "succeeded"
              /\ attempts' = [attempts EXCEPT ![e] =
                     Settled(attempts[e], principal, fee, t)]
    BY <1>3, SucceededCases
  <2>2. Settled(attempts[e], principal, fee, t).state = "succeeded"
    BY <2>1, SettledRow
  <2> QED BY <1>3, <2>1, <2>2 DEF AccountingTypeOK
<1> QED BY <1>1, <1>2, <1>3, BudgetReserve, BudgetMarks, BudgetRelease,
           BudgetSucceeded DEF Transaction

LEMMA BudgetUnchanged ==
    ASSUME BudgetInv, UNCHANGED <<connections, used, attempts>>
    PROVE  BudgetInv'
BY DEF BudgetInv, BudgetIsSumOfDebits, AbsentHoldsNothing, Imported,
       Debits, Exists, Contribution, Reserved

LEMMA BudgetStep ==
    ASSUME AccountingTypeOK, BudgetInv, [AccountingNext]_accountingVars
    PROVE  BudgetInv'
<1>1. UNCHANGED accountingVars => UNCHANGED <<connections, used, attempts>>
  BY DEF accountingVars
<1> QED BY <1>1, BudgetUnchanged, TransactionSteps, TransactionKeepsBudget,
           BudgetConnectionStep

(***************************************************************************)
(* Through every refund, late settlement, release, re-reservation and      *)
(* repeated call, used_sat of a budget period is what was imported into it *)
(* plus what its attempts hold or were charged: no debit is lost, counted  *)
(* twice or charged to another period.                                     *)
(***************************************************************************)
THEOREM BudgetAlwaysSumOfDebits == AccountingSpec => []BudgetIsSumOfDebits
<1>1. AccountingInit => BudgetInv
  <2> SUFFICES ASSUME AccountingInit PROVE BudgetInv
    OBVIOUS
  <2>0. AccountingTypeOK /\ IsFiniteSet(EventIds)
    BY AccountingTypeInit, AccountingAssumption
  <2>1. \A e \in EventIds : ~Exists(e)
    BY DEF AccountingInit, Exists, NoAttempt
  <2>2. ASSUME NEW c \in ConnectionIds, NEW t \in Time
        PROVE  used[c][t] =
                   Imported(c, t) + SumFunctionOnSet(Debits(c, t), EventIds)
    <3>1. Debits(c, t) \in [EventIds -> Nat]
      BY <2>0, DebitsNat
    <3>2. \A e \in EventIds : Debits(c, t)[e] = 0
      BY <2>1 DEF Debits
    <3>3. SumFunctionOnSet(Debits(c, t), EventIds) = 0
      BY <2>0, <3>1, <3>2, SumOfNaturals
    <3>4. used[c][t] = 0 /\ Imported(c, t) = 0
      BY DEF AccountingInit, RegistryInit, Imported, AbsentConnection
    <3> QED BY <3>3, <3>4
  <2>3. BudgetIsSumOfDebits
    BY <2>2 DEF BudgetIsSumOfDebits
  <2>4. AbsentHoldsNothing
    BY <2>1 DEF AbsentHoldsNothing, AccountingInit, RegistryInit,
                AbsentConnection
  <2> QED BY <2>3, <2>4 DEF BudgetInv
<1>2. AccountingTypeOK /\ BudgetInv /\ [AccountingNext]_accountingVars
        => BudgetInv'
  BY BudgetStep
<1>3. BudgetInv => BudgetIsSumOfDebits
  BY DEF BudgetInv
<1> QED BY <1>1, <1>2, <1>3, AccountingTypeCorrect, PTL DEF AccountingSpec

\* What adjust_period_used checks before it subtracts.
SubtractionFits ==
    \A e \in EventIds : Exists(e) =>
        used[attempts[e].conn][attempts[e].period] >= Contribution(attempts[e])

(***************************************************************************)
(* The checked subtraction of adjust_period_used never fails, so a refund  *)
(* or a settlement is never refused for an inconsistent ledger: what a row *)
(* holds is part of the sum its period was charged.                        *)
(***************************************************************************)
THEOREM SubtractionNeverRefused == AccountingSpec => []SubtractionFits
<1>1. ASSUME AccountingTypeOK, BudgetIsSumOfDebits PROVE SubtractionFits
  <2> SUFFICES ASSUME NEW e \in EventIds, Exists(e)
               PROVE  used[attempts[e].conn][attempts[e].period] >=
                          Contribution(attempts[e])
    BY DEF SubtractionFits
  <2> DEFINE c == attempts[e].conn
             t == attempts[e].period
             sum == SumFunctionOnSet(Debits(c, t), EventIds)
  <2>1. c \in ConnectionIds /\ t \in Time
    BY <1>1, StoredRow DEF AttemptRow
  <2>2. Debits(c, t)[e] = Contribution(attempts[e])
    BY <2>1 DEF Debits
  <2>3. Debits(c, t) \in [EventIds -> Nat] /\ IsFiniteSet(EventIds)
    BY <1>1, DebitsNat, AccountingAssumption
  <2>4. Debits(c, t)[e] <= sum /\ sum \in Nat /\ Debits(c, t)[e] \in Nat
    BY <2>3, SummandWithinSum, SumOfNaturals
  <2>5. used[c][t] = Imported(c, t) + sum /\ Imported(c, t) \in Nat
    BY <1>1, <2>1
    DEF BudgetIsSumOfDebits, Imported, AccountingTypeOK, RegistryTypeOK,
        ConnectionRow
  <2> HIDE DEF c, t, sum
  <2>6. used[c][t] >= Debits(c, t)[e]
    BY <2>4, <2>5
  <2> QED BY <2>2, <2>6 DEF c, t
<1> QED BY <1>1, AccountingTypeCorrect, BudgetAlwaysSumOfDebits, PTL

-----------------------------------------------------------------------------
(* Event claims. *)

\* A lease that is not past its expiry is the claim its row records.
LeaseMatchesRow ==
    \A p \in Processes :
        Holds(p) => \/ lease[p].until <= now
                    \/ /\ events[lease[p].event] # NoEvent
                       /\ events[lease[p].event].state = "claimed"
                       /\ events[lease[p].event].token = lease[p].token
                       /\ events[lease[p].event].available_at = lease[p].until

TokensDistinct ==
    \A p, q \in Processes :
        Holds(p) /\ Holds(q) /\ lease[p].token = lease[q].token => p = q

ClaimsInv == ClaimsTypeOK /\ LeaseMatchesRow /\ TokensDistinct

-----------------------------------------------------------------------------
\* The types a lease holder's writes start from.
LEMMA HolderTypes ==
    ASSUME ClaimsTypeOK, NEW p \in Processes, Holds(p)
    PROVE  /\ lease[p] \in LeaseRecord
           /\ lease[p].event \in EventIds
           /\ lease[p].token \in Tokens
           /\ lease[p].until \in Nat
BY DEF ClaimsTypeOK, Holds, LeaseRecord

LEMMA OwnedRowType ==
    ASSUME ClaimsTypeOK, NEW p \in Processes, NEW t, OwnsLease(p, t)
    PROVE  /\ Holds(p) /\ lease[p] \in LeaseRecord
           /\ events[lease[p].event] \in EventRow
           /\ events[lease[p].event] # NoEvent
<1>1. Holds(p) /\ lease[p] \in LeaseRecord /\ lease[p].event \in EventIds
  BY HolderTypes DEF OwnsLease
<1>2. events[lease[p].event] \in EventRow \cup {NoEvent}
  BY <1>1 DEF ClaimsTypeOK
<1> QED BY <1>1, <1>2 DEF OwnsLease, NoEvent

\* Clock values a caller may bring.
LEMMA ClockValues ==
    ASSUME ClaimsTypeOK, NEW t \in 0..now
    PROVE  t \in Nat /\ t <= now /\ now \in Nat
BY RegistryAssumption DEF ClaimsTypeOK, Time

\* claim_event keeps the types.
LEMMA ClaimType ==
    ASSUME ClaimsTypeOK, NEW p \in Processes, NEW e \in EventIds,
           NEW c \in ConnectionIds, NEW r \in Nat, NEW t \in Nat,
           NEW d \in Leases, ClaimEvent(p, e, c, r, t, d)
    PROVE  /\ events' \in [EventIds -> EventRow \cup {NoEvent}]
           /\ lease' \in [Processes -> LeaseRecord \cup {NoLease}]
<1> DEFINE accepted == events[e] # NoEvent /\ events[e].fresh
<1>1. accepted \in BOOLEAN
  OBVIOUS
<1>2. t + d \in Nat
  BY ClaimsAssumption
<1> HIDE DEF accepted
<1>3. PICK token \in FreshTokens :
        /\ events' = [events EXCEPT ![e] =
               [state |-> "claimed", conn |-> c, revision |-> r,
                token |-> token, available_at |-> t + d,
                fresh |-> accepted, kind |-> "none",
                response |-> "none", updated_at |-> t]]
        /\ lease' = [lease EXCEPT ![p] =
               [event |-> e, token |-> token, until |-> t + d,
                fresh |-> accepted]]
  BY DEF ClaimEvent, accepted
<1>4. token \in Tokens
  BY <1>3 DEF FreshTokens
<1>5. events' \in [EventIds -> EventRow \cup {NoEvent}]
  BY <1>1, <1>2, <1>3, <1>4 DEF ClaimsTypeOK, EventRow
<1>6. lease' \in [Processes -> LeaseRecord \cup {NoLease}]
  BY <1>1, <1>2, <1>3, <1>4 DEF ClaimsTypeOK, LeaseRecord
<1> QED BY <1>5, <1>6

\* accept_event_freshness, renew_lease, retry_later and complete_event keep the
\* types: what they write is a row, and what they leave in memory a lease.
LEMMA AcceptType ==
    ASSUME ClaimsTypeOK, NEW p \in Processes, NEW t \in Nat,
           AcceptEventFreshness(p, t)
    PROVE  events' \in [EventIds -> EventRow \cup {NoEvent}]
<1>1. lease[p].event \in EventIds /\ events[lease[p].event] \in EventRow
  BY OwnedRowType DEF AcceptEventFreshness, LeaseRecord
<1> QED BY <1>1 DEF AcceptEventFreshness, ClaimsTypeOK, EventRow

LEMMA RenewType ==
    ASSUME ClaimsTypeOK, NEW p \in Processes, NEW t \in Nat, NEW d \in Leases,
           RenewLease(p, t, d)
    PROVE  /\ events' \in [EventIds -> EventRow \cup {NoEvent}]
           /\ lease' \in [Processes -> LeaseRecord \cup {NoLease}]
<1>1. /\ lease[p] \in LeaseRecord /\ lease[p].event \in EventIds
      /\ events[lease[p].event] \in EventRow
  BY OwnedRowType DEF RenewLease, LeaseRecord
<1>2. t + d \in Nat
  BY ClaimsAssumption
<1> QED BY <1>1, <1>2 DEF RenewLease, ClaimsTypeOK, EventRow, LeaseRecord

LEMMA RetryType ==
    ASSUME ClaimsTypeOK, NEW p \in Processes, NEW t \in Nat, RetryLater(p, t)
    PROVE  /\ events' \in [EventIds -> EventRow \cup {NoEvent}]
           /\ lease' \in [Processes -> LeaseRecord \cup {NoLease}]
<1>1. lease[p].event \in EventIds /\ events[lease[p].event] \in EventRow
  BY OwnedRowType DEF RetryLater, LeaseRecord
<1>2. t + RetryDelay \in Nat
  BY ClaimsAssumption
<1> QED BY <1>1, <1>2 DEF RetryLater, ClaimsTypeOK, EventRow

LEMMA CompleteType ==
    ASSUME ClaimsTypeOK, NEW p \in Processes, NEW t \in Nat,
           NEW kind \in {"completed", "rejected", "failed"},
           NEW response \in Responses \cup {"none"},
           CompleteEvent(p, kind, response, t)
    PROVE  /\ events' \in [EventIds -> EventRow \cup {NoEvent}]
           /\ lease' \in [Processes -> LeaseRecord \cup {NoLease}]
<1> DEFINE row == events[lease[p].event]
           done == [row EXCEPT !.state = "terminal", !.token = Nobody,
                               !.available_at = 0, !.kind = kind,
                               !.response = response, !.updated_at = t]
<1>1. lease[p].event \in EventIds /\ row \in EventRow
  BY OwnedRowType DEF CompleteEvent, LeaseRecord
<1>2. done \in EventRow
  BY <1>1 DEF EventRow
<1>3. /\ events' = [events EXCEPT ![lease[p].event] = done]
      /\ lease' = [lease EXCEPT ![p] = NoLease]
  BY DEF CompleteEvent
<1> QED BY <1>1, <1>2, <1>3 DEF ClaimsTypeOK

-----------------------------------------------------------------------------
claimsSpecVars == <<registryVars, claimVars>>

LEMMA ClaimsTypeInit == ClaimsInit => ClaimsTypeOK
<1> SUFFICES ASSUME ClaimsInit PROVE ClaimsTypeOK
  OBVIOUS
<1>1. 0 \in Time
  BY RegistryAssumption DEF Time
<1>2. AbsentConnection \in ConnectionRow
  BY <1>1 DEF AbsentConnection, ConnectionRow
<1>3. RegistryTypeOK
  BY <1>2 DEF ClaimsInit, RegistryInit, RegistryTypeOK
<1> QED BY <1>1, <1>3 DEF ClaimsInit, ClaimsTypeOK

\* What a step of one process is, with the choices it made named.
LEMMA ProcessStepType ==
    ASSUME ClaimsTypeOK, NEW p \in Processes, ProcessStep(p)
    PROVE  /\ events' \in [EventIds -> EventRow \cup {NoEvent}]
           /\ lease' \in [Processes -> LeaseRecord \cup {NoLease}]
<1>1. CASE Claim(p)
  <2>1. PICK e \in EventIds, c \in ConnectionIds, t \in 0..now, d \in Leases :
          ClaimEvent(p, e, c, connections[c].revision, t, d)
    BY <1>1 DEF Claim
  <2>2. connections[c].revision \in Nat
    BY DEF ClaimsTypeOK, RegistryTypeOK, ConnectionRow
  <2> QED BY <2>1, <2>2, ClaimType, ClockValues
<1>2. CASE Accept(p)
  <2>1. PICK t \in 0..now : AcceptEventFreshness(p, t)
    BY <1>2 DEF Accept
  <2>2. lease' = lease
    BY <2>1 DEF AcceptEventFreshness
  <2> QED BY <2>1, <2>2, AcceptType, ClockValues DEF ClaimsTypeOK
<1>3. CASE Renew(p)
  <2>1. PICK t \in 0..now, d \in Leases : RenewLease(p, t, d)
    BY <1>3 DEF Renew
  <2> QED BY <2>1, RenewType, ClockValues
<1>4. CASE Retry(p)
  <2>1. PICK t \in 0..now : RetryLater(p, t)
    BY <1>4 DEF Retry
  <2> QED BY <2>1, RetryType, ClockValues
<1>5. CASE Finish(p)
  <2>1. PICK t \in 0..now, kind \in {"completed", "rejected", "failed"},
             response \in Responses \cup {"none"} :
          CompleteEvent(p, kind, response, t)
    BY <1>5 DEF Finish, CompleteEventForActiveConnection
  <2> QED BY <2>1, CompleteType, ClockValues
<1>6. CASE DropLease(p)
  BY <1>6 DEF DropLease, ClaimsTypeOK
<1> QED BY <1>1, <1>2, <1>3, <1>4, <1>5, <1>6 DEF ProcessStep

\* Every step keeps the types: the clock stays below MaxTime, a connection
\* change is dated by it, and the rest is ProcessStepType.
LEMMA ClaimsTypeStep ==
    ASSUME ClaimsTypeOK, [ClaimsNext]_claimsSpecVars
    PROVE  ClaimsTypeOK'
<1>1. CASE Tick /\ UNCHANGED registryVars
  <2>1. now' \in Time
    BY <1>1, RegistryAssumption DEF Tick, Time, ClaimsTypeOK
  <2> QED BY <1>1, <2>1 DEF Tick, ClaimsTypeOK, registryVars, RegistryTypeOK
<1>2. CASE \E p \in Processes : ProcessStep(p) /\ UNCHANGED <<registryVars, now>>
  <2>1. UNCHANGED <<connections, outbox, used, now>>
    BY <1>2 DEF registryVars
  <2>2. /\ events' \in [EventIds -> EventRow \cup {NoEvent}]
        /\ lease' \in [Processes -> LeaseRecord \cup {NoLease}]
    BY <1>2, ProcessStepType
  <2> QED BY <2>1, <2>2 DEF ClaimsTypeOK, RegistryTypeOK
<1>3. CASE Prune /\ UNCHANGED <<registryVars, now>>
  BY <1>3 DEF Prune, PruneTerminal, ClaimsTypeOK, registryVars, RegistryTypeOK
<1>4. CASE /\ \E c \in ConnectionIds :
                  \/ InsertConnection(c, now)
                  \/ TombstoneConnection(c, connections[c].revision, now)
           /\ UNCHANGED claimVars
  <2>1. PICK c \in ConnectionIds :
          \/ InsertConnection(c, now)
          \/ TombstoneConnection(c, connections[c].revision, now)
    BY <1>4
  <2>2. RegistryTypeOK /\ now \in Time
    BY DEF ClaimsTypeOK
  <2>3. now <= now
    BY <2>2, RegistryAssumption DEF Time
  <2>4. connections[c].revision \in Nat
    BY <2>2 DEF RegistryTypeOK, ConnectionRow
  <2>5. RegistryTypeOK'
    BY <2>1, <2>2, <2>3, <2>4, InsertConnectionStateType,
       TombstoneConnectionType
    DEF InsertConnection
  <2> QED BY <1>4, <2>5 DEF ClaimsTypeOK, claimVars
<1>5. CASE UNCHANGED claimsSpecVars
  BY <1>5 DEF claimsSpecVars, registryVars, claimVars, ClaimsTypeOK,
              RegistryTypeOK
<1> QED BY <1>1, <1>2, <1>3, <1>4, <1>5 DEF ClaimsNext

(***************************************************************************)
(* The event table and the leases in memory keep their types in every      *)
(* behaviour of claim_event and the writes of lease holders.               *)
(***************************************************************************)
THEOREM ClaimsTypeCorrect == ClaimsSpec => []ClaimsTypeOK
<1>1. ClaimsTypeOK /\ [ClaimsNext]_claimsSpecVars => ClaimsTypeOK'
  BY ClaimsTypeStep
<1> QED BY <1>1, ClaimsTypeInit, PTL DEF ClaimsSpec, claimsSpecVars

-----------------------------------------------------------------------------
\* A claim is given only when no unexpired lease on the event is left, and its
\* token is nobody else's.
LEMMA ClaimEventKeepsLeases ==
    ASSUME ClaimsInv, NEW p \in Processes, NEW e \in EventIds, NEW c, NEW r,
           NEW t \in 0..now, NEW d \in Leases, ClaimEvent(p, e, c, r, t, d),
           now' = now
    PROVE  LeaseMatchesRow' /\ TokensDistinct'
<1>1. ClaimEvent(p, e, c, r, t, d)
  OBVIOUS
<1>2. t \in Nat /\ t <= now /\ now \in Nat /\ ClaimsTypeOK
  BY ClockValues DEF ClaimsInv
<1>3. PICK token \in FreshTokens :
        /\ events' = [events EXCEPT ![e] = events'[e]]
        /\ lease' = [lease EXCEPT ![p] = lease'[p]]
        /\ events'[e].state = "claimed" /\ events'[e].token = token
        /\ events'[e].available_at = t + d /\ events'[e] # NoEvent
        /\ lease'[p].event = e /\ lease'[p].token = token
        /\ lease'[p].until = t + d
  BY <1>1, <1>2 DEF ClaimEvent, ClaimsTypeOK, NoEvent
<1>4. \A q \in Processes : q # p => lease'[q] = lease[q]
  BY <1>2, <1>3 DEF ClaimsTypeOK
<1>5. \A q \in Processes : lease[q].token # token
  BY <1>3 DEF FreshTokens
<1>6. ASSUME NEW q \in Processes, Holds(q), lease[q].event = e
      PROVE  lease[q].until <= now
  <2>1. lease[q].until \in Nat
    BY <1>2, <1>6, HolderTypes
  <2>2. events[e] = NoEvent \/ events[e].available_at <= t
    <3>1. events[e] \in EventRow \cup {NoEvent}
      BY <1>2 DEF ClaimsTypeOK
    <3>2. events[e] # NoEvent => events[e].available_at \in Nat
      BY <3>1 DEF EventRow
    <3>3. events[e] # NoEvent => ~(events[e].available_at > t)
      BY <1>1 DEF ClaimEvent, ClaimOutcome
    <3> QED BY <3>2, <3>3, <1>2
  <2> QED BY <1>2, <1>6, <2>1, <2>2 DEF ClaimsInv, LeaseMatchesRow
<1>7. LeaseMatchesRow'
  <2> SUFFICES ASSUME NEW q \in Processes, Holds(q)', ~(lease'[q].until <= now)
      PROVE  /\ events'[lease'[q].event] # NoEvent
             /\ events'[lease'[q].event].state = "claimed"
             /\ events'[lease'[q].event].token = lease'[q].token
             /\ events'[lease'[q].event].available_at = lease'[q].until
    BY DEF LeaseMatchesRow
  <2>1. CASE q = p
    BY <2>1, <1>3
  <2>2. CASE q # p
    <3>1. lease'[q] = lease[q] /\ Holds(q)
      BY <2>2, <1>4 DEF Holds
    <3>2. lease[q].event # e /\ lease[q].event \in EventIds
      BY <3>1, <1>2, <1>6, HolderTypes
    <3>3. events'[lease[q].event] = events[lease[q].event]
      BY <3>2, <1>2, <1>3 DEF ClaimsTypeOK
    <3> QED BY <3>1, <3>3 DEF ClaimsInv, LeaseMatchesRow
  <2> QED BY <2>1, <2>2
<1>8. TokensDistinct'
  BY <1>3, <1>4, <1>5 DEF TokensDistinct, Holds, ClaimsInv
<1> QED BY <1>7, <1>8

LEMMA ClaimKeepsLeases ==
    ASSUME ClaimsInv, NEW p \in Processes, Claim(p), now' = now
    PROVE  LeaseMatchesRow' /\ TokensDistinct'
BY ClaimEventKeepsLeases DEF Claim

\* A write of a lease holder touches no row another live lease stands for:
\* that lease would carry the same token.
LEMMA OwnedRowIsOnlyOnes ==
    ASSUME ClaimsInv, NEW p \in Processes, NEW t, OwnsLease(p, t),
           NEW q \in Processes, q # p, Holds(q), ~(lease[q].until <= now)
    PROVE  lease[q].event # lease[p].event
BY DEF ClaimsInv, LeaseMatchesRow, TokensDistinct, OwnsLease

\* What retry_later, complete_event and renew_lease have in common: only the
\* row and the lease of one owner change, and the lease stays as it is in the
\* row or is dropped.
LEMMA OwnerKeepsLeases ==
    ASSUME ClaimsInv, NEW p \in Processes, NEW t, OwnsLease(p, t),
           now' = now,
           events' = [events EXCEPT ![lease[p].event] =
                                        events'[lease[p].event]],
           lease' = [lease EXCEPT ![p] = lease'[p]],
           \/ lease'[p] = NoLease
           \/ /\ lease'[p].event = lease[p].event
              /\ lease'[p].token = lease[p].token
              /\ events'[lease[p].event] # NoEvent
              /\ events'[lease[p].event].state = "claimed"
              /\ events'[lease[p].event].token = lease[p].token
              /\ events'[lease[p].event].available_at = lease'[p].until
    PROVE  LeaseMatchesRow' /\ TokensDistinct'
<1>1. ClaimsTypeOK /\ Holds(p)
  BY DEF ClaimsInv, OwnsLease
<1>2. \A q \in Processes : q # p => lease'[q] = lease[q]
  BY <1>1 DEF ClaimsTypeOK
<1>3. LeaseMatchesRow'
  <2> SUFFICES ASSUME NEW q \in Processes, Holds(q)', ~(lease'[q].until <= now)
      PROVE  /\ events'[lease'[q].event] # NoEvent
             /\ events'[lease'[q].event].state = "claimed"
             /\ events'[lease'[q].event].token = lease'[q].token
             /\ events'[lease'[q].event].available_at = lease'[q].until
    BY DEF LeaseMatchesRow
  <2>1. CASE q = p
    BY <2>1 DEF Holds
  <2>2. CASE q # p
    <3>1. lease'[q] = lease[q] /\ Holds(q)
      BY <2>2, <1>2 DEF Holds
    <3>2. lease[q].event # lease[p].event /\ lease[q].event \in EventIds
      BY <2>2, <3>1, <1>1, HolderTypes, OwnedRowIsOnlyOnes
    <3>3. events'[lease[q].event] = events[lease[q].event]
      BY <3>2, <1>1 DEF ClaimsTypeOK
    <3> QED BY <3>1, <3>3 DEF ClaimsInv, LeaseMatchesRow
  <2> QED BY <2>1, <2>2
<1>4. TokensDistinct'
  BY <1>1, <1>2 DEF TokensDistinct, Holds, ClaimsInv
<1> QED BY <1>3, <1>4

\* Every step of a process keeps live leases and their rows together.
LEMMA ProcessStepKeepsLeases ==
    ASSUME ClaimsInv, ClaimsTypeOK', NEW p \in Processes, ProcessStep(p),
           now' = now
    PROVE  LeaseMatchesRow' /\ TokensDistinct'
<1>0. ClaimsTypeOK
  BY DEF ClaimsInv
<1>1. CASE Claim(p)
  BY <1>1, ClaimKeepsLeases
<1>2. CASE Accept(p)
  <2>1. PICK t \in 0..now : AcceptEventFreshness(p, t)
    BY <1>2 DEF Accept
  <2>2. /\ OwnsLease(p, t) /\ lease' = lease /\ lease[p].event \in EventIds
        /\ events[lease[p].event] \in EventRow
    BY <2>1, <1>0, OwnedRowType DEF AcceptEventFreshness, LeaseRecord
  <2>3. \A e \in EventIds :
          events[e] # NoEvent =>
            /\ events'[e] # NoEvent
            /\ events'[e].state = events[e].state
            /\ events'[e].token = events[e].token
            /\ events'[e].available_at = events[e].available_at
    <3>1. \A e \in EventIds : e # lease[p].event => events'[e] = events[e]
      BY <2>1, <2>2, <1>0 DEF AcceptEventFreshness, ClaimsTypeOK
    <3>2. events'[lease[p].event] =
            [events[lease[p].event] EXCEPT !.fresh = TRUE, !.updated_at = t]
      BY <2>1, <2>2, <1>0 DEF AcceptEventFreshness, ClaimsTypeOK
    <3>3. /\ events'[lease[p].event].state = events[lease[p].event].state
          /\ events'[lease[p].event].token = events[lease[p].event].token
          /\ events'[lease[p].event].available_at =
               events[lease[p].event].available_at
      BY <2>2, <3>2 DEF EventRow
    <3>4. events'[lease[p].event] # NoEvent
      BY <3>3, <2>2 DEF OwnsLease, NoEvent
    <3> QED BY <3>1, <3>3, <3>4
  <2>4. LeaseMatchesRow'
    <3> SUFFICES ASSUME NEW q \in Processes, Holds(q), ~(lease[q].until <= now)
        PROVE  /\ events'[lease[q].event] # NoEvent
               /\ events'[lease[q].event].state = "claimed"
               /\ events'[lease[q].event].token = lease[q].token
               /\ events'[lease[q].event].available_at = lease[q].until
      BY <2>2 DEF LeaseMatchesRow, Holds
    <3>1. lease[q].event \in EventIds
      BY <1>0, HolderTypes
    <3> QED BY <3>1, <2>3 DEF ClaimsInv, LeaseMatchesRow
  <2>5. TokensDistinct'
    BY <2>2 DEF ClaimsInv, TokensDistinct, Holds
  <2> QED BY <2>4, <2>5
<1>3. CASE Renew(p)
  <2>1. PICK t \in 0..now, d \in Leases : RenewLease(p, t, d)
    BY <1>3 DEF Renew
  <2>2. /\ OwnsLease(p, t) /\ lease[p].event \in EventIds
        /\ lease[p] \in LeaseRecord /\ events[lease[p].event] \in EventRow
    BY <2>1, <1>0, OwnedRowType DEF RenewLease, LeaseRecord
  <2>3. /\ lease' = [lease EXCEPT ![p] = lease'[p]]
        /\ lease'[p].event = lease[p].event
        /\ lease'[p].token = lease[p].token
        /\ lease'[p].until = t + d
    BY <2>1, <2>2, <1>0 DEF RenewLease, ClaimsTypeOK, LeaseRecord
  <2>4. /\ events' = [events EXCEPT ![lease[p].event] =
                                        events'[lease[p].event]]
        /\ events'[lease[p].event] =
             [events[lease[p].event] EXCEPT !.available_at = t + d,
                                            !.updated_at = t]
    BY <2>1, <2>2, <1>0 DEF RenewLease, ClaimsTypeOK
  <2>5. /\ events'[lease[p].event].state = "claimed"
        /\ events'[lease[p].event].token = lease[p].token
        /\ events'[lease[p].event].available_at = t + d
    BY <2>2, <2>4 DEF EventRow, OwnsLease
  <2>6. events'[lease[p].event] # NoEvent
    BY <2>5 DEF NoEvent
  <2> QED BY <2>2, <2>3, <2>4, <2>5, <2>6, OwnerKeepsLeases
<1>4. CASE Retry(p)
  <2>1. PICK t \in 0..now : RetryLater(p, t)
    BY <1>4 DEF Retry
  <2>2. OwnsLease(p, t) /\ lease[p].event \in EventIds
    BY <2>1, <1>0, OwnedRowType DEF RetryLater, LeaseRecord
  <2>3. /\ lease' = [lease EXCEPT ![p] = lease'[p]] /\ lease'[p] = NoLease
        /\ events' = [events EXCEPT ![lease[p].event] =
                                        events'[lease[p].event]]
    BY <2>1, <2>2, <1>0 DEF RetryLater, ClaimsTypeOK
  <2> QED BY <2>2, <2>3, OwnerKeepsLeases
<1>5. CASE Finish(p)
  <2>1. PICK t \in 0..now, kind \in {"completed", "rejected", "failed"},
             response \in Responses \cup {"none"} :
          CompleteEvent(p, kind, response, t)
    BY <1>5 DEF Finish, CompleteEventForActiveConnection
  <2>2. OwnsLease(p, t) /\ lease[p].event \in EventIds
    BY <2>1, <1>0, OwnedRowType DEF CompleteEvent, LeaseRecord
  <2>3. /\ lease' = [lease EXCEPT ![p] = lease'[p]] /\ lease'[p] = NoLease
        /\ events' = [events EXCEPT ![lease[p].event] =
                                        events'[lease[p].event]]
    BY <2>1, <2>2, <1>0 DEF CompleteEvent, ClaimsTypeOK
  <2> QED BY <2>2, <2>3, OwnerKeepsLeases
<1>6. CASE DropLease(p)
  <2>1. /\ events' = events /\ lease'[p] = NoLease
        /\ \A q \in Processes : q # p => lease'[q] = lease[q]
    BY <1>6, <1>0 DEF DropLease, ClaimsTypeOK
  <2> QED BY <2>1 DEF ClaimsInv, LeaseMatchesRow, TokensDistinct, Holds
<1> QED BY <1>1, <1>2, <1>3, <1>4, <1>5, <1>6 DEF ProcessStep

LEMMA ClaimsInvStep ==
    ASSUME ClaimsInv, [ClaimsNext]_claimsSpecVars
    PROVE  ClaimsInv'
<1>0. ClaimsTypeOK /\ ClaimsTypeOK'
  BY ClaimsTypeStep DEF ClaimsInv
<1>1. CASE Tick /\ UNCHANGED registryVars
  <2>1. now \in Nat /\ now' = now + 1 /\ events' = events /\ lease' = lease
    BY <1>0, <1>1, RegistryAssumption DEF Tick, Time, ClaimsTypeOK
  <2>2. ASSUME NEW p \in Processes, Holds(p), lease[p].until <= now
        PROVE  lease[p].until <= now'
    BY <2>1, <2>2, <1>0, HolderTypes
  <2> QED BY <1>0, <2>1, <2>2
          DEF ClaimsInv, LeaseMatchesRow, TokensDistinct, Holds
<1>2. CASE \E p \in Processes : ProcessStep(p) /\ UNCHANGED <<registryVars, now>>
  BY <1>0, <1>2, ProcessStepKeepsLeases DEF ClaimsInv
<1>3. CASE Prune /\ UNCHANGED <<registryVars, now>>
  <2>1. PICK e \in EventIds : /\ events[e].state = "terminal"
                              /\ events' = [events EXCEPT ![e] = NoEvent]
                              /\ lease' = lease /\ now' = now
    BY <1>3 DEF Prune, PruneTerminal
  <2>2. ASSUME NEW p \in Processes, Holds(p), lease[p].event # e
        PROVE  events'[lease[p].event] = events[lease[p].event]
    BY <2>1, <2>2, <1>0, HolderTypes DEF ClaimsTypeOK
  <2> QED BY <1>0, <2>1, <2>2
          DEF ClaimsInv, LeaseMatchesRow, TokensDistinct, Holds
<1>4. CASE UNCHANGED claimVars
  BY <1>0, <1>4 DEF claimVars, ClaimsInv, LeaseMatchesRow, TokensDistinct, Holds
<1> QED BY <1>1, <1>2, <1>3, <1>4 DEF ClaimsNext, claimsSpecVars

LEMMA LiveLeaseIsSole ==
    ASSUME ClaimsInv PROVE ExclusiveLease
<1> SUFFICES ASSUME NEW p \in Processes, NEW q \in Processes,
                    Live(p), Live(q), lease[p].event = lease[q].event
             PROVE  p = q
  BY DEF ExclusiveLease
<1>1. /\ Holds(p) /\ Holds(q)
      /\ ~(lease[p].until <= now) /\ ~(lease[q].until <= now)
  <2>1. Holds(p) /\ Holds(q) /\ ClaimsTypeOK
    BY DEF Live, ClaimsInv
  <2>2. now \in Nat /\ lease[p].until \in Nat /\ lease[q].until \in Nat
    BY <2>1, HolderTypes, RegistryAssumption DEF ClaimsTypeOK, Time
  <2> QED BY <2>1, <2>2 DEF Live
<1> QED BY <1>1 DEF ClaimsInv, LeaseMatchesRow, TokensDistinct

(***************************************************************************)
(* No interleaving of claims, renewals, releases, completions, prunes,     *)
(* crashes and stale clock reads lets two processes hold an unexpired      *)
(* lease on one event.                                                     *)
(***************************************************************************)
THEOREM LeasesAreExclusive == ClaimsSpec => []ExclusiveLease
<1>1. ClaimsInit => ClaimsInv
  BY ClaimsTypeInit DEF ClaimsInit, ClaimsInv, LeaseMatchesRow, TokensDistinct, Holds
<1>2. ClaimsInv /\ [ClaimsNext]_claimsSpecVars => ClaimsInv'
  BY ClaimsInvStep
<1>3. ClaimsInv => ExclusiveLease
  BY LiveLeaseIsSole
<1> QED BY <1>1, <1>2, <1>3, PTL DEF ClaimsSpec, claimsSpecVars

-----------------------------------------------------------------------------
(***************************************************************************)
(* The refinement of EventLifecycle.  Owner is written over given rows and *)
(* leases so that one fact serves the states before and after a step.      *)
(***************************************************************************)
Owning(rows, leases, p, e) ==
    /\ leases[p] # NoLease /\ leases[p].event = e
    /\ rows[e] # NoEvent /\ rows[e].state = "claimed"
    /\ rows[e].token = leases[p].token

OneOf(set) == IF set = {} THEN Nobody ELSE CHOOSE p \in set : TRUE

OwnerIn(rows, leases, e) ==
    OneOf({p \in Processes : Owning(rows, leases, p, e)})

LEMMA OwnerIsOwnerIn ==
    ASSUME NEW e \in EventIds
    PROVE  /\ Owner(e) = OwnerIn(events, lease, e)
           /\ Owner(e)' = OwnerIn(events', lease', e)
BY DEF Owner, OwnerIn, OneOf, Owning, Holds

LEMMA SameOwner ==
    ASSUME NEW rows, NEW leases, NEW rows2, NEW leases2, NEW e,
           \A p \in Processes :
               Owning(rows, leases, p, e) <=> Owning(rows2, leases2, p, e)
    PROVE  OwnerIn(rows, leases, e) = OwnerIn(rows2, leases2, e)
<1>1. {p \in Processes : Owning(rows, leases, p, e)} =
      {p \in Processes : Owning(rows2, leases2, p, e)}
  OBVIOUS
<1> QED BY <1>1 DEF OwnerIn

LEMMA SoleOwner ==
    ASSUME NEW rows, NEW leases, NEW e, NEW p \in Processes,
           Owning(rows, leases, p, e),
           \A q \in Processes : Owning(rows, leases, q, e) => q = p
    PROVE  OwnerIn(rows, leases, e) = p
<1>1. {q \in Processes : Owning(rows, leases, q, e)} = {p}
  OBVIOUS
<1> QED BY <1>1 DEF OwnerIn, OneOf

LEMMA NoOwner ==
    ASSUME NEW rows, NEW leases, NEW e,
           \A q \in Processes : ~Owning(rows, leases, q, e)
    PROVE  OwnerIn(rows, leases, e) = Nobody
<1>1. {q \in Processes : Owning(rows, leases, q, e)} = {}
  OBVIOUS
<1> QED BY <1>1 DEF OwnerIn, OneOf

\* A lease holder the row names is the owner.
LEMMA HolderIsOwner ==
    ASSUME ClaimsInv, NEW p \in Processes, NEW e \in EventIds,
           Owning(events, lease, p, e)
    PROVE  Owner(e) = p /\ Owner(e) # Nobody
<1>1. \A q \in Processes : Owning(events, lease, q, e) => q = p
  BY DEF ClaimsInv, TokensDistinct, Owning, Holds
<1>2. Owner(e) = p
  BY <1>1, SoleOwner, OwnerIsOwnerIn
<1> QED BY <1>2, ClaimsAssumption

\* The variables of EventLifecycle as they are mapped.
ownerOf == [e \in EventIds |-> Owner(e)]
outcomeOf == [e \in EventIds |->
    IF events[e].state = "terminal" THEN events[e].kind ELSE "open"]
acceptedOf == [e \in EventIds |-> events[e] # NoEvent /\ events[e].fresh]

RowOutcome(row) == IF row.state = "terminal" THEN row.kind ELSE "open"
RowAccepted(row) == row # NoEvent /\ row.fresh

\* A step of process p on the row of event e, the only event it has a lease on.
WorksOn(rows, rows2, leases, leases2, p, e, row) ==
    /\ rows2 = [rows EXCEPT ![e] = row]
    /\ \A q \in Processes : q # p => leases2[q] = leases[q]
    /\ leases[p] # NoLease => leases[p].event = e
    /\ leases2[p] # NoLease => leases2[p].event = e

\* It moves that event's part of the mapping only.
LEMMA OneEventMoves ==
    ASSUME ClaimsTypeOK, NEW p \in Processes, NEW e \in EventIds, NEW row,
           WorksOn(events, events', lease, lease', p, e, row)
    PROVE  /\ ownerOf' = [ownerOf EXCEPT ![e] = OwnerIn(events', lease', e)]
           /\ outcomeOf' = [outcomeOf EXCEPT ![e] = RowOutcome(row)]
           /\ acceptedOf' = [acceptedOf EXCEPT ![e] = RowAccepted(row)]
<1>1. \A f \in EventIds : events'[f] = IF f = e THEN row ELSE events[f]
  BY DEF ClaimsTypeOK, WorksOn
<1>2. ASSUME NEW f \in EventIds, f # e PROVE Owner(f)' = Owner(f)
  <2>1. \A q \in Processes :
          Owning(events', lease', q, f) <=> Owning(events, lease, q, f)
    BY <1>1, <1>2 DEF Owning, WorksOn
  <2>2. {q \in Processes : Owning(events', lease', q, f)} =
        {q \in Processes : Owning(events, lease, q, f)}
    BY <2>1
  <2>3. OwnerIn(events', lease', f) = OwnerIn(events, lease, f)
    BY <2>2 DEF OwnerIn
  <2> QED BY <2>3, OwnerIsOwnerIn
<1>3. \A f \in EventIds :
        Owner(f)' = IF f = e THEN OwnerIn(events', lease', e) ELSE Owner(f)
  BY <1>2, OwnerIsOwnerIn
<1>4. ownerOf' = [ownerOf EXCEPT ![e] = OwnerIn(events', lease', e)]
  BY <1>3 DEF ownerOf
<1>5. outcomeOf' = [outcomeOf EXCEPT ![e] = RowOutcome(row)]
  <2>1. outcomeOf' =
          [f \in EventIds |-> IF f = e THEN RowOutcome(row) ELSE outcomeOf[f]]
    BY <1>1 DEF outcomeOf, RowOutcome
  <2> QED BY <2>1 DEF outcomeOf
<1>6. acceptedOf' = [acceptedOf EXCEPT ![e] = RowAccepted(row)]
  <2>1. acceptedOf' =
          [f \in EventIds |-> IF f = e THEN RowAccepted(row) ELSE acceptedOf[f]]
    BY <1>1 DEF acceptedOf, RowAccepted
  <2> QED BY <2>1 DEF acceptedOf
<1> QED BY <1>4, <1>5, <1>6

\* claim_event makes the claimer the owner of an event with no outcome.
LEMMA ClaimEventAcquires ==
    ASSUME ClaimsInv, NEW p \in Processes, ~Holds(p), NEW e \in EventIds, NEW c, NEW r,
           NEW t, NEW d, ClaimEvent(p, e, c, r, t, d)
    PROVE  Claims!Acquire(e, p)
<1>0. ClaimsTypeOK
  BY DEF ClaimsInv
<1> DEFINE taken == events[e] # NoEvent /\ events[e].fresh
<1>2. PICK token \in FreshTokens :
        /\ events' = [events EXCEPT ![e] =
               [state |-> "claimed", conn |-> c,
                revision |-> r,
                token |-> token, available_at |-> t + d,
                fresh |-> taken, kind |-> "none",
                response |-> "none", updated_at |-> t]]
        /\ lease' = [lease EXCEPT ![p] =
               [event |-> e, token |-> token, until |-> t + d,
                fresh |-> taken]]
  BY DEF ClaimEvent
<1> DEFINE row == [state |-> "claimed", conn |-> c,
                   revision |-> r,
                   token |-> token, available_at |-> t + d,
                   fresh |-> taken, kind |-> "none",
                   response |-> "none", updated_at |-> t]
           held == [event |-> e, token |-> token, until |-> t + d,
                    fresh |-> taken]
<1>3. /\ row.state = "claimed" /\ row.token = token /\ row.fresh = taken
      /\ row # NoEvent /\ held.event = e /\ held.token = token
      /\ taken \in BOOLEAN
  BY DEF NoEvent
<1>4. token \in Tokens /\ token # Nobody /\ \A q \in Processes : lease[q].token # token
  BY ClaimsAssumption DEF FreshTokens
<1>5. held # NoLease
  BY <1>3, <1>4 DEF NoLease
<1>6. events' = [events EXCEPT ![e] = row] /\ lease' = [lease EXCEPT ![p] = held]
  BY <1>2
<1>7. events[e].state # "terminal"
  BY DEF ClaimEvent, ClaimOutcome, NoEvent
<1> HIDE DEF row, held
<1>8. OwnerIn(events', lease', e) = p
  <2>1. /\ events'[e] = row /\ lease'[p] = held
        /\ \A q \in Processes : q # p => lease'[q] = lease[q]
    BY <1>0, <1>6 DEF ClaimsTypeOK
  <2>2. Owning(events', lease', p, e)
    BY <2>1, <1>3, <1>5 DEF Owning
  <2>3. \A q \in Processes : Owning(events', lease', q, e) => q = p
    BY <2>1, <1>3, <1>4 DEF Owning
  <2> QED BY <2>2, <2>3, SoleOwner
<1>9. /\ ownerOf' = [ownerOf EXCEPT ![e] = p]
      /\ outcomeOf' = [outcomeOf EXCEPT ![e] = "open"]
      /\ acceptedOf' = [acceptedOf EXCEPT ![e] = taken]
  <2>1. /\ ownerOf' = [ownerOf EXCEPT ![e] = OwnerIn(events', lease', e)]
        /\ outcomeOf' = [outcomeOf EXCEPT ![e] = RowOutcome(row)]
        /\ acceptedOf' = [acceptedOf EXCEPT ![e] = RowAccepted(row)]
    <3>1. /\ lease'[p] = held /\ \A q \in Processes : q # p => lease'[q] = lease[q]
          /\ events' = [events EXCEPT ![e] = row]
      BY <1>0, <1>6 DEF ClaimsTypeOK
    <3>2. WorksOn(events, events', lease, lease', p, e, row)
      BY <1>0, <1>3, <3>1 DEF WorksOn, Holds
    <3> QED BY <1>0, <3>2, OneEventMoves
  <2>2. RowAccepted(row) = taken /\ RowOutcome(row) = "open"
    BY <1>3 DEF RowAccepted, RowOutcome
  <2> QED BY <1>3, <1>8, <2>1, <2>2
<1>10. outcomeOf[e] = "open" /\ acceptedOf[e] = taken
  BY <1>7 DEF outcomeOf, acceptedOf
<1>11. outcomeOf' = outcomeOf /\ acceptedOf' = acceptedOf
  BY <1>9, <1>10 DEF outcomeOf, acceptedOf
<1> QED BY <1>9, <1>10, <1>11
        DEF Claims!Acquire, Claims!SetOwner, ownerOf, outcomeOf, acceptedOf

LEMMA ClaimAcquires ==
    ASSUME ClaimsInv, NEW p \in Processes, Claim(p)
    PROVE  \E e \in EventIds : Claims!Acquire(e, p)
<1>1. PICK e \in EventIds, c \in ConnectionIds, t \in 0..now, d \in Leases :
        ClaimEvent(p, e, c, connections[c].revision, t, d)
  BY DEF Claim
<1>2. Claims!Acquire(e, p)
  BY <1>1, ClaimEventAcquires DEF Claim
<1> QED BY <1>2

\* A write by the process the row names.
LEMMA OwnerWrites ==
    ASSUME ClaimsInv, NEW p \in Processes, NEW t, OwnsLease(p, t)
    PROVE  /\ lease[p].event \in EventIds
           /\ Owning(events, lease, p, lease[p].event)
           /\ events[lease[p].event] \in EventRow
           /\ ownerOf[lease[p].event] = p
           /\ ownerOf[lease[p].event] # Nobody
           /\ outcomeOf[lease[p].event] = "open"
<1>1. /\ Holds(p) /\ lease[p] \in LeaseRecord
      /\ events[lease[p].event] \in EventRow
      /\ events[lease[p].event] # NoEvent
  BY OwnedRowType DEF ClaimsInv
<1>2. lease[p].event \in EventIds
  BY <1>1 DEF LeaseRecord
<1>3. Owning(events, lease, p, lease[p].event)
  BY <1>1 DEF Owning, OwnsLease, Holds
<1>4. Owner(lease[p].event) = p /\ p # Nobody
  BY <1>2, <1>3, HolderIsOwner
<1>5. outcomeOf[lease[p].event] = "open"
  BY <1>2 DEF outcomeOf, OwnsLease
<1> QED BY <1>1, <1>2, <1>3, <1>4, <1>5 DEF ownerOf

LEMMA AcceptAccepts ==
    ASSUME ClaimsInv, NEW p \in Processes, NEW e \in EventIds,
           e = lease[p].event, NEW t, AcceptEventFreshness(p, t)
    PROVE  Claims!Accept(e)
<1> DEFINE row == [events[e] EXCEPT !.fresh = TRUE, !.updated_at = t]
<1>1. /\ e \in EventIds /\ events[e] \in EventRow /\ ownerOf[e] # Nobody
      /\ outcomeOf[e] = "open"
      /\ Owning(events, lease, p, e)
  BY OwnerWrites DEF AcceptEventFreshness
<1>2. events' = [events EXCEPT ![e] = row] /\ lease' = lease
  BY DEF AcceptEventFreshness
<1>3. /\ row.state = "claimed" /\ row.token = events[e].token
      /\ row.fresh = TRUE
  BY <1>1 DEF Owning, EventRow
<1>4. row # NoEvent
  BY <1>3 DEF NoEvent
<1>5. ClaimsTypeOK /\ lease' = [lease EXCEPT ![p] = lease[p]]
  BY <1>2 DEF ClaimsInv, ClaimsTypeOK
<1> HIDE DEF row
<1>6. \A q \in Processes : Owning(events', lease', q, e) <=> Owning(events, lease, q, e)
  BY <1>1, <1>2, <1>3, <1>4, <1>5 DEF Owning, ClaimsTypeOK
<1>7. OwnerIn(events', lease', e) = ownerOf[e]
  <2>1. OwnerIn(events', lease', e) = OwnerIn(events, lease, e)
    BY <1>6, SameOwner
  <2> QED BY <1>1, <2>1, OwnerIsOwnerIn DEF ownerOf
<1>8. /\ ownerOf' = [ownerOf EXCEPT ![e] = OwnerIn(events', lease', e)]
      /\ outcomeOf' = [outcomeOf EXCEPT ![e] = RowOutcome(row)]
      /\ acceptedOf' = [acceptedOf EXCEPT ![e] = RowAccepted(row)]
  <2>1. lease[p].event = e
    OBVIOUS
  <2>2. events' = [events EXCEPT ![e] = row]
    BY <1>2
  <2>3. /\ \A q \in Processes : q # p => lease'[q] = lease[q]
        /\ lease'[p].event = e /\ ClaimsTypeOK
    BY <1>2, <1>5, <2>1
  <2>4. WorksOn(events, events', lease, lease', p, e, row)
    BY <2>1, <2>2, <2>3 DEF WorksOn
  <2> QED BY <2>3, <2>4, OneEventMoves
<1>9. ownerOf' = ownerOf
  BY <1>7, <1>8 DEF ownerOf
<1>10. outcomeOf' = outcomeOf
  BY <1>1, <1>3, <1>8 DEF outcomeOf, RowOutcome
<1>11. RowAccepted(row) = TRUE
  BY <1>3, <1>4 DEF RowAccepted
<1>12. acceptedOf' = [acceptedOf EXCEPT ![e] = TRUE]
  BY <1>8, <1>11
<1> QED BY <1>1, <1>9, <1>10, <1>12
        DEF Claims!Accept, ownerOf, outcomeOf, acceptedOf

\* renew_lease changes neither owner nor outcome.
LEMMA RenewStutters ==
    ASSUME ClaimsInv, NEW p \in Processes, NEW t, NEW d, RenewLease(p, t, d)
    PROVE  UNCHANGED <<ownerOf, outcomeOf, acceptedOf>>
<1> DEFINE e == lease[p].event
           row == [events[e] EXCEPT !.available_at = t + d, !.updated_at = t]
           held == [lease[p] EXCEPT !.until = t + d]
<1>0. ClaimsTypeOK /\ Holds(p) /\ lease[p] \in LeaseRecord
  BY HolderTypes DEF ClaimsInv, RenewLease, OwnsLease
<1>1. /\ e \in EventIds /\ events[e] \in EventRow
      /\ outcomeOf[e] = "open" /\ Owning(events, lease, p, e)
  BY OwnerWrites DEF RenewLease
<1>2. events' = [events EXCEPT ![e] = row] /\ lease' = [lease EXCEPT ![p] = held]
  BY DEF RenewLease
<1>3. /\ row.state = "claimed" /\ row.token = events[e].token
      /\ row.fresh = events[e].fresh
  BY <1>1 DEF Owning, EventRow
<1>4. held.event = e /\ held.token = lease[p].token /\ held # NoLease
  <2>1. held.event = e /\ held.token = lease[p].token
    BY <1>0 DEF LeaseRecord
  <2>2. lease[p].token # Nobody
    BY <1>0, ClaimsAssumption DEF LeaseRecord
  <2> QED BY <2>1, <2>2 DEF NoLease
<1>5. row # NoEvent /\ events[e] # NoEvent
  BY <1>1, <1>3 DEF NoEvent, Owning
<1>6. lease[p].event = e
  OBVIOUS
<1> HIDE DEF row, held, e
<1>7. /\ ownerOf' = [ownerOf EXCEPT ![e] = OwnerIn(events', lease', e)]
      /\ outcomeOf' = [outcomeOf EXCEPT ![e] = RowOutcome(row)]
      /\ acceptedOf' = [acceptedOf EXCEPT ![e] = RowAccepted(row)]
  <2>1. /\ \A q \in Processes : q # p => lease'[q] = lease[q]
        /\ lease'[p] = held /\ events' = [events EXCEPT ![e] = row]
    BY <1>0, <1>2 DEF ClaimsTypeOK
  <2>2. WorksOn(events, events', lease, lease', p, e, row)
    BY <1>4, <1>6, <2>1 DEF WorksOn
  <2> QED BY <1>0, <1>1, <2>2, OneEventMoves
<1>8. OwnerIn(events', lease', e) = ownerOf[e]
  <2>1. /\ events'[e] = row /\ lease'[p] = held
        /\ \A q \in Processes : q # p => lease'[q] = lease[q]
    BY <1>0, <1>1, <1>2 DEF ClaimsTypeOK
  <2>2. \A q \in Processes :
          Owning(events', lease', q, e) <=> Owning(events, lease, q, e)
    BY <1>1, <1>3, <1>4, <1>5, <2>1 DEF Owning
  <2>3. {q \in Processes : Owning(events', lease', q, e)} =
        {q \in Processes : Owning(events, lease, q, e)}
    BY <2>2
  <2>4. OwnerIn(events', lease', e) = OwnerIn(events, lease, e)
    BY <2>3 DEF OwnerIn
  <2> QED BY <1>1, <2>4, OwnerIsOwnerIn DEF ownerOf
<1>9. ownerOf' = ownerOf
  BY <1>7, <1>8 DEF ownerOf
<1>10. outcomeOf' = outcomeOf
  BY <1>1, <1>3, <1>7 DEF outcomeOf, RowOutcome
<1>11. acceptedOf' = acceptedOf
  <2>1. acceptedOf[e] = (events[e] # NoEvent /\ events[e].fresh)
    BY <1>1 DEF acceptedOf
  <2>2. acceptedOf[e] = RowAccepted(row)
    BY <1>3, <1>5, <2>1 DEF RowAccepted
  <2> QED BY <1>7, <2>2 DEF acceptedOf
<1> QED BY <1>9, <1>10, <1>11

\* A row that is no claim has no owner.
LEMMA UnclaimedRow ==
    ASSUME NEW rows, NEW leases, NEW e, rows[e].state # "claimed"
    PROVE  OwnerIn(rows, leases, e) = Nobody
<1>1. \A q \in Processes : ~Owning(rows, leases, q, e)
  BY DEF Owning
<1> QED BY <1>1, NoOwner

LEMMA RetryAbandons ==
    ASSUME ClaimsInv, NEW p \in Processes, NEW e \in EventIds,
           e = lease[p].event, NEW t, RetryLater(p, t)
    PROVE  Claims!Abandon(e)
<1> DEFINE row == [events[e] EXCEPT !.state = "retryable", !.token = Nobody,
                       !.available_at = t + RetryDelay, !.updated_at = t]
<1>1. /\ e \in EventIds /\ events[e] \in EventRow
      /\ outcomeOf[e] = "open" /\ Owning(events, lease, p, e)
  BY OwnerWrites DEF RetryLater
<1>2. /\ events' = [events EXCEPT ![e] = row]
      /\ lease' = [lease EXCEPT ![p] = NoLease]
  BY DEF RetryLater
<1>3. row.state = "retryable" /\ row.fresh = events[e].fresh
  BY <1>1 DEF EventRow
<1>4. row # NoEvent /\ events[e] # NoEvent
  BY <1>1, <1>3 DEF NoEvent, Owning
<1> HIDE DEF row
<1>5. /\ ownerOf' = [ownerOf EXCEPT ![e] = Nobody]
      /\ outcomeOf' = [outcomeOf EXCEPT ![e] = RowOutcome(row)]
      /\ acceptedOf' = [acceptedOf EXCEPT ![e] = RowAccepted(row)]
  <2>1. /\ events' = [events EXCEPT ![e] = row] /\ lease'[p] = NoLease
        /\ \A q \in Processes : q # p => lease'[q] = lease[q]
    BY <1>2 DEF ClaimsInv, ClaimsTypeOK
  <2>2. ClaimsTypeOK /\ events'[e] = row
    BY <2>1 DEF ClaimsInv, ClaimsTypeOK
  <2>3. /\ ownerOf' = [ownerOf EXCEPT ![e] = OwnerIn(events', lease', e)]
        /\ outcomeOf' = [outcomeOf EXCEPT ![e] = RowOutcome(row)]
        /\ acceptedOf' = [acceptedOf EXCEPT ![e] = RowAccepted(row)]
    <3>1. WorksOn(events, events', lease, lease', p, e, row)
      BY <2>1 DEF WorksOn
    <3> QED BY <2>2, <3>1, OneEventMoves
  <2>4. OwnerIn(events', lease', e) = Nobody
    BY <1>3, <2>2, UnclaimedRow
  <2> QED BY <2>3, <2>4
<1>6. outcomeOf' = outcomeOf
  BY <1>1, <1>3, <1>5 DEF outcomeOf, RowOutcome
<1>7. acceptedOf' = acceptedOf
  <2>1. acceptedOf[e] = (events[e] # NoEvent /\ events[e].fresh)
    BY <1>1 DEF acceptedOf
  <2>2. acceptedOf[e] = RowAccepted(row)
    BY <1>3, <1>4, <2>1 DEF RowAccepted
  <2> QED BY <1>5, <2>2 DEF acceptedOf
<1> QED BY <1>5, <1>6, <1>7
        DEF Claims!Abandon, Claims!SetOwner, ownerOf, outcomeOf, acceptedOf

LEMMA CompleteDecides ==
    ASSUME ClaimsInv, NEW p \in Processes, NEW e \in EventIds,
           e = lease[p].event, NEW t,
           NEW kind \in {"completed", "rejected", "failed"}, NEW response,
           CompleteEvent(p, kind, response, t)
    PROVE  Claims!Decide(e)
<1> DEFINE row == [events[e] EXCEPT !.state = "terminal", !.token = Nobody,
                       !.available_at = 0, !.kind = kind,
                       !.response = response, !.updated_at = t]
<1>1. /\ e \in EventIds /\ events[e] \in EventRow /\ ownerOf[e] # Nobody
      /\ outcomeOf[e] = "open" /\ Owning(events, lease, p, e)
  BY OwnerWrites DEF CompleteEvent
<1>2. /\ events' = [events EXCEPT ![e] = row]
      /\ lease' = [lease EXCEPT ![p] = NoLease]
  BY DEF CompleteEvent
<1>3. /\ row.state = "terminal" /\ row.kind = kind
      /\ row.fresh = events[e].fresh
  BY <1>1 DEF EventRow
<1>4. row # NoEvent /\ events[e] # NoEvent
  BY <1>1, <1>3 DEF NoEvent, Owning
<1> HIDE DEF row
<1>5. /\ ownerOf' = [ownerOf EXCEPT ![e] = Nobody]
      /\ outcomeOf' = [outcomeOf EXCEPT ![e] = RowOutcome(row)]
      /\ acceptedOf' = [acceptedOf EXCEPT ![e] = RowAccepted(row)]
  <2>1. /\ events' = [events EXCEPT ![e] = row] /\ lease'[p] = NoLease
        /\ \A q \in Processes : q # p => lease'[q] = lease[q]
    BY <1>2 DEF ClaimsInv, ClaimsTypeOK
  <2>2. ClaimsTypeOK /\ events'[e] = row
    BY <2>1 DEF ClaimsInv, ClaimsTypeOK
  <2>3. /\ ownerOf' = [ownerOf EXCEPT ![e] = OwnerIn(events', lease', e)]
        /\ outcomeOf' = [outcomeOf EXCEPT ![e] = RowOutcome(row)]
        /\ acceptedOf' = [acceptedOf EXCEPT ![e] = RowAccepted(row)]
    <3>1. WorksOn(events, events', lease, lease', p, e, row)
      BY <2>1 DEF WorksOn
    <3> QED BY <2>2, <3>1, OneEventMoves
  <2>4. OwnerIn(events', lease', e) = Nobody
    BY <1>3, <2>2, UnclaimedRow
  <2> QED BY <2>3, <2>4
<1>6. outcomeOf' = [outcomeOf EXCEPT ![e] = kind]
  BY <1>3, <1>5 DEF RowOutcome
<1>7. acceptedOf' = acceptedOf
  <2>1. acceptedOf[e] = (events[e] # NoEvent /\ events[e].fresh)
    BY <1>1 DEF acceptedOf
  <2>2. acceptedOf[e] = RowAccepted(row)
    BY <1>3, <1>4, <2>1 DEF RowAccepted
  <2> QED BY <1>5, <2>2 DEF acceptedOf
<1> QED BY <1>1, <1>5, <1>6, <1>7
        DEF Claims!Decide, Claims!SetOwner, ownerOf, outcomeOf, acceptedOf

\* A lease that goes out of scope abandons the event, unless another process
\* has claimed it since.
LEMMA DropAbandons ==
    ASSUME ClaimsInv, NEW p \in Processes, DropLease(p)
    PROVE  \/ \E e \in EventIds : Claims!Abandon(e)
           \/ UNCHANGED <<ownerOf, outcomeOf, acceptedOf>>
<1>1. /\ Holds(p) /\ events' = events /\ lease' = [lease EXCEPT ![p] = NoLease]
      /\ ClaimsTypeOK
  BY DEF DropLease, ClaimsInv
<1>2. PICK e \in EventIds : e = lease[p].event
  BY <1>1, HolderTypes
<1>3. outcomeOf' = outcomeOf /\ acceptedOf' = acceptedOf
  BY <1>1 DEF outcomeOf, acceptedOf
<1>4. /\ lease'[p] = NoLease
      /\ \A q \in Processes : q # p => lease'[q] = lease[q]
  BY <1>1 DEF ClaimsTypeOK
<1>5. ASSUME NEW f \in EventIds, ~Owning(events, lease, p, f)
      PROVE  Owner(f)' = Owner(f)
  <2>1. \A q \in Processes :
          Owning(events', lease', q, f) <=> Owning(events, lease, q, f)
    BY <1>1, <1>4, <1>5 DEF Owning
  <2>2. {q \in Processes : Owning(events', lease', q, f)} =
        {q \in Processes : Owning(events, lease, q, f)}
    BY <2>1
  <2>3. OwnerIn(events', lease', f) = OwnerIn(events, lease, f)
    BY <2>2 DEF OwnerIn
  <2> QED BY <2>3, OwnerIsOwnerIn
<1>6. CASE Owning(events, lease, p, e)
  <2>1. \A q \in Processes : Owning(events, lease, q, e) => q = p
    BY <1>6 DEF ClaimsInv, TokensDistinct, Owning, Holds
  <2>2. \A q \in Processes : ~Owning(events', lease', q, e)
    BY <1>1, <1>4, <2>1 DEF Owning
  <2>3. Owner(e)' = Nobody
    <3>1. OwnerIn(events', lease', e) = Nobody
      BY <2>2, NoOwner
    <3> QED BY <3>1, OwnerIsOwnerIn
  <2>4. \A f \in EventIds : f # e => Owner(f)' = Owner(f)
    <3>1. \A f \in EventIds : f # e => ~Owning(events, lease, p, f)
      BY <1>2 DEF Owning
    <3> QED BY <1>5, <3>1
  <2>5. ownerOf' = [ownerOf EXCEPT ![e] = Nobody]
    BY <2>3, <2>4 DEF ownerOf
  <2>6. Claims!Abandon(e)
    BY <1>3, <2>5
    DEF Claims!Abandon, Claims!SetOwner, ownerOf, outcomeOf, acceptedOf
  <2> QED BY <2>6
<1>7. CASE ~Owning(events, lease, p, e)
  <2>1. \A f \in EventIds : ~Owning(events, lease, p, f)
    BY <1>2, <1>7 DEF Owning
  <2>2. \A f \in EventIds : Owner(f)' = Owner(f)
    BY <1>5, <2>1
  <2>3. ownerOf' = ownerOf
    BY <2>2 DEF ownerOf
  <2> QED BY <1>3, <2>3
<1> QED BY <1>6, <1>7

LEMMA PruneForgets ==
    ASSUME ClaimsInv, NEW e \in EventIds, events[e].state = "terminal",
           events' = [events EXCEPT ![e] = NoEvent], lease' = lease
    PROVE  Claims!Forget(e)
<1>1. /\ events[e].state = "terminal" /\ events' = [events EXCEPT ![e] = NoEvent]
      /\ lease' = lease /\ ClaimsTypeOK
  BY DEF ClaimsInv
<1>2. events[e] \in EventRow
  BY <1>1 DEF ClaimsTypeOK, NoEvent
<1>3. \A f \in EventIds : events'[f] = IF f = e THEN NoEvent ELSE events[f]
  BY <1>1 DEF ClaimsTypeOK
<1>4. outcomeOf[e] # "open"
  BY <1>1, <1>2 DEF outcomeOf, EventRow
<1>5. outcomeOf' = [outcomeOf EXCEPT ![e] = "open"]
  <2>1. outcomeOf' = [f \in EventIds |-> IF f = e THEN "open" ELSE outcomeOf[f]]
    BY <1>3 DEF outcomeOf, NoEvent
  <2> QED BY <2>1 DEF outcomeOf
<1>6. acceptedOf' = [acceptedOf EXCEPT ![e] = FALSE]
  <2>1. acceptedOf' = [f \in EventIds |-> IF f = e THEN FALSE ELSE acceptedOf[f]]
    BY <1>3 DEF acceptedOf
  <2> QED BY <2>1 DEF acceptedOf
<1>7. ASSUME NEW f \in EventIds PROVE Owner(f)' = Owner(f)
  <2>1. \A q \in Processes :
          Owning(events', lease', q, f) <=> Owning(events, lease, q, f)
    BY <1>1, <1>3 DEF Owning
  <2>2. {q \in Processes : Owning(events', lease', q, f)} =
        {q \in Processes : Owning(events, lease, q, f)}
    BY <2>1
  <2>3. OwnerIn(events', lease', f) = OwnerIn(events, lease, f)
    BY <2>2 DEF OwnerIn
  <2> QED BY <2>3, OwnerIsOwnerIn
<1>8. ownerOf' = ownerOf
  BY <1>7 DEF ownerOf
<1> QED BY <1>4, <1>5, <1>6, <1>8
        DEF Claims!Forget, ownerOf, outcomeOf, acceptedOf

\* A step of the table is a step of EventLifecycle or leaves it as it is.
LEMMA EventLifecycleStep ==
    ASSUME ClaimsInv, [ClaimsNext]_claimsSpecVars
    PROVE  [Claims!Next]_<<ownerOf, outcomeOf, acceptedOf>>
<1>1. ASSUME NEW p \in Processes, ProcessStep(p)
      PROVE  Claims!Next \/ UNCHANGED <<ownerOf, outcomeOf, acceptedOf>>
  <2>1. Holds(p) => \E e \in EventIds : e = lease[p].event
    BY HolderTypes DEF ClaimsInv
  <2>2. CASE Claim(p)
    BY <2>2, ClaimAcquires DEF Claims!Next
  <2>3. CASE Accept(p)
    <3>1. PICK t \in 0..now : AcceptEventFreshness(p, t)
      BY <2>3 DEF Accept
    <3>2. PICK e \in EventIds : e = lease[p].event
      BY <2>1, <3>1 DEF AcceptEventFreshness, OwnsLease
    <3>3. Claims!Accept(e)
      BY <3>1, <3>2, AcceptAccepts
    <3> QED BY <3>3 DEF Claims!Next
  <2>4. CASE Renew(p)
    BY <2>4, RenewStutters DEF Renew
  <2>5. CASE Retry(p)
    <3>1. PICK t \in 0..now : RetryLater(p, t)
      BY <2>5 DEF Retry
    <3>2. PICK e \in EventIds : e = lease[p].event
      BY <2>1, <3>1 DEF RetryLater, OwnsLease
    <3>3. Claims!Abandon(e)
      BY <3>1, <3>2, RetryAbandons
    <3> QED BY <3>3 DEF Claims!Next
  <2>6. CASE Finish(p)
    <3>1. PICK t \in 0..now, kind \in {"completed", "rejected", "failed"},
               response \in Responses \cup {"none"} :
            CompleteEvent(p, kind, response, t)
      BY <2>6 DEF Finish, CompleteEventForActiveConnection
    <3>2. PICK e \in EventIds : e = lease[p].event
      BY <2>1, <3>1 DEF CompleteEvent, OwnsLease
    <3>3. Claims!Decide(e)
      BY <3>1, <3>2, CompleteDecides
    <3> QED BY <3>3 DEF Claims!Next
  <2>7. CASE DropLease(p)
    BY <2>7, DropAbandons DEF Claims!Next
  <2> QED BY <1>1, <2>2, <2>3, <2>4, <2>5, <2>6, <2>7 DEF ProcessStep
<1>2. ASSUME Prune PROVE Claims!Next
  BY <1>2, PruneForgets DEF Prune, PruneTerminal, Claims!Next
<1>3. ASSUME UNCHANGED <<events, lease>>
      PROVE  UNCHANGED <<ownerOf, outcomeOf, acceptedOf>>
  <2>1. \A e \in EventIds : Owner(e)' = Owner(e)
    BY <1>3, OwnerIsOwnerIn
  <2> QED BY <1>3, <2>1 DEF ownerOf, outcomeOf, acceptedOf
<1>4. Tick \/ UNCHANGED claimVars \/ UNCHANGED claimsSpecVars
        => UNCHANGED <<events, lease>>
  BY DEF Tick, claimVars, claimsSpecVars
<1> QED BY <1>1, <1>2, <1>3, <1>4 DEF ClaimsNext

(***************************************************************************)
(* The event table implements EventLifecycle: an event has one owner at a  *)
(* time, only the process whose token the row carries decides its outcome, *)
(* and a decided outcome stays until it is pruned, whatever expires,       *)
(* crashes or reads a stale clock in between.                              *)
(***************************************************************************)
THEOREM TableImplementsEventLifecycle == ClaimsSpec => ImplementsEventLifecycle
<1>1. ClaimsInit => ClaimsInv
  BY ClaimsTypeInit DEF ClaimsInit, ClaimsInv, LeaseMatchesRow, TokensDistinct, Holds
<1>2. ClaimsInv /\ [ClaimsNext]_claimsSpecVars => ClaimsInv'
  BY ClaimsInvStep
<1>3. ClaimsInit => Claims!Init
  <2> SUFFICES ASSUME ClaimsInit PROVE Claims!Init
    OBVIOUS
  <2>1. ASSUME NEW e \in EventIds PROVE Owner(e) = Nobody
    <3>1. \A p \in Processes : ~Owning(events, lease, p, e)
      BY DEF ClaimsInit, Owning
    <3>2. OwnerIn(events, lease, e) = Nobody
      BY <3>1, NoOwner
    <3> QED BY <3>2, OwnerIsOwnerIn
  <2>2. \A e \in EventIds : events[e] = NoEvent /\ events[e].state # "terminal"
    BY DEF ClaimsInit, NoEvent
  <2> QED BY <2>1, <2>2 DEF Claims!Init
<1>4. ClaimsInv /\ [ClaimsNext]_claimsSpecVars
        => [Claims!Next]_Claims!lifecycleVars
  BY EventLifecycleStep DEF Claims!lifecycleVars, ownerOf, outcomeOf, acceptedOf
<1> QED BY <1>1, <1>2, <1>3, <1>4, PTL
        DEF ClaimsSpec, claimsSpecVars, ImplementsEventLifecycle, Claims!Spec
=============================================================================
