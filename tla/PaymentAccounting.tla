-------------------------- MODULE PaymentAccounting --------------------------
(***************************************************************************)
(* payment_attempts and budget_periods: the durable debits that make       *)
(* retries of a payment idempotent and keep a connection inside its        *)
(* budget.  Every operation is one IMMEDIATE transaction, hence one step.  *)
(*                                                                         *)
(* Callers are not trusted here: any operation may be called at any moment *)
(* with any hash, and the wall-clock value `t' each call brings is not     *)
(* monotone (the system clock can be set back), which is what the          *)
(* validate_update_time guard is about.  WakeEngine composes the same      *)
(* operators with the real callers.                                        *)
(***************************************************************************)
EXTENDS ConnectionRegistry, Functions

CONSTANTS
    Hashes,         \* Lightning payment hashes
    Principals,     \* principal_sat values a quote may report
    SettledMsat,    \* principal values, in msat, a settlement may report
    FeeMsat         \* routing-fee values, in msat, a settlement may report

ASSUME AccountingAssumption ==
    /\ IsFiniteSet(EventIds)
    /\ Principals \subseteq Nat
    /\ SettledMsat \subseteq Nat
    /\ FeeMsat \subseteq Nat

VARIABLE attempts   \* [EventIds -> payment_attempts row or NoAttempt]

accountingVars == <<connections, outbox, used, attempts>>

NoAttempt == [state |-> "none"]

(***************************************************************************)
(* A row.  `initiated' stands for initiated_at IS NOT NULL, `legacy' for   *)
(* legacy_initiation_ambiguous; the actual_* and charged columns are NULL  *)
(* (here 0) until the payment succeeds.                                    *)
(***************************************************************************)
AttemptRow ==
    [hash: Hashes, conn: ConnectionIds, revision: Nat, period: Time,
     principal: Nat, fee_reserve: Nat,
     state: {"reserved", "pending", "succeeded", "failed"},
     initiated: BOOLEAN, legacy: BOOLEAN,
     actual_principal: Nat, actual_fee: Nat, charged: Nat,
     exceeded: BOOLEAN, updated_at: Time]

Exists(e) == attempts[e].state # "none"

Unresolved(e) == attempts[e].state \in {"reserved", "pending"}

Reserved(row) == row.principal + row.fee_reserve

\* What a row holds against its budget period.
Contribution(row) ==
    IF row.state \in {"reserved", "pending"} THEN Reserved(row)
    ELSE IF row.state = "succeeded" THEN row.charged ELSE 0

\* The rows found by payment_hash; UNIQUE(payment_hash) leaves at most one.
TrackedBy(h) == {e \in EventIds : Exists(e) /\ attempts[e].hash = h}

\* A settlement may be attributed to the request and its preimage disclosed.
MayDiscloseSettlement(row) ==
    row.initiated /\ ~row.legacy /\ row.state # "reserved"

MsatToSatCeil(amount) == (amount + 999) \div 1000

(***************************************************************************)
(* The ways reserve_payment ends, tested in the code's order.  Only        *)
(* "reserved" changes the ledger.                                          *)
(***************************************************************************)
BudgetLoads(c, r, t) == RevisionActive(c, r) /\ ~Expired(c, t) /\ MayPay[c]

SameReservation(e, h, c, r, principal) ==
    /\ attempts[e].hash = h /\ attempts[e].conn = c
    /\ attempts[e].revision = r /\ attempts[e].principal = principal

\* Mutant: the maximum fee is left out of the test.
FitsWithoutFee(c, principal, t) ==
    used[c][PeriodStart(c, connections[c].created_at, t)]
        + principal <= Limit[c]

\* Mutant: the use of the period is not tested.
FitsUntested(c, principal, t) == principal + MaximumFee[c] <= Limit[c]

FitsBudget(c, principal, t) ==
    used[c][PeriodStart(c, connections[c].created_at, t)]
        + principal + MaximumFee[c] <= Limit[c]

ReserveOutcome(e, h, c, r, principal, t) ==
    CASE principal = 0 -> "invalid_amount"
      [] ~BudgetLoads(c, r, t) -> "connection_unavailable"
      [] t < connections[c].created_at -> "out_of_range"
      [] Exists(e) /\ SameReservation(e, h, c, r, principal) -> "existing"
      [] Exists(e) -> "conflict"
      [] TrackedBy(h) # {} -> "already_tracked"
      [] ~FitsBudget(c, principal, t) -> "budget_exceeded"
      [] OTHER -> "reserved"

\* Mutant: the payment hash is not looked up.
ReserveSameHash(e, h, c, r, principal, t) ==
    LET period == PeriodStart(c, connections[c].created_at, t)
    IN  /\ principal > 0
        /\ BudgetLoads(c, r, t)
        /\ t >= connections[c].created_at
        /\ ~Exists(e)
        /\ FitsBudget(c, principal, t)
        /\ used' = [used EXCEPT ![c][period] = @ + principal + MaximumFee[c]]
        /\ attempts' = [attempts EXCEPT ![e] =
               [hash |-> h, conn |-> c, revision |-> r, period |-> period,
                principal |-> principal, fee_reserve |-> MaximumFee[c],
                state |-> "reserved", initiated |-> FALSE, legacy |-> FALSE,
                actual_principal |-> 0, actual_fee |-> 0, charged |-> 0,
                exceeded |-> FALSE, updated_at |-> t]]
        /\ UNCHANGED <<connections, outbox>>

ReservePayment(e, h, c, r, principal, t) ==
    LET period == PeriodStart(c, connections[c].created_at, t)
    IN  /\ principal > 0
        /\ BudgetLoads(c, r, t)
        /\ t >= connections[c].created_at
        /\ ~Exists(e) /\ TrackedBy(h) = {}
        /\ FitsBudget(c, principal, t)
        /\ used' = [used EXCEPT ![c][period] = @ + principal + MaximumFee[c]]
        /\ attempts' = [attempts EXCEPT ![e] =
               [hash |-> h, conn |-> c, revision |-> r, period |-> period,
                principal |-> principal, fee_reserve |-> MaximumFee[c],
                state |-> "reserved", initiated |-> FALSE, legacy |-> FALSE,
                actual_principal |-> 0, actual_fee |-> 0, charged |-> 0,
                exceeded |-> FALSE, updated_at |-> t]]
        /\ UNCHANGED <<connections, outbox>>

\* Mutant: the new contribution is added, the old one not given back.
AdjustAddsOnly(row, old, new) ==
    /\ used[row.conn][row.period] >= old
    /\ used' = [used EXCEPT ![row.conn][row.period] = @ + new]

\* Mutant: the unchecked difference itself is stored.
AdjustUnchecked(row, old, new) ==
    used' = [used EXCEPT ![row.conn][row.period] = new - old]

\* adjust_period_used: checked subtraction, then addition.
AdjustPeriodUsed(row, old, new) ==
    /\ used[row.conn][row.period] >= old
    /\ used' = [used EXCEPT ![row.conn][row.period] = (@ - old) + new]

(***************************************************************************)
(* The transitions of a stored row.  `e' is the event of the row found by  *)
(* its payment hash.  Each XOk is the condition under which the call       *)
(* returns Ok; otherwise it returns an error and changes nothing.          *)
(***************************************************************************)
InitiatedOk(e, t) ==
    /\ Exists(e) /\ t >= attempts[e].updated_at
    /\ attempts[e].initiated \/ attempts[e].state = "reserved"

MarkPaymentInitiated(e, t) ==
    /\ InitiatedOk(e, t)
    /\ attempts' =
           IF attempts[e].initiated THEN attempts
           ELSE [attempts EXCEPT ![e] =
                    [@ EXCEPT !.initiated = TRUE, !.updated_at = t]]
    /\ UNCHANGED registryVars

\* Mutant: an initiated reservation may be released.
ReleaseInitiatedOk(e, t) ==
    Exists(e) /\ t >= attempts[e].updated_at /\ attempts[e].state = "reserved"

ReleaseOk(e, t) ==
    /\ Exists(e) /\ t >= attempts[e].updated_at
    /\ attempts[e].state = "reserved" /\ ~attempts[e].initiated

ReleaseUninitiatedPayment(e, t) ==
    /\ ReleaseOk(e, t)
    /\ AdjustPeriodUsed(attempts[e], Reserved(attempts[e]), 0)
    /\ attempts' = [attempts EXCEPT ![e] = NoAttempt]
    /\ UNCHANGED <<connections, outbox>>

PendingOk(e, t) ==
    /\ Unresolved(e) /\ t >= attempts[e].updated_at /\ attempts[e].initiated

MarkPaymentPending(e, t) ==
    /\ PendingOk(e, t)
    /\ attempts' =
           IF attempts[e].state = "pending" THEN attempts
           ELSE [attempts EXCEPT ![e] =
                    [@ EXCEPT !.state = "pending", !.updated_at = t]]
    /\ UNCHANGED registryVars

FailedOk(e, t) ==
    /\ Exists(e) /\ t >= attempts[e].updated_at
    /\ attempts[e].initiated /\ attempts[e].state # "succeeded"

MarkPaymentFailed(e, t) ==
    /\ FailedOk(e, t)
    /\ \/ attempts[e].state = "failed" /\ UNCHANGED <<used, attempts>>
       \/ /\ Unresolved(e)
          /\ AdjustPeriodUsed(attempts[e], Reserved(attempts[e]), 0)
          /\ attempts' = [attempts EXCEPT ![e] =
                 [@ EXCEPT !.state = "failed", !.updated_at = t]]
    /\ UNCHANGED <<connections, outbox>>

SucceededOk(e, principal, fee, t) ==
    /\ Exists(e) /\ t >= attempts[e].updated_at /\ attempts[e].initiated
    /\ attempts[e].state = "succeeded" =>
           /\ attempts[e].actual_principal = MsatToSatCeil(principal)
           /\ attempts[e].actual_fee = MsatToSatCeil(fee)

Charged(c, principal, fee) ==
    MsatToSatCeil(principal) + (IF CountFees[c] THEN MsatToSatCeil(fee) ELSE 0)

MarkPaymentSucceeded(e, principal, fee, t) ==
    LET row == attempts[e]
        old == IF Unresolved(e) THEN Reserved(row) ELSE 0
        charged == Charged(row.conn, principal, fee)
    IN  /\ SucceededOk(e, principal, fee, t)
        /\ \/ row.state = "succeeded" /\ UNCHANGED <<used, attempts>>
           \/ /\ row.state # "succeeded"
              /\ AdjustPeriodUsed(row, old, charged)
              /\ attempts' = [attempts EXCEPT ![e] = [@ EXCEPT
                     !.state = "succeeded",
                     !.actual_principal = MsatToSatCeil(principal),
                     !.actual_fee = MsatToSatCeil(fee),
                     !.charged = charged,
                     !.exceeded =
                         \/ MsatToSatCeil(principal) > row.principal
                         \/ CountFees[row.conn]
                            /\ MsatToSatCeil(fee) > row.fee_reserve,
                     !.updated_at = t]]
        /\ UNCHANGED <<connections, outbox>>

-----------------------------------------------------------------------------
AccountingInit ==
    /\ RegistryInit
    /\ attempts = [e \in EventIds |-> NoAttempt]

ConnectionStep ==
    /\ UNCHANGED attempts
    /\ \E c \in ConnectionIds, t \in Time :
        \/ InsertConnection(c, t)
        \/ \E created \in Time, amount \in Principals :
               ImportConnection(c, created, amount, t)
        \/ TombstoneConnection(c, connections[c].revision, t)

Reserve ==
    \E e \in EventIds, h \in Hashes, c \in ConnectionIds,
       principal \in Principals, t \in Time :
        ReservePayment(e, h, c, connections[c].revision, principal, t)

Initiate == \E e \in EventIds, t \in Time : MarkPaymentInitiated(e, t)

Release == \E e \in EventIds, t \in Time : ReleaseUninitiatedPayment(e, t)

MarkPending == \E e \in EventIds, t \in Time : MarkPaymentPending(e, t)

MarkFailed == \E e \in EventIds, t \in Time : MarkPaymentFailed(e, t)

MarkSucceeded ==
    \E e \in EventIds, principal \in SettledMsat, fee \in FeeMsat, t \in Time :
        MarkPaymentSucceeded(e, principal, fee, t)

AccountingNext ==
    \/ ConnectionStep \/ Reserve \/ Initiate \/ Release
    \/ MarkPending \/ MarkFailed \/ MarkSucceeded

AccountingSpec == AccountingInit /\ [][AccountingNext]_accountingVars

-----------------------------------------------------------------------------
(***************************************************************************)
(* Type correctness of the accounting tables.                              *)
(***************************************************************************)
AccountingTypeOK ==
    /\ RegistryTypeOK
    /\ attempts \in [EventIds -> AttemptRow \cup {NoAttempt}]

(***************************************************************************)
(* used_sat of every budget period is exactly what was imported into it    *)
(* plus what its attempts hold or were charged, through every refund,      *)
(* late settlement, release and repeated call.  In particular the checked  *)
(* subtraction of adjust_period_used never fails.                          *)
(***************************************************************************)
Debits(c, t) ==
    [e \in EventIds |->
        IF Exists(e) /\ attempts[e].conn = c /\ attempts[e].period = t
        THEN Contribution(attempts[e]) ELSE 0]

Imported(c, t) ==
    IF connections[c].imported_in = t THEN connections[c].imported ELSE 0

BudgetIsSumOfDebits ==
    \A c \in ConnectionIds, t \in Time :
        used[c][t] = Imported(c, t) + SumFunctionOnSet(Debits(c, t), EventIds)

(***************************************************************************)
(* A payment hash is tracked by at most one event, whatever order events   *)
(* reserve, release and reserve again in: an invoice two requests ask to   *)
(* pay has one debit.                                                      *)
(***************************************************************************)
OneAttemptPerHash ==
    \A e, f \in EventIds :
        Exists(e) /\ Exists(f) /\ attempts[e].hash = attempts[f].hash => e = f

(***************************************************************************)
(* A step takes a period over its limit only by recording a settlement the *)
(* reservation did not cover: one the wallet reports above the reserve     *)
(* (authorization_exceeded) or one that arrives after the refund of a      *)
(* failure.  No reservation, and no sequence of refunds and retries, does. *)
(***************************************************************************)
Uncovered(e) ==
    /\ Exists(e) /\ attempts[e].state # "succeeded"
    /\ attempts'[e].state = "succeeded"
    /\ attempts'[e].exceeded \/ attempts[e].state = "failed"

CoveredStep ==
    \A c \in ConnectionIds, t \in Time :
        used'[c][t] > Limit[c] /\ used'[c][t] > used[c][t] =>
            \E e \in EventIds :
                /\ Uncovered(e)
                /\ attempts[e].conn = c /\ attempts[e].period = t

LimitExceededOnlyBySettlement == [][CoveredStep]_accountingVars

(***************************************************************************)
(* The ledger implements PaymentLifecycle, one payment per request event:  *)
(* no debit appears, moves or disappears outside its life cycle.           *)
(***************************************************************************)
Phase(row) ==
    IF row.state = "none" THEN "free"
    ELSE IF row.state = "succeeded" THEN "settled"
    ELSE IF row.state = "failed" THEN "refunded"
    ELSE IF row.initiated THEN "committed" ELSE "held"

Lifecycle == INSTANCE PaymentLifecycle WITH
    Payments <- EventIds,
    phase <- [e \in EventIds |-> Phase(attempts[e])],
    hold <- [e \in EventIds |-> Contribution(attempts[e])]

ImplementsLifecycle == Lifecycle!Spec
=============================================================================
