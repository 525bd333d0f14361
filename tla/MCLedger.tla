------------------------------ MODULE MCLedger ------------------------------
(***************************************************************************)
(* Small instances of the SQLite ledger: in one behaviour only the payment *)
(* tables are used (a renewing budget whose fees count), in another only   *)
(* the event table; WakeEngine uses them together.                         *)
(***************************************************************************)
EXTENDS PaymentAccounting, EventClaims, TLC

CONSTANTS LimitValue, FeeValue, IntervalValue

VARIABLE tables      \* the tables this behaviour uses

MCKeyPair == [c \in ConnectionIds |-> "keys"]
MCLimit == [c \in ConnectionIds |-> LimitValue]
MCMaximumFee == [c \in ConnectionIds |-> FeeValue]
MCCountFees == [c \in ConnectionIds |-> FeeValue > 0]
MCInterval == [c \in ConnectionIds |-> IntervalValue]
MCExpiresAt == [c \in ConnectionIds |-> 0]
MCMayPay == [c \in ConnectionIds |-> TRUE]

LedgerInit ==
    /\ AccountingInit /\ ClaimsInit
    /\ tables \in {"payments", "events"}

LedgerNext ==
    /\ \/ tables = "payments" /\ AccountingNext /\ UNCHANGED claimVars
       \/ tables = "events" /\ ClaimsNext /\ UNCHANGED attempts
    /\ UNCHANGED tables

LedgerSpec == LedgerInit /\ [][LedgerNext]_<<accountingVars, claimVars, tables>>

MCSymmetry ==
    Permutations(EventIds) \cup Permutations(Hashes)
        \cup Permutations(Processes) \cup Permutations(Tokens)
=============================================================================
