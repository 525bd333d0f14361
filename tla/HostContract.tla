---------------------------- MODULE HostContract ----------------------------
(***************************************************************************)
(* What crosses between the engine and the host application: requests the  *)
(* engine parses and hands out, bounded calls of native code, and answers  *)
(* the bridge decodes.  Everything here is a function of its inputs.       *)
(*                                                                         *)
(* A text field is represented by what the code looks at: its length, or   *)
(* whether it decodes.  Option values are sets with at most one element.   *)
(***************************************************************************)
EXTENDS Integers, FiniteSets

HostErrorKind == {"Unavailable", "TimedOut", "Cancelled", "Rejected",
                  "NotFound", "AlreadyInProgress", "Internal"}

IsRetryable(kind) == kind \in {"Unavailable", "TimedOut", "AlreadyInProgress"}

ConfirmsPaymentWasNotSubmitted(kind) == kind \in {"Rejected", "NotFound"}

Ok(value) == [ok |-> TRUE, value |-> value]
Err(kind) == [ok |-> FALSE, kind |-> kind]

-----------------------------------------------------------------------------
(* Bounded calls.  A call takes `took' once it runs; `cancelled' says that *)
(* its signal was set before its answer was taken.                         *)

\* Cancellation wins, also over an answer that is ready.
RunWithContext(timeout, call) ==
    IF call.cancelled THEN Err("Cancelled")
    ELSE IF call.took > timeout THEN Err("TimedOut") ELSE call.answer

\* The operation waits `delay' for the native runtime, out of its budget.
\* A task that cannot be spawned or that panics is Internal.
RunOwnedWithContext(timeout, call) ==
    IF call.failed THEN Err("Internal")
    ELSE IF call.delay >= timeout THEN Err("TimedOut")
    ELSE RunWithContext(timeout - call.delay, call)

\* The window is over, or the signal is set by the time the wake ends.
RunBoundedBackgroundWake(total, wake) ==
    IF total = 0 \/ wake.cancelled \/ wake.took > total
    THEN "queued_for_application" ELSE wake.disposition

-----------------------------------------------------------------------------
(* MobileHostBridge: what the core is told for a native answer.            *)

MaxInvoiceBytes == 16384
MaxTransactionResults == 100

\* A native error keeps its class; a value that does not decode is Rejected.
Decoded(answer, valid) ==
    IF answer.ok => valid THEN answer ELSE Err("Rejected")

ValidInvoice(length) == length \in 1..MaxInvoiceBytes

BridgeGetInfo(answer) ==
    Decoded(answer, answer.value.public_key \in {"absent", "valid"})

BridgeMakeInvoice(answer) ==
    Decoded(answer, ValidInvoice(answer.value.invoice) /\ answer.value.hash = "valid")

BridgeQuotePayment(invoice, answer) ==
    IF ~ValidInvoice(invoice) THEN Err("Rejected")
    ELSE Decoded(answer, answer.value.hash = "valid")

\* core_payment_status.  A settlement carries its preimage as hexadecimal.
DecodesStatus(native) == native.status = "succeeded" => native.preimage = "valid"

BridgePaymentStatus(answer) == Decoded(answer, DecodesStatus(answer.value))

BridgeStartPayment(answer) == Decoded(answer, DecodesStatus(answer.value))

\* core_transaction.
DecodesTransaction(native) ==
    /\ native.hash \in {"absent", "valid"}
    /\ DecodesStatus(native)

\* The answer is a set: the transaction found, if any.
BridgeLookupInvoice(lookup, answer) ==
    IF lookup.by = "invoice" /\ ~ValidInvoice(lookup.invoice) THEN Err("Rejected")
    ELSE Decoded(answer, \A t \in answer.value : DecodesTransaction(t))

\* The answer is a sequence of transactions of length n.
BridgeListTransactions(limit, n, answer) ==
    Decoded(answer, /\ n <= limit /\ n <= MaxTransactionResults
                    /\ \A i \in 1..n : DecodesTransaction(answer.value[i]))

\* The answer is a set: the length of the event found, if any.
BridgeFetchEvent(maximum, answer) ==
    Decoded(answer, \A length \in answer.value : length <= maximum)

BridgeLoadNwcSecret(answer) ==
    Decoded(answer, answer.value.length = 32 /\ answer.value.on_curve)

BridgeApplyWakeRegistration(answer) == answer

\* RuntimeWallet::payment_status asks for the transaction of the hash.
RuntimePaymentStatus(answer) ==
    IF ~answer.ok THEN answer
    ELSE Ok(IF answer.value = {} THEN "unknown"
            ELSE (CHOOSE t \in answer.value : TRUE).status)

-----------------------------------------------------------------------------
(* What the engine makes of an answer.                                     *)

\* A direct request: answered, handed back for a retry, or refused.
DirectOutcome(answer) ==
    IF answer.ok THEN "result"
    ELSE IF IsRetryable(answer.kind) \/ answer.kind = "Cancelled" THEN "retry"
    ELSE "error"

\* A start: the status given to finish_payment_status, or "pending" stored.
StartOutcome(answer) ==
    IF answer.ok THEN answer.value.status
    ELSE IF ConfirmsPaymentWasNotSubmitted(answer.kind) THEN "failed"
    ELSE "pending"

-----------------------------------------------------------------------------
(* Requests of a client the engine parses before it calls the host.        *)

DefaultListLimit == 20
MaxListLimit == 100

OrElse(option, default) == IF option = {} THEN default ELSE CHOOSE v \in option : TRUE

ParseList(r) ==
    IF /\ \A from \in r.from, until \in r.until : from <= until
       /\ OrElse(r.offset, 0) < 2^32
    THEN LET limit == OrElse(r.limit, DefaultListLimit)
         IN  Ok([from |-> r.from, until |-> r.until, direction |-> r.direction,
                 limit |-> IF limit < MaxListLimit THEN limit ELSE MaxListLimit,
                 offset |-> OrElse(r.offset, 0),
                 include_unpaid |-> OrElse(r.unpaid, FALSE)])
    ELSE Err("Rejected")

-----------------------------------------------------------------------------
(* A page of wallet transactions, given as a sequence.                     *)

TransactionMatches(t, r) ==
    /\ \A from \in r.from : t.created_at >= from
    /\ \A until \in r.until : t.created_at <= until
    /\ \A direction \in r.direction : t.direction = direction
    /\ r.include_unpaid \/ t.status = "succeeded"

\* The sort is stable, newest first.
Matching(ts, n, r) == {i \in 1..n : TransactionMatches(ts[i], r)}

ListedBefore(ts, i, j) ==
    \/ ts[i].created_at > ts[j].created_at
    \/ ts[i].created_at = ts[j].created_at /\ i < j

Rank(ts, n, r, i) == Cardinality({j \in Matching(ts, n, r) : ListedBefore(ts, j, i)})

\* The indexes prepare_transaction_page keeps: skip, then take.
PrepareTransactionPage(ts, n, r) ==
    {i \in Matching(ts, n, r) :
        r.offset <= Rank(ts, n, r, i) /\ Rank(ts, n, r, i) < r.offset + r.limit}
=============================================================================
