----------------------- MODULE MCInvoiceNotifications -----------------------
(***************************************************************************)
(* Small instances of InvoiceNotifications.                                *)
(***************************************************************************)
EXTENDS InvoiceNotifications

MCKeyPair == [c \in ConnectionIds |-> c]
MCZero == [c \in ConnectionIds |-> 0]
MCFalse == [c \in ConnectionIds |-> FALSE]
MCConnectionOf == [e \in InvoiceRequests \cup PaymentRequests |->
                      CHOOSE c \in ConnectionIds : TRUE]

CONSTANTS p1, p2, w1, w2

MCCast(r, p, w, until, f) ==
    [requests |-> r, engines |-> p, workers |-> w, until |-> until, faults |-> f]

\* One invoice: passes side by side, executions side by side, and the clock
\* past the grace period.  Two invoices and two payments share batches of one.
\* One payment: passes side by side with the steps of its execution.
MCTwoWorkers == MCCast({1}, {p1}, {w1, w2}, 0, 1)
MCTwoEngines == MCCast({1}, {p1, p2}, {w1}, 1, 1)
MCTwoCrashes == MCCast({1}, {p1, p2}, {w1}, 0, 2)
MCExpiry == MCCast({1}, {p1}, {w1}, 3, 1)
MCTwoInvoices == MCCast({1, 2}, {p1}, {w1}, 0, 1)
MCTwoPayments == MCCast({3, 4}, {p1}, {w1}, 0, 1)
MCMixed == MCCast({1, 3}, {p1}, {w1}, 0, 1)
MCTwoReports == MCCast({3}, {p1}, {w1, w2}, 0, 1)

MCCasts == {MCTwoWorkers, MCTwoEngines, MCTwoCrashes, MCExpiry,
            MCTwoInvoices, MCTwoPayments, MCMixed, MCTwoReports}
=============================================================================
