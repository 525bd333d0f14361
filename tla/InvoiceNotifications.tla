------------------------ MODULE InvoiceNotifications ------------------------
(***************************************************************************)
(* Invoices made for NWC requests, outgoing NWC payments, and the worker   *)
(* that tells the client when they settle.  The ledger keeps one row per   *)
(* request with one canonical encrypted notification event and, per        *)
(* approved relay, whether the relay has accepted it.                      *)
(*                                                                         *)
(* Every wake ends in a pass of the worker, so passes of several processes *)
(* run at the same time on rows they loaded earlier.  A step of a pass is  *)
(* one ledger transaction or one host call; between two of them another    *)
(* pass, a revocation, the end of the background window or the death of    *)
(* the process may come.                                                   *)
(*                                                                         *)
(* The wallet is external: it makes an invoice when asked, and an invoice  *)
(* a client was given may be paid until it expires.                        *)
(***************************************************************************)
EXTENDS ConnectionRegistry
Relay == INSTANCE RelayClient

CONSTANTS
    InvoiceRequests,    \* ids (naturals) of make_invoice requests
    PaymentRequests,    \* ids of pay_invoice requests
    ConnectionOf,       \* [request -> connection it was authenticated for]
    RelayCount,         \* approved relays of a connection
    Engines,            \* processes that execute requests
    Workers,            \* processes that run notification passes
    BatchSize,          \* DEFAULT_BATCH_SIZE
    Lifetime,           \* expiry of a made invoice
    Grace,              \* SETTLEMENT_RECONCILIATION_GRACE_SECONDS
    Casts,              \* who takes part, how long and with how many failures
    MaxWalletInvoices   \* bound on invoices the wallet makes

Requests == InvoiceRequests \cup PaymentRequests
Relays == 1..RelayCount
WalletInvoices == 1..MaxWalletInvoices

ASSUME NotificationsAssumption ==
    /\ Requests \subseteq Nat
    /\ InvoiceRequests \cap PaymentRequests = {}
    /\ ConnectionOf \in [Requests -> ConnectionIds]
    /\ RelayCount \in Nat \ {0} /\ BatchSize \in Nat \ {0}
    /\ Lifetime \in Nat \ {0} /\ Grace \in Nat \ {0}
    /\ MaxWalletInvoices \in Nat
    /\ {"none", "other"} \cap Workers = {} /\ "nobody" \notin Engines
    /\ Casts \subseteq [requests: SUBSET Requests, engines: SUBSET Engines,
                        workers: SUBSET Workers, until: Time, faults: Nat]

VARIABLES
    cast,               \* who takes part: chosen once, so that one run covers
                        \* several small casts and not their product
    now,                \* wall clock
    created_invoices,   \* [InvoiceRequests -> row or NoRow]
    sent_payments,      \* [PaymentRequests -> row or NoRow]
    engine,             \* [Engines -> local state of a make_invoice execution]
    lease_owner,        \* [InvoiceRequests -> engine that owns the claim]
    answer,             \* [InvoiceRequests -> committed response]
    pass,               \* [Workers -> local state of one worker call]
    made,               \* [WalletInvoices -> expiry, 0 before it is made]
    settled,            \* invoices that were paid
    payer,              \* [Engines -> local state of a pay_invoice execution]
    sending,            \* [PaymentRequests -> how far the payment has come]
    received,           \* [Requests -> [Relays -> events the relay accepted]]
    faults,             \* failures so far
    made_for,           \* history: the request an invoice was made for
    overtaken           \* history: requests the clock has overtaken, see Tick

notificationVars ==
    <<registryVars, cast, now, created_invoices, sent_payments, engine,
      lease_owner, answer, pass, made, settled, payer, sending, received,
      faults, made_for, overtaken>>

Nobody == "nobody"
NoRow == [missing |-> TRUE]
NoEvent == "none"
Unanswered == -1
Failed == 0             \* an error response
NoRequest == -1

InvoiceRow ==
    [hash: WalletInvoices, revision: Nat, created_at: Time, expires_at: Nat,
     last_checked_at: Nat, event: Workers \cup {NoEvent},
     undelivered: SUBSET Relays, completed: BOOLEAN]

\* Connections have the revision 0 while they are active: here only a
\* revocation changes it.
PaymentRow ==
    [revision: {0}, created_at: Time, event: Workers \cup {NoEvent},
     undelivered: SUBSET Relays, completed: BOOLEAN]

-----------------------------------------------------------------------------
(* The ledger.                                                             *)

Pending(table) == {e \in DOMAIN table : table[e] # NoRow /\ ~table[e].completed}

\* The loaded rows, each with its request.
Loaded(table, ids) == {[id |-> e, row |-> table[e]] : e \in ids}

OlderPayment(i, j) ==
    \/ i.row.created_at < j.row.created_at
    \/ i.row.created_at = j.row.created_at /\ i.id < j.id

LessRecentlyChecked(i, j) ==
    \/ i.row.last_checked_at < j.row.last_checked_at
    \/ i.row.last_checked_at = j.row.last_checked_at /\ OlderPayment(i, j)

\* The first BatchSize loaded rows in the order `Before'.
Batch(rows, Before(_, _)) ==
    {i \in rows : Cardinality({j \in rows : Before(j, i)}) < BatchSize}

\* Joined with the connections at the exact revision: a row of a tombstoned
\* connection does not count.
OfWallet(table, keys) ==
    {e \in Pending(table) :
        /\ KeyPair[ConnectionOf[e]] = keys
        /\ connections[ConnectionOf[e]].revision = table[e].revision}

PendingNwcSentPayments ==
    Batch(Loaded(sent_payments, Pending(sent_payments)), OlderPayment)

PendingNwcSentPaymentsForWallet(keys) ==
    Batch(Loaded(sent_payments, OfWallet(sent_payments, keys)), OlderPayment)

PendingNwcInvoices ==
    Batch(Loaded(created_invoices, Pending(created_invoices)),
          LessRecentlyChecked)

PendingNwcInvoicesForWallet(keys) ==
    Batch(Loaded(created_invoices, OfWallet(created_invoices, keys)),
          LessRecentlyChecked)

PendingNwcInvoice(e) ==
    Loaded(created_invoices, {e} \cap Pending(created_invoices))

\* record_nwc_invoice keeps the first row of a request and refuses another
\* invoice for it.
RecordMatches(e, hash) ==
    created_invoices[e] # NoRow => created_invoices[e].hash = hash

RecordNwcInvoice(e, hash, created, expires) ==
    created_invoices' = [created_invoices EXCEPT ![e] =
        IF @ # NoRow THEN @
        ELSE [hash |-> hash, revision |-> 0, created_at |-> created,
              expires_at |-> expires, last_checked_at |-> created,
              event |-> NoEvent, undelivered |-> Relays, completed |-> FALSE]]

\* The row of a request that is recorded again stays as it is.  The unique
\* payment hash is not modelled: here every request pays a hash of its own.
RecordNwcSentPayment(e) ==
    sent_payments' = [sent_payments EXCEPT ![e] =
        IF @ # NoRow THEN @
        ELSE [revision |-> 0, created_at |-> now, event |-> NoEvent,
              undelivered |-> Relays, completed |-> FALSE]]

(***************************************************************************)
(* touch_nwc_invoice.  A check moves the row behind the rows checked less  *)
(* recently, also within one second.  When every pending row is ahead of   *)
(* the clock only the order of the values matters, so they are kept small: *)
(* the smallest one stays next to the clock.                               *)
(***************************************************************************)
Touched(e, t) ==
    LET last == created_invoices[e].last_checked_at
        next == IF t > last + 1 THEN t ELSE last + 1
    IN  [created_invoices EXCEPT ![e].last_checked_at = next]

\* Mutant: the check is not recorded.
TouchForgets(e, t) == UNCHANGED created_invoices

TouchNwcInvoice(e, t) ==
    LET pending == Pending(created_invoices)
        table == Touched(e, t)
        ahead == \A d \in pending : table[d].last_checked_at > t + 1
    IN  created_invoices' =
            IF e \notin pending THEN created_invoices
            ELSE [d \in InvoiceRequests |->
                     IF d \in pending /\ ahead
                     THEN [table[d] EXCEPT !.last_checked_at = @ - 1]
                     ELSE table[d]]

\* The row with an event, the first one proposed.
WithEvent(row, proposed) ==
    IF row.event = NoEvent THEN [row EXCEPT !.event = proposed] ELSE row

StoreNwcInvoiceNotificationEvent(e, proposed) ==
    created_invoices' = [created_invoices EXCEPT ![e] = WithEvent(@, proposed)]

StoreNwcSentNotificationEvent(e, proposed) ==
    sent_payments' = [sent_payments EXCEPT ![e] = WithEvent(@, proposed)]

Undelivered(row) == IF row = NoRow THEN {} ELSE row.undelivered

UndeliveredNwcInvoiceRelays(e) == Undelivered(created_invoices[e])

UndeliveredNwcSentRelays(e) == Undelivered(sent_payments[e])

Acknowledged(row, r) ==
    IF row = NoRow THEN row
    ELSE [row EXCEPT !.undelivered = row.undelivered \ {r}]

AcknowledgeNwcInvoiceRelay(e, r) ==
    created_invoices' = [created_invoices EXCEPT ![e] = Acknowledged(@, r)]

AcknowledgeNwcSentRelay(e, r) ==
    sent_payments' = [sent_payments EXCEPT ![e] = Acknowledged(@, r)]

\* Only when no relay is left.
Completed(row) ==
    IF row # NoRow /\ row.event # NoEvent /\ row.undelivered = {}
    THEN [row EXCEPT !.completed = TRUE] ELSE row

CompleteNwcInvoiceNotification(e) ==
    created_invoices' = [created_invoices EXCEPT ![e] = Completed(@)]

CompleteNwcSentNotification(e) ==
    sent_payments' = [sent_payments EXCEPT ![e] = Completed(@)]

DiscardNwcSentPayment(e) ==
    sent_payments' = [sent_payments EXCEPT ![e] = NoRow]

\* A row whose event another pass has stored meanwhile stays.
ExpireNwcInvoice(e) ==
    created_invoices' = [created_invoices EXCEPT ![e] =
        IF @ # NoRow /\ @.event = NoEvent THEN NoRow ELSE @]

-----------------------------------------------------------------------------
(* make_invoice of WakeEngine::execute_request, between the claim of the   *)
(* event and the commit of its response.  What a claim is, EventClaims     *)
(* says: one owner at a time, and a lost claim cannot commit.              *)

EngineIdle == [pc |-> "idle"]

GotoEngine(p, pc) == engine' = [engine EXCEPT ![p].pc = pc]

ledgerVars == <<created_invoices, sent_payments>>
payVars == <<payer, sending>>
history == <<made_for, overtaken>>
passVars == <<cast, pass, received, settled, payVars>>

\* An invoice made for e is past its expiry and the grace period at time t.
Outlived(e, t) ==
    \E i \in WalletInvoices :
        made[i] # 0 /\ made_for[i] = e /\ t >= made[i] + Grace

\* Claimed for the first time, or after the lease of its owner ran out.
Claim(p, e) ==
    /\ engine[p] = EngineIdle /\ answer[e] = Unanswered
    /\ RevisionActive(ConnectionOf[e], 0)
    /\ lease_owner[e] # p
    /\ lease_owner[e] # Nobody => faults < cast.faults
    /\ faults' = IF lease_owner[e] = Nobody THEN faults ELSE faults + 1
    /\ lease_owner' = [lease_owner EXCEPT ![e] = p]
    /\ engine' = [engine EXCEPT ![p] =
           [pc |-> "load", id |-> e, at |-> now, invoice |-> Failed]]
    /\ overtaken' = IF Outlived(e, now) THEN overtaken \cup {e} ELSE overtaken
    /\ UNCHANGED <<registryVars, now, ledgerVars, answer, passVars, made,
                   made_for>>

\* A replay finds the invoice of the execution before it.
LoadNwcInvoice(p) ==
    /\ engine[p].pc = "load"
    /\ LET row == created_invoices[engine[p].id]
       IN  IF row = NoRow THEN GotoEngine(p, "create")
           ELSE engine' = [engine EXCEPT ![p].pc = "respond",
                                         ![p].invoice = row.hash]
    /\ UNCHANGED <<registryVars, now, ledgerVars, lease_owner, answer,
                   passVars, made, faults, history>>

CreateInvoice(p) ==
    /\ engine[p].pc = "create"
    /\ \E i \in WalletInvoices :
           /\ made[i] = 0 /\ \A j \in 1..(i - 1) : made[j] # 0
           /\ made' = [made EXCEPT ![i] = now + Lifetime]
           /\ made_for' = [made_for EXCEPT ![i] = engine[p].id]
           /\ engine' = [engine EXCEPT ![p].pc = "record", ![p].invoice = i]
    /\ UNCHANGED <<registryVars, now, ledgerVars, lease_owner, answer,
                   passVars, faults, overtaken>>

RecordInvoice(p) ==
    LET e == engine[p].id
        matches == RecordMatches(e, engine[p].invoice)
    IN  /\ engine[p].pc = "record"
        /\ IF matches
           THEN RecordNwcInvoice(e, engine[p].invoice, engine[p].at,
                                 made[engine[p].invoice])
           ELSE UNCHANGED created_invoices
        /\ engine' = [engine EXCEPT ![p].pc = "respond",
               ![p].invoice = IF matches THEN @ ELSE Failed]
        /\ UNCHANGED <<registryVars, now, sent_payments, lease_owner, answer,
                       passVars, made, faults, history>>

Respond(p) ==
    LET e == engine[p].id
        commits == lease_owner[e] = p /\ RevisionActive(ConnectionOf[e], 0)
    IN  /\ engine[p].pc = "respond"
        /\ answer' = IF commits THEN [answer EXCEPT ![e] = engine[p].invoice]
                     ELSE answer
        /\ lease_owner' = IF commits THEN [lease_owner EXCEPT ![e] = Nobody]
                          ELSE lease_owner
        /\ engine' = [engine EXCEPT ![p] = EngineIdle]
        /\ UNCHANGED <<registryVars, now, ledgerVars, passVars, made, faults,
                       history>>

EngineDies(p) ==
    /\ engine[p] # EngineIdle /\ faults < cast.faults
    /\ faults' = faults + 1
    /\ engine' = [engine EXCEPT ![p] = EngineIdle]
    /\ UNCHANGED <<registryVars, now, ledgerVars, lease_owner, answer,
                   passVars, made, history>>

-----------------------------------------------------------------------------
(***************************************************************************)
(* pay_invoice of WakeEngine::execute_request from the wallet call on.     *)
(* The wallet's answer, the settlement in the ledger, the record of the    *)
(* notification and the response are a step each, so an execution may end  *)
(* between any two of them; a replay goes through all of them again.  What *)
(* precedes the wallet call, and failed payments, WakeEngine models: they  *)
(* notify nobody.                                                          *)
(***************************************************************************)
PayerIdle == [pc |-> "idle"]

Payments == [pc: {"pay", "record", "respond"}, id: PaymentRequests]

Progress == {"new", "initiated", "succeeded", "answered"}

Paying(p, e) == payer[p] # PayerIdle /\ payer[p].id = e

\* What no step of a payment changes.
otherVars == <<registryVars, cast, now, created_invoices, engine, lease_owner,
               answer, pass, received, settled, made, history>>

\* The first execution of the request or a replay of one whose response was
\* not committed.  Beside another execution only after its lease ran out.
StartPayment(p, e) ==
    LET beside == \E q \in Engines : Paying(q, e)
    IN  /\ payer[p] = PayerIdle /\ sending[e] # "answered"
        /\ RevisionActive(ConnectionOf[e], 0)
        /\ beside => faults < cast.faults
        /\ faults' = IF beside THEN faults + 1 ELSE faults
        /\ payer' = [payer EXCEPT ![p] = [pc |-> "pay", id |-> e]]
        /\ sending' = [sending EXCEPT ![e] =
               IF @ = "new" THEN "initiated" ELSE @]
        /\ UNCHANGED <<otherVars, sent_payments>>

\* Not settled yet: the claim is given back for a retry.
PaymentPending(p) ==
    /\ payer[p].pc = "pay"
    /\ payer' = [payer EXCEPT ![p] = PayerIdle]
    /\ UNCHANGED <<otherVars, sent_payments, sending, faults>>

PaymentSucceeds(p) ==
    /\ payer[p].pc = "pay"
    /\ payer' = [payer EXCEPT ![p].pc = "record"]
    /\ sending' = [sending EXCEPT ![payer[p].id] =
           IF @ = "answered" THEN @ ELSE "succeeded"]
    /\ UNCHANGED <<otherVars, sent_payments, faults>>

\* Recorded whatever became of the connection since the payment started.
RecordSentPayment(p) ==
    /\ payer[p].pc = "record"
    /\ RecordNwcSentPayment(payer[p].id)
    /\ payer' = [payer EXCEPT ![p].pc = "respond"]
    /\ UNCHANGED <<otherVars, sending, faults>>

RespondPaid(p) ==
    LET e == payer[p].id
    IN  /\ payer[p].pc = "respond"
        /\ payer' = [payer EXCEPT ![p] = PayerIdle]
        /\ sending' = IF RevisionActive(ConnectionOf[e], 0)
                      THEN [sending EXCEPT ![e] = "answered"] ELSE sending
        /\ UNCHANGED <<otherVars, sent_payments, faults>>

\* The process dies, the ledger is busy or the claim was lost.
PayerDies(p) ==
    /\ payer[p] # PayerIdle /\ faults < cast.faults
    /\ faults' = faults + 1
    /\ payer' = [payer EXCEPT ![p] = PayerIdle]
    /\ UNCHANGED <<otherVars, sent_payments, sending>>

\* The reconciler settles the payment in the ledger and records nothing.
ReconcilePayment(e) ==
    /\ sending[e] = "initiated"
    /\ sending' = [sending EXCEPT ![e] = "succeeded"]
    /\ UNCHANGED <<otherVars, sent_payments, payer, faults>>

-----------------------------------------------------------------------------
(* The client pays an invoice it was given, before it expires.             *)

ClientPays(e) ==
    /\ answer[e] \in WalletInvoices \ settled
    /\ now < made[answer[e]]
    /\ settled' = settled \cup {answer[e]}
    /\ UNCHANGED <<registryVars, now, ledgerVars, engine, lease_owner, answer,
                   cast, pass, received, payVars, made, faults, history>>

-----------------------------------------------------------------------------
(* InvoiceNotificationWorker.  `cut' says whether the pass has run out of  *)
(* its window or was cancelled; it is looked at where the code looks.      *)

PassIdle == [pc |-> "idle"]

\* A pass at the head of one of its two loops.  The scope matters until the
\* invoices are loaded.
Looping(pc, scope, todo, cut) ==
    [pc |-> pc, scope |-> scope, todo |-> todo, cut |-> cut]

\* A pass that handles a loaded row.
Handling(pc, q, item) ==
    [pc |-> pc, scope |-> q.scope, todo |-> q.todo \ {item}, cut |-> q.cut,
     item |-> item, event |-> item.row.event, relays |-> {}, failed |-> FALSE,
     paid |-> FALSE, asked_at |-> 0]

GotoPass(w, pc) == pass' = [pass EXCEPT ![w].pc = pc]

envVars == <<registryVars, cast, now, engine, lease_owner, answer, made,
             settled, payVars, history>>

IsInvoice(w) == pass[w].item.id \in InvoiceRequests

\* Back to the loop over the invoices or the payments.
NextItem(w) ==
    pass' = [pass EXCEPT ![w] =
        Looping(IF IsInvoice(w) THEN "invoices" ELSE "payments",
                @.scope, @.todo, @.cut)]

\* run and run_for_wallet start with the outgoing payments.
Run(w, scope) ==
    /\ pass[w] = PassIdle
    /\ pass' = [pass EXCEPT ![w] = Looping("payments", scope,
           IF scope = "all" THEN PendingNwcSentPayments
           ELSE PendingNwcSentPaymentsForWallet(scope), "no")]
    /\ UNCHANGED <<envVars, ledgerVars, received, faults>>

\* run_invoice: a settlement wake for one exact invoice.  The bound keeps one
\* row from running ahead of the others.
RunInvoice(w, e) ==
    /\ pass[w] = PassIdle /\ PendingNwcInvoice(e) # {}
    /\ created_invoices[e].last_checked_at <= now + 1
    /\ pass' = [pass EXCEPT ![w] =
           Looping("invoices", "all", PendingNwcInvoice(e), "no")]
    /\ UNCHANGED <<envVars, ledgerVars, received, faults>>

First(todo, Before(_, _)) ==
    CHOOSE i \in todo : \A j \in todo \ {i} : Before(i, j)

\* Mutant: a payment whose event an earlier pass has stored is passed over.
NextNewPayment(w) ==
    LET q == pass[w]
        item == First(q.todo, OlderPayment)
    IN  /\ q.pc = "payments" /\ q.todo # {} /\ q.cut # "cancelled"
        /\ pass' = [pass EXCEPT ![w] =
               IF item.row.event = NoEvent THEN Handling("secret", q, item)
               ELSE [q EXCEPT !.todo = @ \ {item}]]
        /\ UNCHANGED <<envVars, ledgerVars, received, faults>>

\* The connection is checked again for every payment, also for one whose
\* notification is ready.
NextPayment(w) ==
    LET q == pass[w]
        item == First(q.todo, OlderPayment)
        e == item.id
    IN  /\ q.pc = "payments" /\ q.todo # {} /\ q.cut # "cancelled"
        /\ IF RevisionActive(ConnectionOf[e], item.row.revision)
           THEN /\ pass' = [pass EXCEPT ![w] = Handling(
                       IF item.row.event = NoEvent THEN "secret" ELSE "relays",
                       q, item)]
                /\ UNCHANGED sent_payments
           ELSE /\ DiscardNwcSentPayment(e)
                /\ pass' = [pass EXCEPT ![w].todo = @ \ {item}]
        /\ UNCHANGED <<envVars, created_invoices, received, faults>>

LoadInvoices(w) ==
    LET q == pass[w]
    IN  /\ q.pc = "payments"
        /\ q.todo = {} \/ q.cut = "cancelled"
        /\ pass' = [pass EXCEPT ![w] = Looping("invoices", "all",
               IF q.scope = "all" THEN PendingNwcInvoices
               ELSE PendingNwcInvoicesForWallet(q.scope), q.cut)]
        /\ UNCHANGED <<envVars, ledgerVars, received, faults>>

\* process_invoice touches the row first.  A stored event is published
\* without another look at the connection.
NextInvoice(w) ==
    LET q == pass[w]
        item == First(q.todo, LessRecentlyChecked)
    IN  /\ q.pc = "invoices" /\ q.todo # {} /\ q.cut # "cancelled"
        /\ TouchNwcInvoice(item.id, now)
        /\ pass' = [pass EXCEPT ![w] = Handling(
               IF item.row.event = NoEvent THEN "lookup" ELSE "relays", q, item)]
        /\ UNCHANGED <<envVars, sent_payments, received, faults>>

PassEnds(w) ==
    /\ pass[w].pc = "invoices"
    /\ pass[w].todo = {} \/ pass[w].cut = "cancelled"
    /\ pass' = [pass EXCEPT ![w] = PassIdle]
    /\ UNCHANGED <<envVars, ledgerVars, received, faults>>

LookupInvoice(w) ==
    /\ pass[w].pc = "lookup"
    /\ IF pass[w].cut # "no" THEN NextItem(w)
       ELSE pass' = [pass EXCEPT ![w].pc = "decide", ![w].asked_at = now,
                ![w].paid = pass[w].item.row.hash \in settled]
    /\ UNCHANGED <<envVars, ledgerVars, received, faults>>

LookupFails(w) ==
    /\ pass[w].pc = "lookup" /\ faults < cast.faults
    /\ faults' = faults + 1
    /\ NextItem(w)
    /\ UNCHANGED <<envVars, ledgerVars, received>>

\* Mutant: the invoice's own expiry decides.
StaleAtExpiry(row) == now >= row.expires_at

\* An unpaid invoice is given up only after the grace period.
Stale(row) == now >= row.expires_at + Grace

\* Mutant: an unpaid invoice is handled like a paid one.
DecideAnyway(w) ==
    /\ pass[w].pc = "decide"
    /\ GotoPass(w, "secret")
    /\ UNCHANGED <<envVars, ledgerVars, received, faults>>

DeferOrExpireInvoice(w) ==
    LET row == pass[w].item.row
    IN  /\ pass[w].pc = "decide" /\ ~pass[w].paid
        /\ IF Stale(row) THEN ExpireNwcInvoice(pass[w].item.id)
           ELSE UNCHANGED created_invoices
        /\ NextItem(w)
        /\ UNCHANGED <<envVars, sent_payments, received, faults>>

\* The notification of a paid invoice needs the connection at the revision
\* that asked for the invoice.
CheckConnection(w) ==
    LET item == pass[w].item
    IN  /\ pass[w].pc = "decide" /\ pass[w].paid
        /\ IF RevisionActive(ConnectionOf[item.id], item.row.revision)
           THEN GotoPass(w, "secret") /\ UNCHANGED created_invoices
           ELSE NextItem(w) /\ ExpireNwcInvoice(item.id)
        /\ UNCHANGED <<envVars, sent_payments, received, faults>>

\* Mutant: the proposal is published, not the stored event.
ProposedEvent(row, proposed) == proposed

\* Mutant: the row as it was loaded says what to publish.
EventBefore(row, proposed) == row.event

\* What a row holds after the call that stores a proposed event.
Canonical(row, proposed) == WithEvent(row, proposed).event

\* The key is loaded, the event built and stored.  Without the window the
\* loop over the payments ends; an invoice is left for the next pass.
StoreEvent(w) ==
    LET q == pass[w]
        e == q.item.id
        table == IF IsInvoice(w) THEN created_invoices ELSE sent_payments
    IN  /\ q.pc = "secret"
        /\ IF q.cut # "no"
           THEN /\ IF IsInvoice(w) THEN NextItem(w)
                   ELSE pass' = [pass EXCEPT ![w] =
                            Looping("payments", q.scope, {}, q.cut)]
                /\ UNCHANGED ledgerVars
           ELSE IF e \notin Pending(table)
           THEN pass' = [pass EXCEPT ![w] = PassIdle] /\ UNCHANGED ledgerVars
           ELSE /\ pass' = [pass EXCEPT ![w].pc = "relays",
                       ![w].event = Canonical(table[e], w)]
                /\ IF IsInvoice(w)
                   THEN /\ StoreNwcInvoiceNotificationEvent(e, w)
                        /\ UNCHANGED sent_payments
                   ELSE /\ StoreNwcSentNotificationEvent(e, w)
                        /\ UNCHANGED created_invoices
        /\ UNCHANGED <<envVars, received, faults>>

LoadRelays(w) ==
    LET e == pass[w].item.id
        relays == IF IsInvoice(w) THEN UndeliveredNwcInvoiceRelays(e)
                  ELSE UndeliveredNwcSentRelays(e)
    IN  /\ pass[w].pc = "relays"
        /\ pass' = [pass EXCEPT ![w].pc = "publish", ![w].relays = relays]
        /\ UNCHANGED <<envVars, ledgerVars, received, faults>>

NextRelay(w) == CHOOSE r \in pass[w].relays : \A s \in pass[w].relays : r <= s

Accept(w, r) ==
    received' = [received EXCEPT ![pass[w].item.id][r] = @ \cup {pass[w].event}]

\* What a relay answers for an event it has stored, or has not: nothing, or
\* an acknowledgement, also one of another event before it.
Acknowledgement(event, accepted) ==
    [kind |-> "text", array |-> TRUE, label |-> "OK", id |-> event,
     accepted |-> accepted]

Replies(event, stored) ==
    LET mine == Acknowledgement(event, IF stored THEN "true" ELSE "false")
        other == Acknowledgement("other", "true")
    IN  {<<>>, <<mine>>, <<other>>, <<other, mine>>}

\* One publication to relay r, which ends the way the answer says.
Publication(w, r, published) ==
    \E stored \in BOOLEAN :
        /\ \E frames \in Replies(pass[w].event, stored) :
               published <=> Relay!PublishRelayEvent("open", frames, pass[w].event).ok
        /\ IF stored THEN Accept(w, r) ELSE UNCHANGED received

\* The relays in turn; what is left when the window closes has failed.
PublishEvent(w) ==
    LET q == pass[w]
    IN  /\ q.pc = "publish"
        /\ \/ /\ q.relays # {} /\ q.cut = "no"
              /\ Publication(w, NextRelay(w), TRUE)
              /\ GotoPass(w, "acknowledge")
           \/ /\ q.relays # {} /\ q.cut # "no"
              /\ NextItem(w)
              /\ UNCHANGED received
           \/ /\ q.relays = {}
              /\ IF q.failed THEN NextItem(w) ELSE GotoPass(w, "complete")
              /\ UNCHANGED received
        /\ UNCHANGED <<envVars, ledgerVars, faults>>

\* Mutant: an unanswered publication is acknowledged like any other.
PublishFailureIgnored(w) ==
    /\ pass[w].pc = "publish" /\ pass[w].relays # {} /\ faults < cast.faults
    /\ faults' = faults + 1
    /\ GotoPass(w, "acknowledge")
    /\ UNCHANGED <<envVars, ledgerVars, received>>

\* The call fails, although the relay may have the event.
PublishFails(w) ==
    LET r == NextRelay(w)
    IN  /\ pass[w].pc = "publish" /\ pass[w].relays # {}
        /\ pass[w].cut = "no" /\ faults < cast.faults
        /\ faults' = faults + 1
        /\ Publication(w, r, FALSE)
        /\ pass' = [pass EXCEPT ![w].relays = @ \ {r}, ![w].failed = TRUE]
        /\ UNCHANGED <<envVars, ledgerVars>>

AcknowledgeRelay(w) ==
    LET e == pass[w].item.id
        r == NextRelay(w)
    IN  /\ pass[w].pc = "acknowledge"
        /\ IF IsInvoice(w)
           THEN AcknowledgeNwcInvoiceRelay(e, r) /\ UNCHANGED sent_payments
           ELSE AcknowledgeNwcSentRelay(e, r) /\ UNCHANGED created_invoices
        /\ pass' = [pass EXCEPT ![w].pc = "publish", ![w].relays = @ \ {r}]
        /\ UNCHANGED <<envVars, received, faults>>

CompleteNotification(w) ==
    LET e == pass[w].item.id
    IN  /\ pass[w].pc = "complete"
        /\ IF IsInvoice(w)
           THEN CompleteNwcInvoiceNotification(e) /\ UNCHANGED sent_payments
           ELSE CompleteNwcSentNotification(e) /\ UNCHANGED created_invoices
        /\ NextItem(w)
        /\ UNCHANGED <<envVars, received, faults>>

\* The window closes or the platform cancels.
Cut(w) ==
    /\ pass[w] # PassIdle /\ faults < cast.faults
    /\ pass[w].cut = "no"
    /\ faults' = faults + 1
    /\ \E why \in {"deadline", "cancelled"} :
           pass' = [pass EXCEPT ![w].cut = why]
    /\ UNCHANGED <<envVars, ledgerVars, received>>

\* The key cannot be loaded, the ledger fails or the process dies: the whole
\* pass is given up where it stands.
Abort(w) ==
    /\ pass[w] # PassIdle /\ faults < cast.faults
    /\ faults' = faults + 1
    /\ pass' = [pass EXCEPT ![w] = PassIdle]
    /\ UNCHANGED <<envVars, ledgerVars, received>>

-----------------------------------------------------------------------------
Revoke(c) ==
    /\ TombstoneConnection(c, connections[c].revision, now)
    /\ UNCHANGED <<now, ledgerVars, engine, lease_owner, answer, passVars,
                   made, faults, history>>

(***************************************************************************)
(* The clock runs whatever the processes do: the budget of a call stands   *)
(* still while the device sleeps, so any time may pass between two steps.  *)
(* Two delays are remembered, because the code takes no precaution against *)
(* them.  A pass may sleep for the grace period between the wallet's       *)
(* answer that an invoice is unpaid and the decision to give it up, which  *)
(* looks at the clock again.  And an execution of a request may be under   *)
(* way when an invoice that an earlier execution made for it is already    *)
(* past the grace period: expire_nwc_invoice deletes by request and not by *)
(* invoice, so a pass that loaded the old row deletes the new one.         *)
(***************************************************************************)
Asleep(w, t) ==
    pass[w].pc = "decide" /\ ~pass[w].paid /\ t >= pass[w].asked_at + Grace

Executing(p, e) == engine[p] # EngineIdle /\ engine[p].id = e

Tick ==
    /\ now < cast.until
    /\ now' = now + 1
    /\ overtaken' = overtaken \cup {e \in InvoiceRequests :
           \/ \E w \in Workers : Asleep(w, now') /\ pass[w].item.id = e
           \/ \E p \in Engines : Executing(p, e) /\ Outlived(e, now')}
    /\ UNCHANGED <<registryVars, ledgerVars, engine, lease_owner, answer,
                   passVars, made, faults, made_for>>

NotificationsInit ==
    /\ cast \in Casts
    /\ connections = [c \in ConnectionIds |->
           [AbsentConnection EXCEPT !.status = "active"]]
    /\ outbox = [c \in ConnectionIds |-> NoChange]
    /\ used = [c \in ConnectionIds |-> [t \in Time |-> 0]]
    /\ now = 0
    /\ created_invoices = [e \in InvoiceRequests |-> NoRow]
    /\ sent_payments = [e \in PaymentRequests |-> NoRow]
    /\ engine = [p \in Engines |-> EngineIdle]
    /\ lease_owner = [e \in InvoiceRequests |-> Nobody]
    /\ answer = [e \in InvoiceRequests |-> Unanswered]
    /\ pass = [w \in Workers |-> PassIdle]
    /\ made = [i \in WalletInvoices |-> 0]
    /\ settled = {} /\ faults = 0
    /\ payer = [p \in Engines |-> PayerIdle]
    /\ sending = [e \in PaymentRequests |-> "new"]
    /\ made_for = [i \in WalletInvoices |-> NoRequest] /\ overtaken = {}
    /\ received = [e \in Requests |-> [r \in Relays |-> {}]]

Scopes == {"all"} \cup {KeyPair[c] : c \in ConnectionIds}

PassStep(w) ==
    \/ NextPayment(w) \/ LoadInvoices(w) \/ NextInvoice(w) \/ PassEnds(w)
    \/ LookupInvoice(w) \/ DeferOrExpireInvoice(w) \/ CheckConnection(w)
    \/ StoreEvent(w) \/ LoadRelays(w) \/ PublishEvent(w)
    \/ AcknowledgeRelay(w) \/ CompleteNotification(w)

MakeInvoiceStep(p) ==
    LoadNwcInvoice(p) \/ CreateInvoice(p) \/ RecordInvoice(p) \/ Respond(p)

PayStep(p) ==
    \/ \E e \in PaymentRequests \cap cast.requests : StartPayment(p, e)
    \/ PaymentPending(p) \/ PaymentSucceeds(p) \/ RespondPaid(p) \/ PayerDies(p)

NotificationsNext ==
    \/ \E w \in cast.workers :
           \/ PassStep(w)
           \/ \E scope \in Scopes : Run(w, scope)
           \/ \E e \in InvoiceRequests : RunInvoice(w, e)
           \/ LookupFails(w) \/ PublishFails(w) \/ Cut(w) \/ Abort(w)
    \/ \E p \in cast.engines :
           \/ MakeInvoiceStep(p) \/ EngineDies(p)
           \/ \E e \in InvoiceRequests \cap cast.requests : Claim(p, e)
           \/ PayStep(p) \/ RecordSentPayment(p)
    \/ \E e \in PaymentRequests : ReconcilePayment(e)
    \/ \E e \in InvoiceRequests : ClientPays(e)
    \/ \E c \in ConnectionIds : Revoke(c)
    \/ Tick

NotificationsSafety == NotificationsInit /\ [][NotificationsNext]_notificationVars

(***************************************************************************)
(* A pass that is under way goes on, and the application keeps starting    *)
(* passes: every wake and every maintenance run ends in one.               *)
(***************************************************************************)
NotificationsSpec ==
    /\ NotificationsSafety
    /\ \A w \in Workers :
           /\ WF_notificationVars(w \in cast.workers /\ PassStep(w))
           /\ SF_notificationVars(w \in cast.workers /\ Run(w, "all"))

-----------------------------------------------------------------------------
PassTypeOK(q) ==
    \/ q = PassIdle
    \/ /\ q.pc \in {"payments", "invoices"} /\ q.scope \in Scopes
       /\ q.cut \in {"no", "deadline", "cancelled"}
    \/ /\ q.pc \in {"secret", "lookup", "decide", "relays", "publish",
                    "acknowledge", "complete"}
       /\ q.item.id \in Requests /\ q.item.row # NoRow
       /\ q.pc \in {"relays", "publish", "acknowledge", "complete"} =>
              q.event \in Workers
       /\ q.pc = "acknowledge" => q.relays # {}
       /\ q.relays \subseteq Relays

\* Types; in particular what a pass publishes is a stored event, never the
\* empty one.
NotificationsTypeOK ==
    /\ created_invoices \in [InvoiceRequests -> InvoiceRow \cup {NoRow}]
    /\ sent_payments \in [PaymentRequests -> PaymentRow \cup {NoRow}]
    /\ answer \in [InvoiceRequests -> WalletInvoices \cup {Unanswered, Failed}]
    /\ settled \subseteq WalletInvoices
    /\ payer \in [Engines -> Payments \cup {PayerIdle}]
    /\ sending \in [PaymentRequests -> Progress]
    /\ received \in [Requests -> [Relays -> SUBSET Workers]]
    /\ made_for \in [WalletInvoices -> InvoiceRequests \cup {NoRequest}]
    /\ overtaken \subseteq InvoiceRequests
    /\ \A w \in Workers : PassTypeOK(pass[w])

\* Only the rows of payments of a revoked connection are discarded.
Kept(e) == e \in InvoiceRequests \/ RevisionActive(ConnectionOf[e], 0)

\* However many passes build a notification, every relay is given the same
\* event: store_nwc_*_notification_event returns the canonical one.  So it is
\* for every invoice, and for a payment until its connection is revoked: a
\* pass then discards the row, an execution still under way records it again,
\* and a pass past its connection check may publish a second event.
OneEventPerRequest ==
    \A e \in Requests : Kept(e) =>
        Cardinality(UNION {received[e][r] : r \in Relays}) <= 1

\* InvoiceSettlementMonitor::completed says that the notification has reached
\* every relay, and the monitor is stopped for good on that word.  The same
\* of a payment, until a revocation lets its row be discarded.
CompletedIsEverywhere ==
    LET Row(e) == IF e \in InvoiceRequests THEN created_invoices[e]
                  ELSE sent_payments[e]
    IN  \A e \in Requests : Kept(e) /\ Row(e) # NoRow /\ Row(e).completed =>
            \A r \in Relays : Row(e).event \in received[e][r]

\* The invoice in the response is the one the ledger tracks, and while its
\* connection is active a paid one stays tracked: its row is not expired by
\* a pass that asked the wallet before it was paid, nor by the grace period,
\* nor by the replay of a request whose execution crashed anywhere.  The two
\* delays that Tick remembers are the only exceptions: the code gives the
\* invoice up after either of them.
PaidInvoiceIsTracked ==
    \A e \in InvoiceRequests \ overtaken : RevisionActive(ConnectionOf[e], 0) =>
        /\ answer[e] \in WalletInvoices /\ created_invoices[e] # NoRow =>
               created_invoices[e].hash = answer[e]
        /\ answer[e] \in settled => created_invoices[e] # NoRow

\* A notification is only published for an invoice that was paid.
NotifiedOnlyIfPaid ==
    \A e \in InvoiceRequests : (\E r \in Relays : received[e][r] # {}) =>
        answer[e] \in settled

Done(table, e) == table[e] # NoRow /\ table[e].completed

\* A paid invoice of a connection that stays active is notified at every
\* relay in the end, although a pass takes a bounded batch of rows, unless
\* the clock has overtaken a pass or an execution of its request.
EventuallyNotified ==
    \A e \in InvoiceRequests :
        answer[e] \in settled ~>
            \/ ~RevisionActive(ConnectionOf[e], 0) \/ e \in overtaken
            \/ Done(created_invoices, e)

\* So is an outgoing payment that the engine has recorded, whichever steps of
\* its execution or its replays are cut short afterwards.  A payment that only
\* the reconciler settles, or whose execution ends between the settlement and
\* the record, is not recorded and not reported before a replay records it.
EventuallyReported ==
    \A e \in PaymentRequests :
        sent_payments[e] # NoRow ~> \/ ~RevisionActive(ConnectionOf[e], 0)
                                   \/ Done(sent_payments, e)
=============================================================================
