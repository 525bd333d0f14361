----------------------------- MODULE WakeEngine -----------------------------
(***************************************************************************)
(* Concurrent WakeEngine::execute calls and one PaymentReconciler over the *)
(* shared ledger, with the wallet, the relay and the application's         *)
(* revocations.  A step is one ledger transaction or one host call; what a *)
(* process keeps between two steps (its lease, the attempt it loaded, the  *)
(* status it was told) may be stale when it is used.                       *)
(*                                                                         *)
(* Time is relative: `now' stays 0 and available_at is the time left, so   *)
(* no bound limits how long a behaviour runs.  The budget is one period    *)
(* and connections do not expire here; PaymentAccounting has both.         *)
(*                                                                         *)
(* A behaviour's cast, chosen initially, says who acts in it: the requests *)
(* clients send, the processes that run, the attempts earlier versions or  *)
(* earlier processes left, and what the environment may do.                *)
(***************************************************************************)
EXTENDS EventClaims, PaymentAccounting, WakeAdmission, RelayClient
LOCAL Sets == INSTANCE FiniteSetsExt

CONSTANTS
    Casts,          \* the instances checked, by name
    SettledFee,     \* routing fee, in msat, the wallet reports
    External        \* key of a payment made outside this library

Requests == [kind: {"pay_invoice", "direct", "malformed"}, conn: ConnectionIds,
             hash: Hashes, principal: Nat]

ASSUME EngineAssumption ==
    /\ \A name \in DOMAIN Casts : LET c == Casts[name] IN
        /\ c.requests \in [EventIds -> Requests]
        /\ \A e, f \in EventIds :
               c.requests[e].hash = c.requests[f].hash =>
                   c.requests[e].principal = c.requests[f].principal
        /\ c.legacy \subseteq EventIds /\ c.left \subseteq EventIds \ c.legacy
        /\ c.woken \subseteq EventIds /\ c.processes \subseteq Processes
        /\ c.held \subseteq Hashes
        /\ c.outside \in BOOLEAN /\ c.outlive \in BOOLEAN /\ c.prunes \in BOOLEAN
        /\ c.undecodable \in BOOLEAN
        /\ c.batch \in Nat \ {0} /\ c.faults \in Nat
        \* What reserve_payment and UNIQUE(payment_hash) let a ledger contain.
        /\ \A e \in c.legacy \cup c.left :
               /\ c.requests[e].kind = "pay_invoice" /\ c.requests[e].principal > 0
               /\ MayPay[c.requests[e].conn]
               /\ \A f \in c.legacy \cup c.left :
                      c.requests[e].hash = c.requests[f].hash => e = f
    /\ {"result", "error"} \subseteq Responses /\ "none" \notin Responses
    /\ SettledFee \in Nat
    /\ External \notin EventIds /\ Nobody \notin EventIds \cup {External}

VARIABLES
    cast,           \* the name of this behaviour's instance
    sequence,       \* [EventIds -> reconciliation_sequence, above the smallest]
    proc,           \* [Processes -> local state of one execute call]
    reconciler,     \* local state of the reconcile call
    wallet,         \* [Hashes -> [status, key]]: the wallet's durable payments
    started,        \* events start_payment was ever called for (ghost)
    published,      \* responses a relay accepted
    sent,           \* nwc_sent_payments, by event
    stale,          \* events outside the freshness window
    faults          \* failures so far

ledgerVars == <<registryVars, claimVars, attempts, sequence>>
hostVars == <<wallet, started, published, sent, stale, cast>>
engineVars == <<ledgerVars, hostVars, proc, reconciler, faults>>

Cast == Casts[cast]

RequestOf == Cast.requests      \* what each event asks for
LegacyEvents == Cast.legacy     \* attempts a pre-marker ledger left in flight
LeftEvents == Cast.left         \* attempts an earlier process left in flight
MaxFaults == Cast.faults        \* bound on failures of the environment

Request(p) == RequestOf[proc[p].event]
HashOf(p) == Request(p).hash

-----------------------------------------------------------------------------
(* The wallet, as NwcWalletBackend documents it: payments are durable, one *)
(* per hash, and a repeated start with the same key resumes the original.  *)

NoPayment == [status |-> "unknown", key |-> Nobody]

Underway(h) == wallet[h].status \in {"pending", "succeeded"}

\* What a settlement of h reports, in msat; the fee is SettledFee.
SettledAmount(h) ==
    1000 * RequestOf[CHOOSE e \in EventIds : RequestOf[e].hash = h].principal

\* A start call with `key' would submit a new payment of h.
MaySubmit(key, h) == ~Underway(h) /\ wallet[h].key # key

Submit(key, h) ==
    wallet' = [wallet EXCEPT ![h] = [status |-> "pending", key |-> key]]

\* Rejected and NotFound certify that nothing was submitted for the key.
MayReject(key, h) == wallet[h].key # key

\* Answers of the host for a payment with this status: a settlement's
\* preimage may not decode.
Reports(status) ==
    [ok: {TRUE},
     value: [status: {status},
             preimage: IF Cast.undecodable THEN {"valid", "invalid"} ELSE {"valid"}]]

WalletSettles(h) ==
    /\ wallet[h].status = "pending"
    /\ \E status \in {"succeeded", "failed"} :
           wallet' = [wallet EXCEPT ![h].status = status]
    /\ UNCHANGED <<ledgerVars, started, published, sent, stale, cast, proc,
                   reconciler, faults>>

PayOutside ==
    /\ Cast.outside
    /\ \E h \in Hashes :
        /\ \E e \in EventIds : RequestOf[e].hash = h
        /\ MaySubmit(External, h) /\ Submit(External, h)
    /\ UNCHANGED <<ledgerVars, started, published, sent, stale, cast, proc,
                   reconciler,
                   faults>>

-----------------------------------------------------------------------------
(* Local state of a call.                                                  *)

Idle == [pc |-> "idle"]

\* The fields of a PaymentAttempt the engine and the reconciler look at.
Snapshot(row) ==
    [hash |-> row.hash, state |-> row.state, initiated |-> row.initiated,
     legacy |-> row.legacy]

NoSnapshot == [state |-> "none"]

Goto(p, pc) == proc' = [proc EXCEPT ![p].pc = pc]

\* Leave the payment code: what it had loaded goes out of scope.
Leave(p, pc, response) ==
    proc' = [proc EXCEPT ![p].pc = pc, ![p].response = response,
                         ![p].seen = NoSnapshot, ![p].status = "unknown"]

\* respond_with_error and payment_error.
RespondWithError(p) == Leave(p, "error", "error")

\* finish_payment_status with the given status.
FinishWith(p, status) ==
    proc' = [proc EXCEPT ![p].pc = "finish", ![p].status = status]

\* Mutant: a prepared payment is resumed by looking its hash up.
ContinueByHash(p, attempt) ==
    IF attempt.legacy \/ attempt.state = "failed" THEN RespondWithError(p)
    ELSE IF attempt.state = "reserved" /\ attempt.initiated
    THEN FinishWith(p, wallet[attempt.hash].status)
    ELSE proc' = [proc EXCEPT ![p].pc = "status", ![p].seen = attempt]

\* The head of continue_payment: a decision on the loaded attempt alone.
ContinuePayment(p, attempt) ==
    IF attempt.legacy \/ attempt.state = "failed" THEN RespondWithError(p)
    ELSE proc' = [proc EXCEPT
             ![p].pc = IF attempt.state = "reserved" /\ attempt.initiated
                       THEN "check_start" ELSE "status",
             ![p].seen = attempt]

-----------------------------------------------------------------------------
(* WakeEngine::execute.                                                    *)

\* The signed request e of the client of connection c.
SignedRequest(e, c) ==
    [id |-> e, kind |-> NwcRequestKind, is_request |-> TRUE, length |-> 1,
     parses |-> TRUE, signed |-> TRUE, author |-> KeyPair[c],
     recipients |-> <<KeyPair[c]>>, content |-> [length |-> 132, iv_marks |-> 0]]

\* What a relay that stores events of c sends for a subscription.
StoredFrames(c) ==
    LET Frame(f) == [kind |-> "text", array |-> TRUE, mine |-> TRUE,
                     label |-> "EVENT", event |-> SignedRequest(f, c)]
        end == [kind |-> "text", array |-> TRUE, mine |-> TRUE, label |-> "EOSE"]
    IN  {<<end>>} \cup {<<Frame(f), end>> : f \in EventIds}

\* A wake names an event and a relay; the event is embedded in it, or fetched
\* from the relay, which may not have it.
Wakes(e, c) ==
    LET Wake(embedded, fetched) ==
            [cancelled |-> FALSE, late |-> FALSE, relay |-> "relay",
             relay_valid |-> TRUE, relay_approved |-> "yes", event_id |-> e,
             embedded |-> embedded, fetched |-> fetched]
        Fetched(frames) ==
            FetchRelayEvent("open", frames, e, MaxEmbeddedWakeEventBytes)
    IN  {Wake({SignedRequest(e, c)}, Err("Unavailable"))}
            \cup {Wake({}, Fetched(frames)) : frames \in StoredFrames(c)}

\* The connection of the author, as execute loads it.
Loaded(c, state, expired) ==
    [state |-> state, expired |-> expired, relays |-> {"relay"},
     client |-> KeyPair[c], wallet |-> KeyPair[c], encryption |-> "nip44_v2"]

\* The states of connection c in which a wake brings e in; a wake that is not
\* admitted changes nothing.
AdmittingStates ==
    [e \in EventIds, c \in ConnectionIds |->
        {x \in [state: {"absent", "active", "tombstoned"}, expired: BOOLEAN] :
            \E wake \in Wakes(e, c) :
                Admitted = Admission(wake, SignedRequest(e, c),
                                     Loaded(c, x.state, x.expired),
                                     MaxEmbeddedWakeEventBytes)}]

\* Wakes may be repeated and delivered to several processes.
LoadConnection(p) ==
    /\ p \in Cast.processes /\ proc[p] = Idle
    /\ \E e \in Cast.woken :
        LET c == RequestOf[e].conn IN
        /\ [state |-> connections[c].status, expired |-> Expired(c, now)]
               \in AdmittingStates[e, c]
        /\ proc' = [proc EXCEPT ![p] =
               [pc |-> "claim", event |-> e, conn |-> c,
                revision |-> connections[c].revision, seen |-> NoSnapshot,
                status |-> "unknown", response |-> "none"]]
    /\ UNCHANGED <<ledgerVars, wallet, started, sent,
                   published>>

ClaimStep(p) ==
    LET w == proc[p]
        outcome == ClaimOutcome(w.event, w.conn, w.revision, now)
    IN  /\ w.pc = "claim"
        /\ \/ /\ \E d \in Leases :
                     ClaimEvent(p, w.event, w.conn, w.revision, now, d)
              /\ Goto(p, IF lease'[p].fresh THEN "secret" ELSE "freshness")
           \/ /\ outcome = "terminal"
              /\ proc' = [proc EXCEPT
                     ![p] = IF events[w.event].response = "none" THEN Idle
                            ELSE [w EXCEPT !.pc = "publish",
                                     !.response = events[w.event].response]]
              /\ UNCHANGED <<events, lease>>
           \/ /\ outcome \in {"in_progress", "mismatch"}
              /\ proc' = [proc EXCEPT ![p] = Idle]
              /\ UNCHANGED <<events, lease>>
        /\ UNCHANGED <<registryVars, now, attempts, sequence, wallet, started, sent,
                   published>>

CheckFreshness(p) ==
    /\ proc[p].pc = "freshness"
    /\ IF proc[p].event \in stale
       THEN Leave(p, "reject", "none") /\ UNCHANGED <<events, lease>>
       ELSE IF OwnsLease(p, now)
       THEN AcceptEventFreshness(p, now) /\ Goto(p, "secret")
       ELSE Leave(p, "retry", "none") /\ UNCHANGED <<events, lease>>
    /\ UNCHANGED <<registryVars, now, attempts, sequence, wallet, started, sent,
                   published>>

\* Secret loaded, request decrypted and dispatched on its method.
Dispatch(p) ==
    /\ proc[p].pc = "secret"
    /\ IF Request(p).kind = "malformed" THEN Leave(p, "reject", "none")
       ELSE IF Request(p).kind = "direct" THEN Goto(p, "check_direct")
       ELSE IF MayPay[proc[p].conn] THEN Goto(p, "load_attempt")
       ELSE RespondWithError(p)
    /\ UNCHANGED <<ledgerVars, wallet, started, sent,
                   published>>

\* ensure_claim_connection_active, at each of its call sites.
AfterCheck(w) ==
    CASE w.pc = "check_direct" -> "direct"
      [] w.pc = "check_start" -> IF w.seen.state = "succeeded" THEN "retry"
                                 ELSE IF w.seen.initiated THEN "start"
                                 ELSE "initiate"
      [] OTHER -> "commit"

EnsureClaimConnectionActive(p) ==
    /\ proc[p].pc \in {"check_direct", "check_start", "check_commit", "error"}
    /\ IF RevisionActive(proc[p].conn, proc[p].revision)
       THEN Goto(p, AfterCheck(proc[p])) ELSE Leave(p, "reject", "none")
    /\ UNCHANGED <<ledgerVars, wallet, started, sent,
                   published>>

ExecuteRequest(p) ==
    /\ proc[p].pc = "direct"
    /\ \E answer \in {Ok("value")} \cup {Err(kind) : kind \in HostErrorKind} :
        \/ DirectOutcome(answer) = "result" /\ Leave(p, "check_commit", "result")
        \/ DirectOutcome(answer) = "error" /\ RespondWithError(p)
    /\ UNCHANGED <<ledgerVars, wallet, started, sent,
                   published>>

-----------------------------------------------------------------------------
(* execute_payment and continue_payment.                                   *)

LoadPaymentAttempt(p) ==
    LET w == proc[p] row == attempts[w.event]
    IN  /\ w.pc = "load_attempt"
        /\ IF ~Exists(w.event) THEN Goto(p, "quote")
           ELSE IF row.conn # w.conn \/ row.revision # w.revision
           THEN RespondWithError(p)
           ELSE ContinuePayment(p, Snapshot(row))
        /\ UNCHANGED <<ledgerVars, wallet, started, sent,
                   published>>

QuotePayment(p) ==
    /\ proc[p].pc = "quote"
    /\ \/ Request(p).principal > 0 /\ Goto(p, "reserve")
       \/ RespondWithError(p)
    /\ UNCHANGED <<ledgerVars, wallet, started, sent,
                   published>>

\* The attempts reconciliation asks about, and their order in its queue, of
\* which only the differences matter.
Due == {e \in EventIds : Unresolved(e) /\ ~attempts[e].legacy}

\* The taken attempts go behind the others.
Rotated(due, batch) ==
    LET last == Sets!Max({sequence[e] : e \in due})
        raw == [e \in due |-> IF e \in batch THEN last + 1 ELSE sequence[e]]
        first == Sets!Min({raw[e] : e \in due})
    IN  [e \in EventIds |-> IF e \in due THEN raw[e] - first ELSE 0]

\* reserve_payment puts a new attempt behind every other.
Behind(e) == Rotated(Due \cup {e}, {e})

ReserveStep(p) ==
    LET w == proc[p]
        r == Request(p)
        outcome == ReserveOutcome(w.event, r.hash, w.conn, w.revision,
                                  r.principal, now)
    IN  /\ w.pc = "reserve"
        /\ \/ /\ ReservePayment(w.event, r.hash, w.conn, w.revision,
                                r.principal, now)
              /\ sequence' = Behind(w.event)
              /\ ContinuePayment(p, Snapshot(attempts'[w.event]))
           \/ /\ outcome = "existing"
              /\ ContinuePayment(p, Snapshot(attempts[w.event]))
              /\ UNCHANGED <<registryVars, attempts, sequence>>
           \/ /\ outcome = "connection_unavailable"
              /\ Leave(p, "reject", "none")
              /\ UNCHANGED <<registryVars, attempts, sequence>>
           \/ /\ outcome \in {"invalid_amount", "out_of_range", "conflict",
                              "already_tracked", "budget_exceeded"}
              /\ RespondWithError(p)
              /\ UNCHANGED <<registryVars, attempts, sequence>>
        /\ UNCHANGED <<claimVars, wallet, started, sent,
                   published>>

PaymentStatusStep(p) ==
    /\ proc[p].pc = "status"
    /\ \E report \in Reports(wallet[HashOf(p)].status) :
        LET answer == BridgePaymentStatus(report) IN
        IF ~answer.ok THEN Leave(p, "retry", "none")
        ELSE IF answer.value.status = "unknown" THEN Goto(p, "check_start")
        ELSE IF MayDiscloseSettlement(proc[p].seen)
        THEN FinishWith(p, answer.value.status)
        ELSE Goto(p, "release")
    /\ UNCHANGED <<ledgerVars, wallet, started, sent, published>>

\* Attempts are updated by payment hash, whichever event holds the row.
ReleaseStep(p) ==
    /\ proc[p].pc = "release"
    /\ \/ \E f \in TrackedBy(HashOf(p)) :
              ReleaseUninitiatedPayment(f, now) /\ RespondWithError(p)
       \/ /\ \A f \in TrackedBy(HashOf(p)) : ~ReleaseOk(f, now)
          /\ Leave(p, "retry", "none") /\ UNCHANGED <<registryVars, attempts>>
    /\ UNCHANGED <<claimVars, sequence, wallet, started, sent,
                   published>>

InitiateStep(p) ==
    /\ proc[p].pc = "initiate"
    /\ \/ \E f \in TrackedBy(HashOf(p)) :
              MarkPaymentInitiated(f, now) /\ Goto(p, "start")
       \/ /\ \A f \in TrackedBy(HashOf(p)) : ~InitiatedOk(f, now)
          /\ Leave(p, "retry", "none") /\ UNCHANGED <<registryVars, attempts>>
    /\ UNCHANGED <<claimVars, sequence, wallet, started, sent,
                   published>>

\* start_payment: submitted or resumed, and then awaited; or rejected.
StartPayment(p) ==
    LET key == proc[p].event h == HashOf(p)
    IN  /\ proc[p].pc = "start"
        /\ \/ MaySubmit(key, h) /\ Submit(key, h) /\ Goto(p, "await")
           \/ /\ wallet[h].key = key
              /\ Goto(p, "await") /\ UNCHANGED wallet
           \/ /\ MayReject(key, h)
              /\ \E kind \in {"Rejected", "NotFound"} :
                     FinishWith(p, StartOutcome(BridgeStartPayment(Err(kind))))
              /\ UNCHANGED wallet
        /\ started' = started \cup {key}
        /\ UNCHANGED <<ledgerVars, sent, published>>

AwaitPayment(p) ==
    /\ proc[p].pc = "await"
    /\ \E report \in Reports(wallet[HashOf(p)].status) :
           FinishWith(p, StartOutcome(BridgeStartPayment(report)))
    /\ UNCHANGED <<ledgerVars, wallet, started, sent, published>>

FinishPaymentStatus(p) ==
    LET status == proc[p].status
        tracked == TrackedBy(HashOf(p))
        amount == SettledAmount(HashOf(p))
    IN  /\ proc[p].pc = "finish"
        /\ \/ /\ status \in {"unknown", "pending"}
              /\ \E f \in tracked : MarkPaymentPending(f, now)
              /\ Leave(p, "retry", "none")
           \/ /\ status = "succeeded"
              /\ \E f \in tracked :
                     MarkPaymentSucceeded(f, amount, SettledFee, now)
              /\ Goto(p, "record")
           \/ /\ status = "failed"
              /\ \E f \in tracked : MarkPaymentFailed(f, now)
              /\ RespondWithError(p)
           \/ /\ \A f \in tracked :
                     CASE status = "succeeded" ->
                              ~SucceededOk(f, amount, SettledFee, now)
                       [] status = "failed" -> ~FailedOk(f, now)
                       [] OTHER -> ~PendingOk(f, now)
              /\ Leave(p, "retry", "none") /\ UNCHANGED <<registryVars, attempts>>
        /\ UNCHANGED <<claimVars, sequence, wallet, started, sent,
                   published>>

RecordNwcSentPayment(p) ==
    /\ proc[p].pc = "record"
    /\ sent' = sent \cup {proc[p].event}
    /\ Leave(p, "check_commit", "result")
    /\ UNCHANGED <<ledgerVars, wallet, started, published>>

-----------------------------------------------------------------------------
(* commit_and_publish, republish_terminal and the ways a claim ends.       *)

\* Mutant: a response that could not be committed is published anyway.
CommitIgnoresLoss(p) ==
    LET w == proc[p]
    IN  /\ w.pc = "commit"
        /\ \/ /\ CompleteEventForActiveConnection(p, w.conn, w.revision,
                                                  w.response, now)
              /\ Goto(p, "publish")
           \/ /\ ~OwnsLease(p, now) \/ ~RevisionActive(w.conn, w.revision)
              /\ DropLease(p) /\ Goto(p, "send")
        /\ UNCHANGED <<registryVars, now, attempts, sequence, wallet, started, sent,
                       published>>

\* LostLease and ConnectionUnavailable both leave the row as it is.
Commit(p) ==
    LET w == proc[p]
    IN  /\ w.pc = "commit"
        /\ \/ /\ CompleteEventForActiveConnection(p, w.conn, w.revision,
                                                  w.response, now)
              /\ Goto(p, "publish")
           \/ /\ ~OwnsLease(p, now) \/ ~RevisionActive(w.conn, w.revision)
              /\ DropLease(p)
              /\ proc' = [proc EXCEPT ![p] = Idle]
        /\ UNCHANGED <<registryVars, now, attempts, sequence, wallet, started, sent,
                   published>>

RepublishTerminal(p) ==
    /\ proc[p].pc = "publish"
    /\ proc' = [proc EXCEPT
           ![p] = IF RevisionActive(@.conn, @.revision)
                  THEN [@ EXCEPT !.pc = "send"] ELSE Idle]
    /\ UNCHANGED <<ledgerVars, wallet, started, sent,
                   published>>

PublishEvent(p) ==
    /\ proc[p].pc = "send"
    /\ published' = published \cup
           {[event |-> proc[p].event, response |-> proc[p].response]}
    /\ proc' = [proc EXCEPT ![p] = Idle]
    /\ UNCHANGED <<ledgerVars, wallet, started, sent>>

RejectClaim(p) ==
    /\ proc[p].pc = "reject"
    /\ \/ CompleteEvent(p, "rejected", "none", now)
       \/ ~OwnsLease(p, now) /\ DropLease(p)
    /\ proc' = [proc EXCEPT ![p] = Idle]
    /\ UNCHANGED <<registryVars, now, attempts, sequence, wallet, started, sent,
                   published>>

\* retry_claim and release_to_application differ only in what they report.
RetryClaim(p) ==
    /\ proc[p].pc = "retry"
    /\ \/ RetryLater(p, now)
       \/ ~OwnsLease(p, now) /\ DropLease(p)
    /\ proc' = [proc EXCEPT ![p] = Idle]
    /\ UNCHANGED <<registryVars, now, attempts, sequence, wallet, started, sent,
                   published>>

Execute(p) ==
    \/ ClaimStep(p) \/ CheckFreshness(p) \/ Dispatch(p)
    \/ EnsureClaimConnectionActive(p) \/ ExecuteRequest(p)
    \/ LoadPaymentAttempt(p) \/ QuotePayment(p) \/ ReserveStep(p)
    \/ PaymentStatusStep(p) \/ ReleaseStep(p) \/ InitiateStep(p)
    \/ StartPayment(p) \/ AwaitPayment(p) \/ FinishPaymentStatus(p)
    \/ RecordNwcSentPayment(p) \/ Commit(p) \/ RepublishTerminal(p)
    \/ PublishEvent(p) \/ RejectClaim(p) \/ RetryClaim(p)

-----------------------------------------------------------------------------
(* Failures.                                                               *)

\* Mutant: a lost wallet answer counts as a definitive failure.
InterruptedIsFailure(p) ==
    /\ proc[p].pc \in {"start", "await"} /\ FinishWith(p, "failed")
    /\ started' = started \cup {proc[p].event}
    /\ UNCHANGED <<ledgerVars, wallet, sent, published>>

\* Mutant: a lost wallet answer is reported to the client as an error.
InterruptedIsAnswered(p) ==
    /\ proc[p].pc \in {"start", "await"} /\ RespondWithError(p)
    /\ started' = started \cup {proc[p].event}
    /\ UNCHANGED <<ledgerVars, wallet, sent, published>>

\* The deadline passed, the call was cancelled, or the host failed in a way
\* that may be retried.  At `await' the wallet's answer is lost.
Interrupted(p) ==
    /\ \/ /\ proc[p].pc \in {"secret", "direct", "quote", "status",
                             "initiate", "start", "commit"}
          /\ Leave(p, "retry", "none") /\ UNCHANGED started
       \/ /\ proc[p].pc \in {"start", "await"}
          /\ \E kind \in HostErrorKind \ {"Rejected", "NotFound"} :
                 FinishWith(p, StartOutcome(BridgeStartPayment(Err(kind))))
          /\ started' = started \cup {proc[p].event}
       \/ /\ proc[p].pc \in {"publish", "send"}
          /\ proc' = [proc EXCEPT ![p] = Idle] /\ UNCHANGED started
    /\ UNCHANGED <<ledgerVars, wallet, sent, published>>

\* The response cannot be built or is larger than the ledger stores.  A
\* response that is too large keeps its claim until the lease runs out.
ResponseRefused(p) ==
    /\ proc[p].pc = "commit"
    /\ \/ Goto(p, "reject") /\ UNCHANGED lease
       \/ proc' = [proc EXCEPT ![p] = Idle] /\ DropLease(p)
    /\ UNCHANGED <<registryVars, now, events, attempts, sequence, wallet, started, sent,
                   published>>

\* SQLite is busy or unavailable: nothing is written.
LedgerBusy(p) ==
    /\ \/ /\ proc[p].pc \in {"freshness", "check_direct", "check_start",
                             "check_commit", "error", "load_attempt",
                             "reserve", "release", "initiate", "finish",
                             "record", "commit"}
          /\ Leave(p, "retry", "none") /\ UNCHANGED lease
       \/ /\ proc[p].pc \in {"claim", "publish"}
          /\ proc' = [proc EXCEPT ![p] = Idle] /\ UNCHANGED lease
       \/ /\ proc[p].pc \in {"retry", "reject"}
          /\ proc' = [proc EXCEPT ![p] = Idle] /\ DropLease(p)
    /\ UNCHANGED <<registryVars, now, events, attempts, sequence, wallet, started, sent,
                   published>>

\* Mutant: the restarted process still has the lease value.
CrashKeepsLease(p) ==
    /\ proc[p] # Idle
    /\ proc' = [proc EXCEPT ![p] = Idle]
    /\ UNCHANGED <<ledgerVars, wallet, started, sent,
                   published>>

Crash(p) ==
    /\ proc[p] # Idle
    /\ proc' = [proc EXCEPT ![p] = Idle]
    /\ lease' = [lease EXCEPT ![p] = NoLease]
    /\ UNCHANGED <<registryVars, now, events, attempts, sequence, wallet, started, sent,
                   published>>

Fault(p) ==
    /\ faults < MaxFaults /\ faults' = faults + 1
    /\ Interrupted(p) \/ ResponseRefused(p) \/ LedgerBusy(p) \/ Crash(p)
    /\ UNCHANGED <<reconciler, stale, cast>>

-----------------------------------------------------------------------------
(* PaymentReconciler::reconcile.  `todo' is the batch it loaded, `seen'    *)
(* the attempt whose status it asked for.                                  *)

RestingReconciler == [pc |-> "idle", todo |-> {}, seen |-> NoSnapshot,
                      status |-> "unknown"]

\* A batch of due attempts: none left out is ahead of one taken.  Attempts
\* with equal numbers are taken in either order.
Batches(due) ==
    {b \in SUBSET due :
        /\ Cardinality(b) = Sets!Min({Cast.batch, Cardinality(due)})
        /\ \A e \in b, f \in due \ b : sequence[e] <= sequence[f]}

\* Mutant: the legacy filter is missing.
LoadLegacyToo ==
    LET due == {e \in EventIds : Unresolved(e)}
    IN  /\ reconciler.pc = "idle" /\ due # {}
        /\ reconciler' = [RestingReconciler EXCEPT
               !.pc = "next", !.todo = {[Snapshot(attempts[e]) EXCEPT
                                            !.legacy = FALSE] : e \in due}]
        /\ UNCHANGED <<ledgerVars, sent>>

\* Mutant: a batch is taken without moving it behind the others.
LoadUnrotated ==
    /\ reconciler.pc = "idle" /\ Due # {}
    /\ \E batch \in Batches(Due) :
           reconciler' = [RestingReconciler EXCEPT
               !.pc = "next", !.todo = {Snapshot(attempts[e]) : e \in batch}]
    /\ UNCHANGED <<ledgerVars, sent>>

LoadUnresolved ==
    /\ reconciler.pc = "idle" /\ Due # {}
    /\ \E batch \in Batches(Due) :
        /\ reconciler' = [RestingReconciler EXCEPT
               !.pc = "next", !.todo = {Snapshot(attempts[e]) : e \in batch}]
        /\ sequence' = Rotated(Due, batch)
    /\ UNCHANGED <<registryVars, claimVars, attempts, sent>>

\* A prepared reservation is skipped without asking the wallet, an attempt
\* whose status does not decode is deferred.
QueryStatus ==
    /\ reconciler.pc = "next"
    /\ \/ /\ reconciler.todo = {}
          /\ reconciler' = RestingReconciler
       \/ \E s \in reconciler.todo :
              LET rest == [reconciler EXCEPT !.todo = @ \ {s}] IN
              IF s.state = "reserved" /\ s.initiated THEN reconciler' = rest
              ELSE \E report \in Reports(wallet[s.hash].status) :
                  LET answer == BridgePaymentStatus(report) IN
                  reconciler' = IF ~answer.ok THEN rest
                                ELSE [rest EXCEPT !.pc = "apply", !.seen = s,
                                         !.status = answer.value.status]
    /\ UNCHANGED <<ledgerVars, sent>>

\* An accounting error stops the pass.  What is reported pending and not
\* discarded is already stored as pending.
ApplyStatus ==
    LET s == reconciler.seen
        status == reconciler.status
        discard == status # "unknown" /\ ~MayDiscloseSettlement(s)
        settled == ~discard /\ status = "succeeded"
        failed == ~discard /\ status = "failed"
        tracked == TrackedBy(s.hash)
        amount == SettledAmount(s.hash)
    IN  /\ reconciler.pc = "apply"
        /\ \/ /\ \/ /\ discard
                    /\ \E f \in tracked : ReleaseUninitiatedPayment(f, now)
                 \/ /\ settled
                    /\ \E f \in tracked :
                           MarkPaymentSucceeded(f, amount, SettledFee, now)
                 \/ failed /\ \E f \in tracked : MarkPaymentFailed(f, now)
                 \/ /\ ~discard /\ status \in {"unknown", "pending"}
                    /\ UNCHANGED <<registryVars, attempts>>
              /\ reconciler' = [RestingReconciler EXCEPT
                     !.pc = "next", !.todo = reconciler.todo]
           \/ /\ discard \/ settled \/ failed
              /\ \A f \in tracked :
                     CASE discard -> ~ReleaseOk(f, now)
                       [] settled -> ~SucceededOk(f, amount, SettledFee, now)
                       [] OTHER -> ~FailedOk(f, now)
              /\ reconciler' = RestingReconciler
              /\ UNCHANGED <<registryVars, attempts>>
        /\ UNCHANGED <<claimVars, sequence, sent>>

\* Interrupted, or its process dies: the pass just ends.  A status query that
\* fails defers its attempt.
StopReconciler ==
    /\ reconciler.pc # "idle" /\ faults < MaxFaults
    /\ faults' = faults + 1
    /\ \/ reconciler' = RestingReconciler
       \/ /\ reconciler.pc = "apply"
          /\ reconciler' = [RestingReconciler EXCEPT
                 !.pc = "next", !.todo = reconciler.todo]
    /\ UNCHANGED <<ledgerVars, hostVars, proc>>

Reconcile ==
    /\ LoadUnresolved \/ QueryStatus \/ ApplyStatus
    /\ UNCHANGED <<wallet, started, published, stale, cast, proc, faults>>

-----------------------------------------------------------------------------
(* Time and the application.                                               *)

Closer(n) == IF n > 0 THEN n - 1 ELSE 0

\* One second.  Unless processes may be suspended, their deadline ends them
\* before their lease does (lease_duration_for_budget).
Second ==
    /\ \E e \in EventIds : events[e] # NoEvent /\ events[e].available_at > 0
    /\ Cast.outlive \/ \A p \in Processes : Holds(p) => lease[p].until > 1
    /\ events' = [e \in EventIds |->
           IF events[e] = NoEvent THEN NoEvent
           ELSE [events[e] EXCEPT !.available_at = Closer(@)]]
    /\ lease' = [p \in Processes |->
           IF Holds(p) THEN [lease[p] EXCEPT !.until = Closer(@)] ELSE NoLease]
    /\ UNCHANGED <<registryVars, now, attempts, sequence, hostVars, proc, reconciler,
                   faults>>

LeaveFreshnessWindow ==
    /\ \E e \in Cast.woken \ stale : stale' = stale \cup {e}
    /\ UNCHANGED <<ledgerVars, wallet, started, published, sent, cast, proc,
                   reconciler, faults>>

\* prune_terminal with a cutoff that keeps the replay retention, which covers
\* the freshness window (WakePolicy::new).
PruneTerminalRows ==
    /\ Cast.prunes
    /\ \E e \in stale :
        /\ events[e] # NoEvent /\ events[e].state = "terminal"
        /\ events' = [events EXCEPT ![e] = NoEvent]
    /\ UNCHANGED <<registryVars, now, lease, attempts, sequence, hostVars, proc,
                   reconciler, faults>>

Revoke ==
    /\ \E c \in ConnectionIds :
           TombstoneConnection(c, connections[c].revision, now)
    /\ UNCHANGED <<claimVars, attempts, sequence, hostVars, proc, reconciler, faults>>

-----------------------------------------------------------------------------
\* An attempt that was in flight when this behaviour starts.
LeftAttempt(e) ==
    LET r == RequestOf[e]
    IN  [hash |-> r.hash, conn |-> r.conn, revision |-> 0, period |-> 0,
         principal |-> r.principal, fee_reserve |-> MaximumFee[r.conn],
         state |-> "pending", initiated |-> TRUE, legacy |-> e \in LegacyEvents,
         actual_principal |-> 0, actual_fee |-> 0, charged |-> 0,
         exceeded |-> FALSE, updated_at |-> 0]

LeftDebits(c) ==
    SumFunctionOnSet(
        [e \in EventIds |->
            IF e \in LegacyEvents \cup LeftEvents /\ RequestOf[e].conn = c
            THEN Reserved(LeftAttempt(e)) ELSE 0],
        EventIds)

\* Connections are established.  A pre-marker ledger may have left attempts
\* whose payments the wallet made or not, an earlier process attempts whose
\* payments are still pending.
EngineInit ==
    /\ cast \in DOMAIN Casts
    /\ connections = [c \in ConnectionIds |->
           [AbsentConnection EXCEPT !.status = "active"]]
    /\ outbox = [c \in ConnectionIds |-> NoChange]
    /\ attempts = [e \in EventIds |->
           IF e \in LegacyEvents \cup LeftEvents THEN LeftAttempt(e) ELSE NoAttempt]
    /\ sequence = [e \in EventIds |-> 0]
    /\ used = [c \in ConnectionIds |->
           [t \in Time |-> IF t = 0 THEN LeftDebits(c) ELSE 0]]
    /\ now = 0
    /\ events = [e \in EventIds |-> NoEvent]
    /\ lease = [p \in Processes |-> NoLease]
    /\ wallet \in [Hashes -> {NoPayment}
           \cup [status: {"pending", "succeeded", "failed"}, key: LegacyEvents]
           \cup [status: {"pending"}, key: LeftEvents]]
    /\ \A h \in Hashes :
           wallet[h].key \in EventIds => RequestOf[wallet[h].key].hash = h
    /\ \A e \in LeftEvents : wallet[RequestOf[e].hash].key = e
    /\ proc = [p \in Processes |-> Idle]
    /\ reconciler = RestingReconciler
    /\ started = LeftEvents
    /\ published = {} /\ sent = {} /\ stale = {} /\ faults = 0

EngineNext ==
    \/ \E p \in Processes :
           /\ LoadConnection(p) \/ Execute(p)
           /\ UNCHANGED <<reconciler, stale, cast, faults>>
    \/ \E p \in Processes : Fault(p)
    \/ Reconcile \/ StopReconciler
    \/ \E h \in Hashes : WalletSettles(h)
    \/ PayOutside
    \/ Second \/ LeaveFreshnessWindow \/ PruneTerminalRows \/ Revoke

EngineSafety == EngineInit /\ [][EngineNext]_engineVars

(***************************************************************************)
(* A call that is running keeps running, maintenance keeps reconciling,    *)
(* the wallet resolves its payments, and time passes.  Failures are        *)
(* finitely many; nothing forces a wake, a revocation or the end of the    *)
(* freshness window.                                                       *)
(***************************************************************************)
Running(p) == Execute(p) /\ UNCHANGED <<reconciler, stale, cast, faults>>

EngineSpec ==
    /\ EngineSafety
    /\ \A p \in Processes : WF_engineVars(Running(p))
    /\ WF_engineVars(Reconcile)
    /\ \A h \in Hashes : WF_engineVars(h \notin Cast.held /\ WalletSettles(h))
    /\ WF_engineVars(Second)

-----------------------------------------------------------------------------
(***************************************************************************)
(* Type correctness of what the calls keep in memory and of the hosts.     *)
(***************************************************************************)
Statuses == {"unknown", "pending", "succeeded", "failed"}

EngineTypeOK ==
    /\ ClaimsTypeOK /\ AccountingTypeOK
    /\ wallet \in [Hashes -> [status: Statuses,
                             key: EventIds \cup {External, Nobody}]]
    /\ published \subseteq [event: EventIds, response: Responses]
    /\ started \subseteq EventIds
    /\ sent \subseteq EventIds /\ stale \subseteq EventIds
    /\ faults \in 0..MaxFaults
    /\ reconciler.status \in Statuses
    /\ \A p \in Processes : proc[p] # Idle =>
           /\ proc[p].event \in EventIds /\ proc[p].status \in Statuses
           /\ Holds(p) <=> proc[p].pc \notin {"claim", "publish", "send"}

(***************************************************************************)
(* Every payment the wallet has under way or settled for a request is      *)
(* debited to that request: reserved before it was started and not         *)
(* refunded, whatever crashed, was retried or was reconciled meanwhile.    *)
(* docs/security.md: "Payment principal and maximum fee are reserved       *)
(* before payment initiation."  With payments of the same invoice made     *)
(* outside the library it fails.                                           *)
(***************************************************************************)
EveryPaymentIsDebited ==
    ~Cast.outside =>
        \A h \in Hashes :
            Underway(h) /\ wallet[h].key \in EventIds =>
                LET row == attempts[wallet[h].key]
                IN  row.state # "none" /\ row.hash = h /\ row.initiated
                    /\ Contribution(row) > 0

(***************************************************************************)
(* With a wallet that keeps the fee limit, no interleaving of processes,   *)
(* refunds and late settlements spends more than the connection's limit.   *)
(***************************************************************************)
WithinBudget ==
    \A c \in ConnectionIds, t \in Time : used[c][t] <= Limit[c]

(***************************************************************************)
(* The client is told the truth: a payment result is answered only for a   *)
(* settled payment whose debit and sent-payment record are durable, and an *)
(* error only for a payment that is not under way for this request.  This  *)
(* too takes nobody to pay the invoice outside.                            *)
(***************************************************************************)
AnswersAreTrue ==
    \A m \in published :
        LET r == RequestOf[m.event] IN
        r.kind = "pay_invoice" /\ m.event \notin LegacyEvents /\ ~Cast.outside =>
            /\ m.response = "result" =>
                   /\ wallet[r.hash].status = "succeeded"
                   /\ attempts[m.event].state = "succeeded"
                   /\ m.event \in sent
            /\ m.response = "error" =>
                   ~(Underway(r.hash) /\ wallet[r.hash].key = m.event)

(***************************************************************************)
(* A request is answered one way, ever: what any process publishes is the  *)
(* response stored in the event's terminal row, and once that row is       *)
(* pruned the request is too old to be executed again.                     *)
(***************************************************************************)
PublishedIsCommitted ==
    \A m \in published :
        /\ \A n \in published : n.event = m.event => n = m
        /\ m.event \notin stale =>
               events[m.event].state = "terminal" /\ events[m.event].response = m.response

(***************************************************************************)
(* A settlement seen by payment hash alone may belong to an external       *)
(* payer: a result, and with it the preimage, is answered only for a       *)
(* request whose own start_payment call was made, also when a process died *)
(* between the durable initiation marker and that call.                    *)
(***************************************************************************)
DisclosedOnlyAfterStart ==
    \A m \in published :
        RequestOf[m.event].kind = "pay_invoice" /\ m.response = "result"
            => m.event \in started

(***************************************************************************)
(* An attempt an older ledger left in flight is never started again, its   *)
(* debit never moves and its settlement is never disclosed, whatever the   *)
(* wallet reports for its hash to the engine or to the reconciler.         *)
(***************************************************************************)
LegacyStaysClosed ==
    \A e \in LegacyEvents :
        /\ attempts[e] = LeftAttempt(e) /\ e \notin started
        /\ \A m \in published : m.event = e => m.response = "error"

(***************************************************************************)
(* The debit of a payment under way is the one of the request that made    *)
(* it, never the row another request holds for the same payment hash.      *)
(***************************************************************************)
DebitedToRequester ==
    \A h \in Hashes : Underway(h) /\ wallet[h].key \in EventIds =>
                         TrackedBy(h) = {wallet[h].key}

(***************************************************************************)
(* A wallet payment is submitted only by the process that holds the live   *)
(* claim of its event, while no other process is between its checks and    *)
(* its wallet call for the same event.                                     *)
(***************************************************************************)
SubmittedUnderClaim ==
    [][\A h \in Hashes :
          wallet'[h].key # wallet[h].key /\ wallet'[h].key \in EventIds =>
              /\ \E p \in Processes :
                     OwnsLease(p, now) /\ lease[p].event = wallet'[h].key
              /\ Cardinality({p \in Processes :
                     /\ proc[p].pc \in {"initiate", "start", "await"}
                     /\ proc[p].event = wallet'[h].key}) = 1
      ]_engineVars

\* A wake for e starts a call.
Woken(e) == \E p \in Processes : LoadConnection(p) /\ proc'[p].event = e

\* A call composed a response to e, and gives the request up because the
\* response could not be encrypted and signed.
Refused(e) ==
    \E p \in Processes :
        proc[p].pc = "reject" /\ proc[p].event = e /\ proc[p].response # "none"

\* e is open and its freshness recorded, by a call that may have died since.
Accepted(e) ==
    events[e] # NoEvent /\ events[e].fresh /\ events[e].state # "terminal"

(***************************************************************************)
(* A request accepted in its freshness window is answered if wakes for it  *)
(* keep coming, although its calls crash or time out after the window has  *)
(* closed: a dead call's lease runs out, and a retry is not turned away as *)
(* stale.  Only a revocation, a request that cannot be decrypted, or a     *)
(* response that cannot be encrypted, ends it without one.  That wakes     *)
(* keep coming is the condition of the promise: nothing in the library     *)
(* makes them.                                                             *)
(***************************************************************************)
EventuallyAnswered ==
    \A e \in EventIds :
        []<><<Woken(e)>>_engineVars =>
            (Accepted(e) ~> \/ \E m \in published : m.event = e
                            \/ connections[RequestOf[e].conn].status # "active"
                            \/ RequestOf[e].kind = "malformed" \/ Refused(e))

\* The attempt is open although the wallet has resolved its own payment.
Resolvable(e) ==
    IF Exists(e) /\ e \notin LegacyEvents
    THEN LET payment == wallet[attempts[e].hash]
         IN  /\ attempts[e].state = "pending"
             /\ payment.key = e
             /\ payment.status \in {"succeeded", "failed"}
    ELSE FALSE

Resolved(e) == IF Exists(e) THEN attempts[e].state \in {"succeeded", "failed"} ELSE FALSE

(***************************************************************************)
(* A payment the wallet has resolved is settled or refunded in the ledger  *)
(* in the end, even if its connection is revoked meanwhile and however     *)
(* many attempts whose payments stay pending compete for the batches.      *)
(***************************************************************************)
EventuallyReconciled == \A e \in EventIds : Resolvable(e) ~> Resolved(e)
=============================================================================
