---------------------------- MODULE EngineProofs ----------------------------
(***************************************************************************)
(* What concurrent execute calls, the reconciler, the wallet and crashes   *)
(* keep, for every set of requests, processes and hosts.                   *)
(***************************************************************************)
EXTENDS WakeEngine, LedgerProofs

(***************************************************************************)
(* A call keeps what it loaded until it leaves the payment code, and it    *)
(* has a lease from its claim to its commit, reject or retry.              *)
(***************************************************************************)
PayPcs == {"check_start", "status", "release", "initiate", "start", "await",
           "finish", "record"}

WorkPcs == {"freshness", "secret", "check_direct", "direct", "load_attempt",
            "quote", "reserve", "check_commit", "error", "commit", "reject",
            "retry"} \cup PayPcs

AnswerPcs == {"check_commit", "error", "commit", "publish", "send"}

\* Where a call may be whose event was not yet found to be fresh.
EarlyPcs == {"freshness", "reject", "retry"}

Snapshots ==
    [hash: Hashes, state: {"reserved", "pending", "succeeded", "failed"},
     initiated: BOOLEAN, legacy: BOOLEAN]

Calls == [pc: {"claim", "publish", "send"} \cup WorkPcs, event: EventIds,
          conn: ConnectionIds, revision: Nat, seen: Snapshots \cup {NoSnapshot},
          status: Statuses, response: Responses \cup {"none"}]

\* `rs' stands for RequestOf, here and below.
CallOK(rs, w) ==
    /\ w \in Calls
    /\ w.conn = rs[w.event].conn
    /\ w.pc \in PayPcs => w.seen \in Snapshots /\ w.seen.hash = rs[w.event].hash
    /\ w.pc \in AnswerPcs => w.response \in Responses
    /\ w.pc \in PayPcs \cup {"load_attempt", "quote", "reserve"} =>
           rs[w.event].kind = "pay_invoice"

CallsTypeOK ==
    /\ proc \in [Processes -> Calls \cup {Idle}]
    /\ \A p \in Processes :
        /\ proc[p] # Idle => CallOK(RequestOf, proc[p])
        /\ proc[p].pc \in WorkPcs <=> Holds(p)
        /\ Holds(p) => lease[p].event = proc[p].event

PassTypeOK ==
    /\ reconciler \in [pc: {"idle", "next", "apply"}, todo: SUBSET Snapshots,
                       seen: Snapshots \cup {NoSnapshot}, status: Statuses]
    /\ reconciler.pc = "apply" => reconciler.seen \in Snapshots

HostsTypeOK ==
    /\ cast \in DOMAIN Casts
    /\ wallet \in [Hashes -> [status: Statuses,
                             key: EventIds \cup {External, Nobody}]]
    /\ published \subseteq [event: EventIds, response: Responses]
    /\ started \subseteq EventIds
    /\ sent \subseteq EventIds /\ stale \subseteq EventIds
    /\ faults \in 0..MaxFaults

\* What a stored attempt has to do with the request of its event.
RowOK(rs, legacies, e, row) ==
    /\ row.hash = rs[e].hash /\ row.conn = rs[e].conn /\ row.revision = 0
    /\ row.principal = rs[e].principal /\ row.principal > 0
    /\ row.fee_reserve = MaximumFee[row.conn]
    /\ rs[e].kind = "pay_invoice" /\ MayPay[row.conn]
    /\ row.legacy <=> e \in legacies
    /\ row.state # "reserved" => row.initiated
    /\ row.updated_at = 0

RowsOK ==
    /\ \A e \in EventIds : Exists(e) => RowOK(RequestOf, LegacyEvents, e, attempts[e])
    /\ \A e \in LegacyEvents : Exists(e) /\ attempts[e].state # "reserved"

\* The time is relative, and a connection is revoked at most once.
EstablishedOnce ==
    /\ now = 0
    /\ \A c \in ConnectionIds :
           connections[c].status = "active" => connections[c].revision = 0

EngineTypes ==
    /\ ClaimsTypeOK /\ AccountingTypeOK
    /\ HostsTypeOK /\ CallsTypeOK /\ PassTypeOK /\ EstablishedOnce
    /\ RowsOK /\ OneAttemptPerHash

-----------------------------------------------------------------------------
(* What the constants say of a request.                                    *)

LEMMA RequestTypes ==
    ASSUME cast \in DOMAIN Casts
    PROVE  /\ RequestOf \in [EventIds -> Requests]
           /\ \A e \in EventIds :
                  /\ RequestOf[e].conn \in ConnectionIds
                  /\ RequestOf[e].hash \in Hashes
                  /\ RequestOf[e].principal \in Nat
           /\ LegacyEvents \subseteq EventIds /\ LeftEvents \subseteq EventIds
           /\ LegacyEvents \cap LeftEvents = {}
           /\ Cast.woken \subseteq EventIds
           /\ MaxFaults \in Nat
<1> DEFINE c == Casts[cast]
<1>1. /\ c.requests \in [EventIds -> Requests]
      /\ c.legacy \subseteq EventIds /\ c.left \subseteq EventIds \ c.legacy
      /\ c.woken \subseteq EventIds /\ c.faults \in Nat
  BY EngineAssumption
<1>2. \A e \in EventIds : c.requests[e] \in Requests
  BY <1>1
<1>3. RequestOf = c.requests /\ LegacyEvents = c.legacy /\ LeftEvents = c.left
      /\ Cast.woken = c.woken /\ MaxFaults = c.faults
  BY DEF RequestOf, LegacyEvents, LeftEvents, MaxFaults, Cast
<1> HIDE DEF c
<1> QED BY <1>1, <1>2, <1>3 DEF Requests

LEMMA LeftTypes ==
    ASSUME cast \in DOMAIN Casts
    PROVE  \A e \in LegacyEvents \cup LeftEvents :
               /\ RequestOf[e].kind = "pay_invoice" /\ RequestOf[e].principal > 0
               /\ MayPay[RequestOf[e].conn]
               /\ \A f \in LegacyEvents \cup LeftEvents :
                      RequestOf[e].hash = RequestOf[f].hash => e = f
<1> DEFINE c == Casts[cast]
<1>1. \A e \in c.legacy \cup c.left :
          /\ c.requests[e].kind = "pay_invoice" /\ c.requests[e].principal > 0
          /\ MayPay[c.requests[e].conn]
          /\ \A f \in c.legacy \cup c.left :
                 c.requests[e].hash = c.requests[f].hash => e = f
  BY EngineAssumption
<1>2. RequestOf = c.requests /\ LegacyEvents = c.legacy /\ LeftEvents = c.left
  BY DEF RequestOf, LegacyEvents, LeftEvents, Cast
<1> HIDE DEF c
<1> QED BY <1>1, <1>2

\* Requests for one invoice agree on its amount, which is what a settlement
\* of the invoice reports.
LEMMA SettledAmountOf ==
    ASSUME cast \in DOMAIN Casts, NEW e \in EventIds
    PROVE  /\ SettledAmount(RequestOf[e].hash) = 1000 * RequestOf[e].principal
           /\ SettledAmount(RequestOf[e].hash) \in Nat
<1> DEFINE f == CHOOSE x \in EventIds : RequestOf[x].hash = RequestOf[e].hash
<1>1. f \in EventIds /\ RequestOf[f].hash = RequestOf[e].hash
  OBVIOUS
<1>2. \A x, y \in EventIds : Casts[cast].requests[x].hash = Casts[cast].requests[y].hash
          => Casts[cast].requests[x].principal = Casts[cast].requests[y].principal
  BY EngineAssumption
<1>3. RequestOf[f].principal = RequestOf[e].principal
  BY <1>1, <1>2 DEF RequestOf, Cast
<1>4. SettledAmount(RequestOf[e].hash) = 1000 * RequestOf[f].principal
  BY DEF SettledAmount
<1>5. RequestOf[e].principal \in Nat
  BY RequestTypes
<1> QED BY <1>3, <1>4, <1>5

-----------------------------------------------------------------------------
(* How a step changes the local state of a call.                           *)

\* The local state of a call, field by field.
Call(pc, e, c, r, seen, status, response) ==
    [pc |-> pc, event |-> e, conn |-> c, revision |-> r, seen |-> seen,
     status |-> status, response |-> response]

Stepped(p, pc, seen, status, response) ==
    proc' = [proc EXCEPT ![p] =
        Call(pc, proc[p].event, proc[p].conn, proc[p].revision, seen, status,
             response)]

LEMMA GotoSteps ==
    ASSUME NEW p \in Processes, proc[p] \in Calls, NEW pc, Goto(p, pc)
    PROVE  Stepped(p, pc, proc[p].seen, proc[p].status, proc[p].response)
<1>1. proc' = [proc EXCEPT ![p] = [proc[p] EXCEPT !.pc = pc]]
  BY DEF Goto
<1>2. [proc[p] EXCEPT !.pc = pc] =
        Call(pc, proc[p].event, proc[p].conn, proc[p].revision, proc[p].seen,
             proc[p].status, proc[p].response)
  BY DEF Calls, Call
<1> QED BY <1>1, <1>2 DEF Stepped

LEMMA LeaveSteps ==
    ASSUME NEW p \in Processes, proc \in [Processes -> Calls \cup {Idle}],
           proc[p] \in Calls, NEW pc, NEW response, Leave(p, pc, response)
    PROVE  Stepped(p, pc, NoSnapshot, "unknown", response)
<1> DEFINE w == proc[p]
           w1 == [w EXCEPT !.pc = pc]
           w2 == [w1 EXCEPT !.response = response]
           w3 == [w2 EXCEPT !.seen = NoSnapshot]
           w4 == [w3 EXCEPT !.status = "unknown"]
<1>0. proc' = [proc EXCEPT ![p] = w4]
  BY DEF Leave
<1>1. w1 = Call(pc, w.event, w.conn, w.revision, w.seen, w.status, w.response)
  BY DEF Calls, Call
<1> HIDE DEF w1
<1>2. w2 = Call(pc, w.event, w.conn, w.revision, w.seen, w.status, response)
  BY <1>1 DEF Call
<1> HIDE DEF w2
<1>3. w3 = Call(pc, w.event, w.conn, w.revision, NoSnapshot, w.status, response)
  BY <1>2 DEF Call
<1> HIDE DEF w3
<1>4. w4 = Call(pc, w.event, w.conn, w.revision, NoSnapshot, "unknown", response)
  BY <1>3 DEF Call
<1> HIDE DEF w4
<1> QED BY <1>0, <1>4 DEF Stepped

LEMMA FinishSteps ==
    ASSUME NEW p \in Processes, proc \in [Processes -> Calls \cup {Idle}],
           proc[p] \in Calls, NEW status, FinishWith(p, status)
    PROVE  Stepped(p, "finish", proc[p].seen, status, proc[p].response)
<1> DEFINE w == proc[p]
           w1 == [w EXCEPT !.pc = "finish"]
           w2 == [w1 EXCEPT !.status = status]
<1>0. proc' = [proc EXCEPT ![p] = w2]
  BY DEF FinishWith
<1>1. w1 = Call("finish", w.event, w.conn, w.revision, w.seen, w.status, w.response)
  BY DEF Calls, Call
<1> HIDE DEF w1
<1>2. w2 = Call("finish", w.event, w.conn, w.revision, w.seen, status, w.response)
  BY <1>1 DEF Call
<1> HIDE DEF w2
<1> QED BY <1>0, <1>2 DEF Stepped

\* The head of continue_payment, on the attempt it loaded.
LEMMA ContinueSteps ==
    ASSUME NEW p \in Processes, proc \in [Processes -> Calls \cup {Idle}],
           proc[p] \in Calls, NEW attempt \in Snapshots, ContinuePayment(p, attempt)
    PROVE  \/ /\ attempt.legacy \/ attempt.state = "failed"
              /\ Stepped(p, "error", NoSnapshot, "unknown", "error")
           \/ /\ ~attempt.legacy /\ attempt.state = "reserved" /\ attempt.initiated
              /\ Stepped(p, "check_start", attempt, proc[p].status, proc[p].response)
           \/ /\ ~attempt.legacy /\ attempt.state # "failed"
              /\ ~(attempt.state = "reserved" /\ attempt.initiated)
              /\ Stepped(p, "status", attempt, proc[p].status, proc[p].response)
<1>1. CASE attempt.legacy \/ attempt.state = "failed"
  BY <1>1, LeaveSteps DEF ContinuePayment, RespondWithError
<1>2. CASE ~attempt.legacy /\ attempt.state # "failed"
  <2> DEFINE pc == IF attempt.state = "reserved" /\ attempt.initiated
                   THEN "check_start" ELSE "status"
             w == proc[p]
             w1 == [w EXCEPT !.pc = pc]
             w2 == [w1 EXCEPT !.seen = attempt]
  <2>1. proc' = [proc EXCEPT ![p] = w2]
    BY <1>2 DEF ContinuePayment
  <2>2. w1 = Call(pc, w.event, w.conn, w.revision, w.seen, w.status, w.response)
    BY DEF Calls, Call
  <2> HIDE DEF w1
  <2>3. w2 = Call(pc, w.event, w.conn, w.revision, attempt, w.status, w.response)
    BY <2>2 DEF Call
  <2> HIDE DEF w2
  <2>4. Stepped(p, pc, attempt, proc[p].status, proc[p].response)
    BY <2>1, <2>3 DEF Stepped
  <2> HIDE DEF pc
  <2>5. CASE attempt.state = "reserved" /\ attempt.initiated
    <3>1. pc = "check_start"
      BY <2>5 DEF pc
    <3> QED BY <1>2, <2>4, <2>5, <3>1
  <2>6. CASE ~(attempt.state = "reserved" /\ attempt.initiated)
    <3>1. pc = "status"
      BY <2>6 DEF pc
    <3> QED BY <1>2, <2>4, <2>6, <3>1
  <2> QED BY <2>5, <2>6
<1> QED BY <1>1, <1>2

\* What the engine makes of the wallet's answers.
LEMMA RefusalOutcome ==
    ASSUME NEW kind \in HostErrorKind
    PROVE  StartOutcome(BridgeStartPayment(Err(kind))) =
               IF kind \in {"Rejected", "NotFound"} THEN "failed" ELSE "pending"
BY DEF StartOutcome, BridgeStartPayment, Decoded, Err,
       ConfirmsPaymentWasNotSubmitted

LEMMA ReportOutcome ==
    ASSUME NEW status \in Statuses, NEW report \in Reports(status)
    PROVE  /\ BridgePaymentStatus(report).ok =>
                  BridgePaymentStatus(report).value.status = status
           /\ StartOutcome(BridgeStartPayment(report)) \in {status, "failed"}
           /\ ~Cast.undecodable =>
                  StartOutcome(BridgeStartPayment(report)) = status
<1>1. report.ok = TRUE /\ report.value.status = status
      /\ (~Cast.undecodable => report.value.preimage = "valid")
  BY DEF Reports
<1>2. BridgePaymentStatus(report) = report \/ BridgePaymentStatus(report) = Err("Rejected")
  BY DEF BridgePaymentStatus, Decoded
<1>3. BridgeStartPayment(report) = report \/ BridgeStartPayment(report) = Err("Rejected")
  BY DEF BridgeStartPayment, Decoded
<1>4. ~Cast.undecodable => BridgeStartPayment(report) = report
  BY <1>1 DEF BridgeStartPayment, Decoded, DecodesStatus
<1>5. StartOutcome(report) = status
  BY <1>1 DEF StartOutcome
<1>6. StartOutcome(Err("Rejected")) = "failed" /\ Err("Rejected").ok = FALSE
  BY DEF StartOutcome, Err, ConfirmsPaymentWasNotSubmitted
<1> QED BY <1>1, <1>2, <1>3, <1>4, <1>5, <1>6

-----------------------------------------------------------------------------
(* What the accounting calls do to the row they find.                      *)

Kept(old, new) ==
    /\ new.hash = old.hash /\ new.conn = old.conn /\ new.revision = old.revision
    /\ new.principal = old.principal /\ (new.legacy <=> old.legacy)
    /\ new.period = old.period /\ new.fee_reserve = old.fee_reserve
    /\ old.initiated => new.initiated
    /\ new.state # "reserved" => new.initiated
    /\ old.state # "reserved" => new.state # "reserved"
    /\ new.updated_at = 0

RowMarked(f) ==
    /\ f \in EventIds /\ Exists(f)
    /\ attempts[f] \in AttemptRow /\ attempts'[f] \in AttemptRow
    /\ attempts' = [attempts EXCEPT ![f] = attempts'[f]]
    /\ Kept(attempts[f], attempts'[f])
    /\ UNCHANGED <<connections, outbox>>
    /\ used' \in [ConnectionIds -> [Time -> Nat]]

LEMMA SameFunction ==
    ASSUME NEW A, NEW B, NEW f \in [A -> B], NEW x \in A
    PROVE  f = [f EXCEPT ![x] = f[x]]
OBVIOUS

LEMMA InitiatedMarks ==
    ASSUME AccountingTypeOK, RowsOK, now = 0, NEW f \in EventIds,
           MarkPaymentInitiated(f, now)
    PROVE  /\ RowMarked(f) /\ attempts'[f].initiated
           /\ attempts'[f].state = attempts[f].state
           /\ attempts'[f] = attempts[f] \/ attempts[f].state = "reserved"
<1>1. Exists(f) /\ attempts[f] \in AttemptRow
  BY StoredRow DEF MarkPaymentInitiated, InitiatedOk
<1>2. attempts[f].updated_at = 0 /\ (attempts[f].state # "reserved" => attempts[f].initiated)
  BY <1>1 DEF RowsOK, RowOK
<1>3. UNCHANGED registryVars /\ used' \in [ConnectionIds -> [Time -> Nat]]
  BY DEF MarkPaymentInitiated, registryVars, AccountingTypeOK, RegistryTypeOK
<1>4. CASE attempts[f].initiated
  <2>1. attempts' = attempts
    BY <1>4 DEF MarkPaymentInitiated
  <2>2. attempts' = [attempts EXCEPT ![f] = attempts'[f]]
    BY <2>1, SameFunction DEF AccountingTypeOK
  <2> QED BY <1>1, <1>2, <1>3, <1>4, <2>1, <2>2 DEF RowMarked, Kept, registryVars
<1>5. CASE ~attempts[f].initiated
  <2> DEFINE row == [attempts[f] EXCEPT !.initiated = TRUE, !.updated_at = now]
  <2>1. attempts' = [attempts EXCEPT ![f] = row]
    BY <1>5 DEF MarkPaymentInitiated
  <2>2. /\ row \in AttemptRow /\ row.initiated /\ row.state = attempts[f].state
        /\ Kept(attempts[f], row)
    BY <1>1, <1>2, RegistryAssumption DEF AttemptRow, Kept, Time
  <2> HIDE DEF row
  <2>3. attempts'[f] = row
    BY <2>1 DEF AccountingTypeOK
  <2>4. attempts[f].state = "reserved"
    BY <1>1, <1>2, <1>5
  <2>5. RowMarked(f)
    BY <1>1, <1>3, <2>1, <2>2, <2>3 DEF RowMarked, registryVars
  <2> QED BY <2>2, <2>3, <2>4, <2>5
<1> QED BY <1>4, <1>5

LEMMA PendingMarks ==
    ASSUME AccountingTypeOK, RowsOK, now = 0, NEW f \in EventIds,
           MarkPaymentPending(f, now)
    PROVE  /\ RowMarked(f) /\ attempts'[f].initiated /\ attempts[f].initiated
           /\ attempts'[f].state = "pending"
           /\ attempts[f].state \in {"reserved", "pending"}
<1>1. Exists(f) /\ attempts[f] \in AttemptRow /\ attempts[f].initiated
      /\ attempts[f].state \in {"reserved", "pending"}
  BY StoredRow DEF MarkPaymentPending, PendingOk, Unresolved, Exists
<1>2. attempts[f].updated_at = 0
  BY <1>1 DEF RowsOK, RowOK
<1>3. UNCHANGED registryVars /\ used' \in [ConnectionIds -> [Time -> Nat]]
  BY DEF MarkPaymentPending, registryVars, AccountingTypeOK, RegistryTypeOK
<1>4. CASE attempts[f].state = "pending"
  <2>1. attempts' = attempts
    BY <1>4 DEF MarkPaymentPending
  <2>2. attempts' = [attempts EXCEPT ![f] = attempts'[f]]
    BY <2>1, SameFunction DEF AccountingTypeOK
  <2> QED BY <1>1, <1>2, <1>3, <1>4, <2>1, <2>2 DEF RowMarked, Kept, registryVars
<1>5. CASE attempts[f].state # "pending"
  <2> DEFINE row == [attempts[f] EXCEPT !.state = "pending", !.updated_at = now]
  <2>1. attempts' = [attempts EXCEPT ![f] = row]
    BY <1>5 DEF MarkPaymentPending
  <2>2. /\ row \in AttemptRow /\ row.initiated /\ row.state = "pending"
        /\ Kept(attempts[f], row)
    BY <1>1, <1>2, RegistryAssumption DEF AttemptRow, Kept, Time
  <2> HIDE DEF row
  <2>3. attempts'[f] = row
    BY <2>1 DEF AccountingTypeOK
  <2> QED BY <1>1, <1>3, <2>1, <2>2, <2>3 DEF RowMarked, registryVars
<1> QED BY <1>4, <1>5

LEMMA FailedMarks ==
    ASSUME AccountingTypeOK, RowsOK, now = 0, NEW f \in EventIds,
           MarkPaymentFailed(f, now)
    PROVE  /\ RowMarked(f) /\ attempts'[f].initiated /\ attempts[f].initiated
           /\ attempts'[f].state = "failed" /\ attempts[f].state # "succeeded"
<1>0. now \in Time
  BY RegistryAssumption DEF Time
<1>1. Exists(f) /\ attempts[f] \in AttemptRow /\ attempts[f].initiated
      /\ attempts[f].state # "succeeded"
  BY StoredRow DEF MarkPaymentFailed, FailedOk
<1>2. attempts[f].updated_at = 0
  BY <1>1 DEF RowsOK, RowOK
<1>3. UNCHANGED <<connections, outbox>> /\ used' \in [ConnectionIds -> [Time -> Nat]]
  BY <1>0, FailedType DEF MarkPaymentFailed, AccountingTypeOK, RegistryTypeOK
<1>4. CASE attempts[f].state = "failed" /\ UNCHANGED <<used, attempts>>
  <2>1. attempts' = [attempts EXCEPT ![f] = attempts'[f]]
    BY <1>4, SameFunction DEF AccountingTypeOK
  <2> QED BY <1>1, <1>2, <1>3, <1>4, <2>1 DEF RowMarked, Kept
<1>5. CASE Unresolved(f) /\ attempts' = [attempts EXCEPT ![f] =
                 [@ EXCEPT !.state = "failed", !.updated_at = now]]
  <2> DEFINE row == [attempts[f] EXCEPT !.state = "failed", !.updated_at = now]
  <2>1. attempts' = [attempts EXCEPT ![f] = row]
    BY <1>5
  <2>2. /\ row \in AttemptRow /\ row.initiated /\ row.state = "failed"
        /\ Kept(attempts[f], row)
    BY <1>1, <1>2, RegistryAssumption DEF AttemptRow, Kept, Time
  <2> HIDE DEF row
  <2>3. attempts'[f] = row
    BY <2>1 DEF AccountingTypeOK
  <2> QED BY <1>1, <1>3, <2>1, <2>2, <2>3 DEF RowMarked
<1> QED BY <1>4, <1>5 DEF MarkPaymentFailed

LEMMA SucceededMarks ==
    ASSUME AccountingTypeOK, RowsOK, now = 0, NEW f \in EventIds,
           NEW principal \in Nat, NEW fee \in Nat,
           MarkPaymentSucceeded(f, principal, fee, now)
    PROVE  /\ RowMarked(f) /\ attempts'[f].initiated /\ attempts[f].initiated
           /\ attempts'[f].state = "succeeded"
           /\ \/ attempts'[f] = attempts[f]
              \/ attempts'[f].charged = Charged(attempts[f].conn, principal, fee)
<1>0. now \in Time
  BY RegistryAssumption DEF Time
<1>1. Exists(f) /\ attempts[f] \in AttemptRow /\ attempts[f].initiated
  BY StoredRow DEF MarkPaymentSucceeded, SucceededOk
<1>2. attempts[f].updated_at = 0
  BY <1>1 DEF RowsOK, RowOK
<1>3. UNCHANGED <<connections, outbox>> /\ used' \in [ConnectionIds -> [Time -> Nat]]
  BY <1>0, SucceededType DEF MarkPaymentSucceeded, AccountingTypeOK, RegistryTypeOK
<1>4. CASE attempts[f].state = "succeeded" /\ UNCHANGED <<used, attempts>>
  <2>1. attempts' = [attempts EXCEPT ![f] = attempts'[f]]
    BY <1>4, SameFunction DEF AccountingTypeOK
  <2> QED BY <1>1, <1>2, <1>3, <1>4, <2>1 DEF RowMarked, Kept
<1>5. CASE attempts' = [attempts EXCEPT ![f] = Settled(attempts[f], principal, fee, now)]
  <2> DEFINE row == Settled(attempts[f], principal, fee, now)
  <2>2. /\ row \in AttemptRow
        /\ row.charged = Charged(attempts[f].conn, principal, fee)
    BY <1>0, <1>1, SettledRow
  <2>3. /\ row.hash = attempts[f].hash /\ row.conn = attempts[f].conn
        /\ row.revision = attempts[f].revision
        /\ row.principal = attempts[f].principal
        /\ row.legacy <=> attempts[f].legacy
        /\ row.period = attempts[f].period
        /\ row.fee_reserve = attempts[f].fee_reserve
        /\ row.initiated <=> attempts[f].initiated
        /\ row.updated_at = now /\ row.state = "succeeded"
    <3> HIDE DEF row
    <3>1. row = Settled(attempts[f], principal, fee, now)
      BY DEF row
    <3> QED BY <1>0, <1>1, <3>1, SettledKeeps
  <2> HIDE DEF row
  <2>4. attempts'[f] = row /\ attempts' = [attempts EXCEPT ![f] = row]
    BY <1>5 DEF AccountingTypeOK, row
  <2>5. Kept(attempts[f], row)
    BY <1>1, <2>3 DEF Kept
  <2> QED BY <1>1, <1>3, <2>2, <2>3, <2>4, <2>5 DEF RowMarked
<1> QED BY <1>0, <1>4, <1>5, SucceededCases

-----------------------------------------------------------------------------
(* What a call's step does to its claim and to its answer.                 *)

\* The call goes on under its claim and writes nothing that others see.
Inner(p) ==
    /\ proc[p].pc \in WorkPcs
    /\ \E w \in Calls :
        /\ proc' = [proc EXCEPT ![p] = w] /\ CallOK(RequestOf, w)
        /\ w.event = proc[p].event /\ w.revision = proc[p].revision
        /\ w.pc \in WorkPcs
        /\ proc[p].pc \in EarlyPcs => w.pc \in {"reject", "retry"}
    /\ UNCHANGED <<events, lease, published>>

Begins(p) ==
    /\ proc[p] = Idle
    /\ \E w \in Calls :
        /\ proc' = [proc EXCEPT ![p] = w] /\ CallOK(RequestOf, w)
        /\ w.pc = "claim" /\ w.response = "none"
    /\ UNCHANGED <<events, lease, published>>

Acquires(p) ==
    /\ proc[p].pc = "claim"
    /\ \E d \in Leases :
           ClaimEvent(p, proc[p].event, proc[p].conn, proc[p].revision, now, d)
    /\ Stepped(p, IF lease'[p].fresh THEN "secret" ELSE "freshness", proc[p].seen,
               proc[p].status, proc[p].response)
    /\ UNCHANGED published

Replays(p) ==
    /\ proc[p].pc = "claim" /\ events[proc[p].event] # NoEvent
    /\ events[proc[p].event].state = "terminal"
    /\ events[proc[p].event].response # "none"
    /\ Stepped(p, "publish", proc[p].seen, proc[p].status,
               events[proc[p].event].response)
    /\ UNCHANGED <<events, lease, published>>

Accepts(p) ==
    /\ proc[p].pc = "freshness" /\ proc[p].event \notin stale
    /\ AcceptEventFreshness(p, now)
    /\ Stepped(p, "secret", proc[p].seen, proc[p].status, proc[p].response)
    /\ UNCHANGED published

Commits(p) ==
    /\ proc[p].pc = "commit"
    /\ CompleteEventForActiveConnection(p, proc[p].conn, proc[p].revision,
                                        proc[p].response, now)
    /\ Stepped(p, "publish", proc[p].seen, proc[p].status, proc[p].response)
    /\ UNCHANGED published

Rejects(p) ==
    /\ proc[p].pc = "reject" /\ CompleteEvent(p, "rejected", "none", now)
    /\ proc' = [proc EXCEPT ![p] = Idle] /\ UNCHANGED published

Retries(p) ==
    /\ proc[p].pc = "retry" /\ RetryLater(p, now)
    /\ proc' = [proc EXCEPT ![p] = Idle] /\ UNCHANGED published

Ends(p) ==
    /\ proc[p] # Idle
    /\ proc' = [proc EXCEPT ![p] = Idle]
    /\ lease' = [lease EXCEPT ![p] = NoLease]
    /\ UNCHANGED <<events, published>>

Sends(p) ==
    /\ proc[p].pc = "publish"
    /\ Stepped(p, "send", proc[p].seen, proc[p].status, proc[p].response)
    /\ UNCHANGED <<events, lease, published>>

Publishes(p) ==
    /\ proc[p].pc = "send"
    /\ published' = published \cup
           {[event |-> proc[p].event, response |-> proc[p].response]}
    /\ proc' = [proc EXCEPT ![p] = Idle]
    /\ UNCHANGED <<events, lease>>

CallStep(p) ==
    \/ Inner(p) \/ Begins(p) \/ Acquires(p) \/ Replays(p) \/ Accepts(p)
    \/ Commits(p) \/ Rejects(p) \/ Retries(p) \/ Ends(p) \/ Sends(p)
    \/ Publishes(p)

LEMMA RunningCall ==
    ASSUME EngineTypes, NEW p \in Processes, proc[p].pc # "idle"
    PROVE  /\ proc[p] \in Calls /\ CallOK(RequestOf, proc[p])
           /\ proc \in [Processes -> Calls \cup {Idle}]
           /\ proc[p].event \in EventIds /\ HashOf(p) \in Hashes
           /\ Request(p) = RequestOf[proc[p].event]
           /\ HashOf(p) = RequestOf[proc[p].event].hash
<1>1. /\ proc \in [Processes -> Calls \cup {Idle}]
      /\ proc[p] # Idle => CallOK(RequestOf, proc[p])
  BY DEF EngineTypes, CallsTypeOK
<1>2. proc[p] # Idle
  BY DEF Idle
<1>3. cast \in DOMAIN Casts
  BY DEF EngineTypes, HostsTypeOK
<1>4. proc[p] \in Calls /\ proc[p].event \in EventIds
  BY <1>1, <1>2 DEF CallOK, Calls
<1> QED BY <1>1, <1>2, <1>3, <1>4, RequestTypes DEF HashOf, Request

LEMMA InnerStep ==
    ASSUME EngineTypes, NEW p \in Processes, NEW pc \in WorkPcs,
           NEW seen \in Snapshots \cup {NoSnapshot}, NEW status \in Statuses,
           NEW response \in Responses \cup {"none"},
           proc[p].pc \in WorkPcs,
           Stepped(p, pc, seen, status, response),
           pc \in PayPcs => seen \in Snapshots /\ seen.hash = HashOf(p),
           pc \in AnswerPcs => response \in Responses,
           pc \in PayPcs \cup {"load_attempt", "quote", "reserve"} =>
               Request(p).kind = "pay_invoice",
           proc[p].pc \in EarlyPcs => pc \in {"reject", "retry"},
           UNCHANGED <<events, lease, published>>
    PROVE  Inner(p)
<1> DEFINE w == Call(pc, proc[p].event, proc[p].conn, proc[p].revision, seen, status,
                     response)
<1>1. proc[p].pc # "idle"
  BY DEF WorkPcs, EarlyPcs, PayPcs
<1>2. proc[p] \in Calls /\ CallOK(RequestOf, proc[p])
      /\ Request(p) = RequestOf[proc[p].event]
      /\ HashOf(p) = RequestOf[proc[p].event].hash
  BY <1>1, RunningCall
<1>3. /\ w.pc = pc /\ w.event = proc[p].event /\ w.conn = proc[p].conn
      /\ w.revision = proc[p].revision /\ w.seen = seen /\ w.response = response
  BY DEF Call
<1>4. w \in Calls
  BY <1>2 DEF Call, Calls
<1>5. proc' = [proc EXCEPT ![p] = w]
  BY DEF Stepped
<1> HIDE DEF w
<1>6. CallOK(RequestOf, w)
  BY <1>2, <1>3, <1>4 DEF CallOK
<1> QED BY <1>3, <1>4, <1>5, <1>6 DEF Inner

\* Steps that keep what the call loaded, and steps that drop it.
LEMMA InnerGoto ==
    ASSUME EngineTypes, NEW p \in Processes, NEW pc \in WorkPcs,
           proc[p].pc \in WorkPcs, proc[p].pc \notin EarlyPcs, Goto(p, pc),
           pc \in PayPcs => proc[p].pc \in PayPcs,
           pc \in AnswerPcs => proc[p].pc \in AnswerPcs,
           pc \in {"load_attempt", "quote", "reserve"} =>
               Request(p).kind = "pay_invoice",
           UNCHANGED <<events, lease, published>>
    PROVE  Inner(p)
<1>1. proc[p].pc # "idle"
  BY DEF WorkPcs, EarlyPcs, PayPcs
<1>2. proc[p] \in Calls /\ CallOK(RequestOf, proc[p])
      /\ Request(p) = RequestOf[proc[p].event]
      /\ HashOf(p) = RequestOf[proc[p].event].hash
  BY <1>1, RunningCall
<1>3. Stepped(p, pc, proc[p].seen, proc[p].status, proc[p].response)
  BY <1>2, GotoSteps
<1>4. /\ proc[p].seen \in Snapshots \cup {NoSnapshot} /\ proc[p].status \in Statuses
      /\ proc[p].response \in Responses \cup {"none"}
  BY <1>2 DEF Calls
<1>5. pc \in PayPcs => proc[p].seen \in Snapshots /\ proc[p].seen.hash = HashOf(p)
                       /\ Request(p).kind = "pay_invoice"
  BY <1>2 DEF CallOK
<1>6. pc \in AnswerPcs => proc[p].response \in Responses
  BY <1>2 DEF CallOK
<1> QED BY <1>3, <1>4, <1>5, <1>6, InnerStep

LEMMA InnerLeave ==
    ASSUME EngineTypes, NEW p \in Processes,
           NEW pc \in {"reject", "retry", "error", "check_commit"},
           NEW response \in Responses \cup {"none"},
           proc[p].pc \in WorkPcs, Leave(p, pc, response),
           pc \in {"error", "check_commit"} =>
               response \in Responses /\ proc[p].pc \notin EarlyPcs,
           UNCHANGED <<events, lease, published>>
    PROVE  Inner(p)
<1>1. proc[p].pc # "idle"
  BY DEF WorkPcs, EarlyPcs, PayPcs
<1>2. proc[p] \in Calls /\ proc \in [Processes -> Calls \cup {Idle}]
  BY <1>1, RunningCall
<1>3. Stepped(p, pc, NoSnapshot, "unknown", response)
  BY <1>2, LeaveSteps
<1>4. "unknown" \in Statuses /\ NoSnapshot \in Snapshots \cup {NoSnapshot}
      /\ pc \in WorkPcs /\ pc \notin PayPcs \cup {"load_attempt", "quote", "reserve"}
      /\ (pc \in AnswerPcs => pc \in {"error", "check_commit"})
  BY DEF Statuses, WorkPcs, EarlyPcs, PayPcs, AnswerPcs
<1> QED BY <1>3, <1>4, InnerStep

LEMMA InnerError ==
    ASSUME EngineTypes, NEW p \in Processes, proc[p].pc \in WorkPcs,
           proc[p].pc \notin EarlyPcs, RespondWithError(p),
           UNCHANGED <<events, lease, published>>
    PROVE  Inner(p)
<1>1. "error" \in Responses
  BY EngineAssumption
<1> QED BY <1>1, InnerLeave DEF RespondWithError

LEMMA InnerFinish ==
    ASSUME EngineTypes, NEW p \in Processes, NEW status \in Statuses,
           proc[p].pc \in PayPcs, FinishWith(p, status),
           UNCHANGED <<events, lease, published>>
    PROVE  Inner(p)
<1>1. proc[p].pc # "idle" /\ proc[p].pc \notin EarlyPcs /\ proc[p].pc \in WorkPcs
      /\ "finish" \in WorkPcs /\ "finish" \in PayPcs /\ "finish" \notin AnswerPcs
  BY DEF WorkPcs, EarlyPcs, PayPcs, AnswerPcs
<1>2. proc[p] \in Calls /\ CallOK(RequestOf, proc[p])
      /\ proc \in [Processes -> Calls \cup {Idle}]
      /\ Request(p) = RequestOf[proc[p].event]
      /\ HashOf(p) = RequestOf[proc[p].event].hash
  BY <1>1, RunningCall
<1>3. Stepped(p, "finish", proc[p].seen, status, proc[p].response)
  BY <1>2, FinishSteps
<1>4. /\ proc[p].seen \in Snapshots /\ proc[p].response \in Responses \cup {"none"}
      /\ proc[p].seen.hash = HashOf(p) /\ Request(p).kind = "pay_invoice"
  BY <1>1, <1>2 DEF Calls, CallOK
<1> QED BY <1>1, <1>3, <1>4, InnerStep

LEMMA InnerContinue ==
    ASSUME EngineTypes, NEW p \in Processes, NEW attempt \in Snapshots,
           attempt.hash = HashOf(p), proc[p].pc \in {"load_attempt", "reserve"},
           ContinuePayment(p, attempt), UNCHANGED <<events, lease, published>>
    PROVE  Inner(p)
<1>1. proc[p].pc # "idle" /\ proc[p].pc \notin EarlyPcs /\ proc[p].pc \in WorkPcs
      /\ {"check_start", "status"} \subseteq WorkPcs
      /\ {"check_start", "status"} \subseteq PayPcs /\ "error" \in WorkPcs
      /\ "error" \notin PayPcs \cup {"load_attempt", "quote", "reserve"}
      /\ {"check_start", "status"} \cap AnswerPcs = {}
  BY DEF WorkPcs, EarlyPcs, PayPcs, AnswerPcs
<1>2. proc[p] \in Calls /\ CallOK(RequestOf, proc[p])
      /\ proc \in [Processes -> Calls \cup {Idle}]
      /\ Request(p) = RequestOf[proc[p].event]
  BY <1>1, RunningCall
<1>3. /\ proc[p].status \in Statuses /\ proc[p].response \in Responses \cup {"none"}
      /\ Request(p).kind = "pay_invoice" /\ "unknown" \in Statuses
      /\ "error" \in Responses
  BY <1>1, <1>2, EngineAssumption DEF Calls, CallOK, Statuses
<1>4. \/ Stepped(p, "error", NoSnapshot, "unknown", "error")
      \/ Stepped(p, "check_start", attempt, proc[p].status, proc[p].response)
      \/ Stepped(p, "status", attempt, proc[p].status, proc[p].response)
  BY <1>2, ContinueSteps
<1>5. CASE Stepped(p, "error", NoSnapshot, "unknown", "error")
  BY <1>1, <1>3, <1>5, InnerStep
<1>6. CASE Stepped(p, "check_start", attempt, proc[p].status, proc[p].response)
  BY <1>1, <1>3, <1>6, InnerStep
<1>7. CASE Stepped(p, "status", attempt, proc[p].status, proc[p].response)
  BY <1>1, <1>3, <1>7, InnerStep
<1> QED BY <1>4, <1>5, <1>6, <1>7

\* A call that has no claim ends without one.
LEMMA EndsWithoutClaim ==
    ASSUME EngineTypes, NEW p \in Processes, proc[p].pc \in {"claim", "publish", "send"},
           proc' = [proc EXCEPT ![p] = Idle], UNCHANGED <<events, lease, published>>
    PROVE  Ends(p)
<1>1. proc[p] # Idle /\ proc[p].pc \notin WorkPcs
  BY DEF Idle, WorkPcs, EarlyPcs, PayPcs
<1>2. lease[p] = NoLease /\ lease \in [Processes -> LeaseRecord \cup {NoLease}]
  BY <1>1 DEF EngineTypes, CallsTypeOK, Holds, ClaimsTypeOK
<1>3. lease = [lease EXCEPT ![p] = NoLease]
  BY <1>2, SameFunction
<1> QED BY <1>1, <1>3 DEF Ends

LEMMA EndsWithClaim ==
    ASSUME NEW p \in Processes, proc[p].pc \in WorkPcs, DropLease(p),
           proc' = [proc EXCEPT ![p] = Idle], UNCHANGED published
    PROVE  Ends(p)
<1>1. proc[p] # Idle
  BY DEF Idle, WorkPcs, EarlyPcs, PayPcs
<1> QED BY <1>1 DEF Ends, DropLease

\* The call sites, in the order of execute.
LEMMA ClaimCallStep ==
    ASSUME EngineTypes, NEW p \in Processes, LoadConnection(p) \/ ClaimStep(p)
    PROVE  CallStep(p)
<1>1. CASE LoadConnection(p)
  <2>1. PICK e \in Cast.woken :
            LET c == RequestOf[e].conn IN
            proc' = [proc EXCEPT ![p] =
               [pc |-> "claim", event |-> e, conn |-> c,
                revision |-> connections[c].revision, seen |-> NoSnapshot,
                status |-> "unknown", response |-> "none"]]
    BY <1>1 DEF LoadConnection
  <2> DEFINE c == RequestOf[e].conn
             w == Call("claim", e, c, connections[c].revision, NoSnapshot, "unknown",
                       "none")
  <2>2. cast \in DOMAIN Casts
    BY DEF EngineTypes, HostsTypeOK
  <2>3. e \in EventIds /\ c \in ConnectionIds
    BY <2>1, <2>2, RequestTypes
  <2>4. connections[c] \in ConnectionRow
    BY <2>3 DEF EngineTypes, ClaimsTypeOK, RegistryTypeOK
  <2>5. connections[c].revision \in Nat
    BY <2>4 DEF ConnectionRow
  <2>6. proc' = [proc EXCEPT ![p] = w]
    BY <2>1 DEF Call
  <2>7. w \in Calls /\ w.pc = "claim" /\ w.response = "none"
        /\ w.event = e /\ w.conn = c
    BY <2>3, <2>5 DEF Call, Calls, Statuses
  <2> HIDE DEF w
  <2>8. CallOK(RequestOf, w)
    BY <2>7 DEF CallOK, PayPcs, AnswerPcs
  <2>9. UNCHANGED <<events, lease, published>> /\ proc[p] = Idle
    BY <1>1 DEF LoadConnection, ledgerVars, claimVars
  <2>10. Begins(p)
    BY <2>6, <2>7, <2>8, <2>9 DEF Begins
  <2> QED BY <2>10 DEF CallStep
<1>2. CASE ClaimStep(p)
  <2> DEFINE w == proc[p]
             outcome == ClaimOutcome(w.event, w.conn, w.revision, now)
  <2>1. w.pc = "claim" /\ UNCHANGED published
    BY <1>2 DEF ClaimStep
  <2>2. w \in Calls /\ w.event \in EventIds
    BY <2>1, RunningCall
  <2>3. CASE /\ \E d \in Leases :
                     ClaimEvent(p, w.event, w.conn, w.revision, now, d)
             /\ Goto(p, IF lease'[p].fresh THEN "secret" ELSE "freshness")
    BY <2>1, <2>2, <2>3, GotoSteps DEF Acquires, CallStep
  <2>4. CASE /\ outcome = "terminal"
             /\ proc' = [proc EXCEPT
                     ![p] = IF events[w.event].response = "none" THEN Idle
                            ELSE [w EXCEPT !.pc = "publish",
                                     !.response = events[w.event].response]]
             /\ UNCHANGED <<events, lease>>
    <3>0. outcome = "terminal"
      BY <2>4
    <3>1. events[w.event] # NoEvent /\ events[w.event].state = "terminal"
      BY <3>0 DEF ClaimOutcome, NoEvent
    <3>2. CASE events[w.event].response = "none"
      <4>1. proc' = [proc EXCEPT ![p] = Idle]
        BY <2>4, <3>2
      <4> QED BY <2>1, <2>4, <4>1, EndsWithoutClaim DEF CallStep
    <3>3. CASE events[w.event].response # "none"
      <4> DEFINE r == events[w.event].response
                 w1 == [w EXCEPT !.pc = "publish"]
                 w2 == [w1 EXCEPT !.response = r]
      <4>1. proc' = [proc EXCEPT ![p] = w2]
        BY <2>4, <3>3
      <4>2. w1 = Call("publish", w.event, w.conn, w.revision, w.seen, w.status,
                      w.response)
        BY <2>2 DEF Calls, Call
      <4> HIDE DEF w1
      <4>3. w2 = Call("publish", w.event, w.conn, w.revision, w.seen, w.status, r)
        BY <4>2 DEF Call
      <4> HIDE DEF w2
      <4>4. Stepped(p, "publish", w.seen, w.status, r)
        BY <4>1, <4>3 DEF Stepped
      <4> QED BY <2>1, <2>4, <3>1, <3>3, <4>4 DEF Replays, CallStep
    <3> QED BY <3>2, <3>3
  <2>5. CASE /\ outcome \in {"in_progress", "mismatch"}
             /\ proc' = [proc EXCEPT ![p] = Idle]
             /\ UNCHANGED <<events, lease>>
    BY <2>1, <2>5, EndsWithoutClaim DEF CallStep
  <2> QED BY <1>2, <2>3, <2>4, <2>5 DEF ClaimStep
<1> QED BY <1>1, <1>2

LEMMA DispatchCallStep ==
    ASSUME EngineTypes, NEW p \in Processes,
           \/ CheckFreshness(p) \/ Dispatch(p) \/ EnsureClaimConnectionActive(p)
           \/ ExecuteRequest(p)
    PROVE  CallStep(p)
<1>0. "result" \in Responses /\ "error" \in Responses
  BY EngineAssumption
<1>1. CASE CheckFreshness(p)
  <2>1. proc[p].pc = "freshness" /\ UNCHANGED published
    BY <1>1 DEF CheckFreshness
  <2>2. proc[p].pc \in WorkPcs /\ proc[p] \in Calls
    BY <2>1, RunningCall DEF WorkPcs, EarlyPcs
  <2>3. CASE proc[p].event \in stale
    <3>1. Leave(p, "reject", "none") /\ UNCHANGED <<events, lease>>
      BY <1>1, <2>3 DEF CheckFreshness
    <3>2. Inner(p)
      BY <2>1, <2>2, <3>1, InnerLeave
    <3> QED BY <3>2 DEF CallStep
  <2>4. CASE proc[p].event \notin stale /\ OwnsLease(p, now)
    <3>1. AcceptEventFreshness(p, now) /\ Goto(p, "secret")
      BY <1>1, <2>4 DEF CheckFreshness
    <3>2. Stepped(p, "secret", proc[p].seen, proc[p].status, proc[p].response)
      BY <2>2, <3>1, GotoSteps
    <3> QED BY <2>1, <2>4, <3>1, <3>2 DEF Accepts, CallStep
  <2>5. CASE proc[p].event \notin stale /\ ~OwnsLease(p, now)
    <3>1. Leave(p, "retry", "none") /\ UNCHANGED <<events, lease>>
      BY <1>1, <2>5 DEF CheckFreshness
    <3>2. Inner(p)
      BY <2>1, <2>2, <3>1, InnerLeave
    <3> QED BY <3>2 DEF CallStep
  <2> QED BY <2>3, <2>4, <2>5
<1>2. CASE Dispatch(p)
  <2>1. proc[p].pc = "secret" /\ UNCHANGED <<events, lease, published>>
    BY <1>2 DEF Dispatch, ledgerVars, claimVars
  <2>2. proc[p].pc \in WorkPcs \ EarlyPcs /\ {"check_direct", "load_attempt"} \subseteq WorkPcs
        /\ {"check_direct", "load_attempt"} \cap (PayPcs \cup AnswerPcs) = {}
    BY <2>1 DEF WorkPcs, EarlyPcs, PayPcs, AnswerPcs
  <2>3. cast \in DOMAIN Casts /\ Request(p) \in Requests
    BY <2>1, RunningCall, RequestTypes DEF EngineTypes, HostsTypeOK
  <2>4. Request(p).kind \in {"malformed", "direct", "pay_invoice"}
    BY <2>3 DEF Requests
  <2>5. \/ Leave(p, "reject", "none")
        \/ Goto(p, "check_direct")
        \/ Request(p).kind = "pay_invoice" /\ Goto(p, "load_attempt")
        \/ RespondWithError(p)
    BY <1>2, <2>4 DEF Dispatch
  <2>6. Inner(p)
    BY <2>1, <2>2, <2>5, InnerLeave, InnerGoto, InnerError
  <2> QED BY <2>6 DEF CallStep
<1>3. CASE EnsureClaimConnectionActive(p)
  <2>1. proc[p].pc \in {"check_direct", "check_start", "check_commit", "error"}
        /\ UNCHANGED <<events, lease, published>>
    BY <1>3 DEF EnsureClaimConnectionActive, ledgerVars, claimVars
  <2>2. proc[p].pc \in WorkPcs /\ proc[p].pc \notin EarlyPcs
    BY <2>1 DEF WorkPcs, EarlyPcs, PayPcs
  <2>3. CASE Leave(p, "reject", "none")
    BY <2>1, <2>2, <2>3, InnerLeave DEF CallStep
  <2>4. CASE Goto(p, AfterCheck(proc[p]))
    <3>1. /\ AfterCheck(proc[p]) \in WorkPcs \ {"load_attempt", "quote", "reserve"}
          /\ AfterCheck(proc[p]) \in PayPcs => proc[p].pc \in PayPcs
          /\ AfterCheck(proc[p]) \in AnswerPcs => proc[p].pc \in AnswerPcs
      BY <2>1 DEF AfterCheck, WorkPcs, EarlyPcs, PayPcs, AnswerPcs
    <3>2. Inner(p)
      BY <2>1, <2>2, <2>4, <3>1, InnerGoto
    <3> QED BY <3>2 DEF CallStep
  <2> QED BY <1>3, <2>3, <2>4 DEF EnsureClaimConnectionActive
<1>4. CASE ExecuteRequest(p)
  <2>1. proc[p].pc = "direct" /\ UNCHANGED <<events, lease, published>>
    BY <1>4 DEF ExecuteRequest, ledgerVars, claimVars
  <2>2. proc[p].pc \in WorkPcs /\ proc[p].pc \notin EarlyPcs
    BY <2>1 DEF WorkPcs, EarlyPcs, PayPcs
  <2>3. Leave(p, "check_commit", "result") \/ RespondWithError(p)
    BY <1>4 DEF ExecuteRequest
  <2>4. Inner(p)
    BY <1>0, <2>1, <2>2, <2>3, InnerLeave, InnerError
  <2> QED BY <2>4 DEF CallStep
<1> QED BY <1>1, <1>2, <1>3, <1>4

\* What LoadPaymentAttempt and reserve_payment hand to continue_payment.
LEMMA SnapshotOf ==
    ASSUME NEW row \in AttemptRow
    PROVE  /\ Snapshot(row) \in Snapshots /\ Snapshot(row).hash = row.hash
           /\ Snapshot(row).state = row.state
           /\ Snapshot(row).initiated <=> row.initiated
           /\ Snapshot(row).legacy <=> row.legacy
BY DEF Snapshot, Snapshots, AttemptRow

LEMMA PaymentCallStep ==
    ASSUME EngineTypes, NEW p \in Processes,
           \/ LoadPaymentAttempt(p) \/ QuotePayment(p) \/ ReserveStep(p)
           \/ PaymentStatusStep(p) \/ ReleaseStep(p) \/ InitiateStep(p)
    PROVE  CallStep(p)
<1>0. AccountingTypeOK /\ RowsOK /\ cast \in DOMAIN Casts
  BY DEF EngineTypes, HostsTypeOK
<1>1. CASE LoadPaymentAttempt(p)
  <2> DEFINE w == proc[p]
             row == attempts[w.event]
  <2>1. w.pc = "load_attempt" /\ UNCHANGED <<events, lease, published>>
    BY <1>1 DEF LoadPaymentAttempt, ledgerVars, claimVars
  <2>2. w.pc \in WorkPcs /\ w.pc \notin EarlyPcs /\ "quote" \in WorkPcs
        /\ "quote" \notin PayPcs /\ "quote" \notin AnswerPcs
    BY <2>1 DEF WorkPcs, EarlyPcs, PayPcs, AnswerPcs
  <2>3. w.event \in EventIds /\ CallOK(RequestOf, w) /\ HashOf(p) = RequestOf[w.event].hash
        /\ Request(p) = RequestOf[w.event]
    BY <2>1, RunningCall
  <2>4. Request(p).kind = "pay_invoice"
    BY <2>1, <2>3 DEF CallOK
  <2>5. CASE ~Exists(w.event)
    <3>1. Goto(p, "quote")
      BY <1>1, <2>5 DEF LoadPaymentAttempt
    <3>2. Inner(p)
      BY <2>1, <2>2, <2>4, <3>1, InnerGoto
    <3> QED BY <3>2 DEF CallStep
  <2>6. CASE Exists(w.event)
    <3>1. row \in AttemptRow /\ row.hash = HashOf(p)
      BY <1>0, <2>3, <2>6, StoredRow DEF RowsOK, RowOK
    <3>2. RespondWithError(p) \/ ContinuePayment(p, Snapshot(row))
      BY <1>1, <2>6 DEF LoadPaymentAttempt
    <3>3. CASE RespondWithError(p)
      BY <2>1, <2>2, <3>3, InnerError DEF CallStep
    <3>4. CASE ContinuePayment(p, Snapshot(row))
      <4>1. Snapshot(row) \in Snapshots /\ Snapshot(row).hash = HashOf(p)
        BY <3>1, SnapshotOf
      <4>2. Inner(p)
        BY <2>1, <3>4, <4>1, InnerContinue
      <4> QED BY <4>2 DEF CallStep
    <3> QED BY <3>2, <3>3, <3>4
  <2> QED BY <2>5, <2>6
<1>2. CASE QuotePayment(p)
  <2>1. proc[p].pc = "quote" /\ UNCHANGED <<events, lease, published>>
        /\ (Goto(p, "reserve") \/ RespondWithError(p))
    BY <1>2 DEF QuotePayment, ledgerVars, claimVars
  <2>2. proc[p].pc \in WorkPcs /\ proc[p].pc \notin EarlyPcs /\ "reserve" \in WorkPcs
        /\ "reserve" \notin PayPcs /\ "reserve" \notin AnswerPcs
    BY <2>1 DEF WorkPcs, EarlyPcs, PayPcs, AnswerPcs
  <2>3. Request(p).kind = "pay_invoice"
    BY <2>1, RunningCall DEF CallOK
  <2>4. Inner(p)
    BY <2>1, <2>2, <2>3, InnerGoto, InnerError
  <2> QED BY <2>4 DEF CallStep
<1>3. CASE ReserveStep(p)
  <2> DEFINE w == proc[p]
             r == Request(p)
             outcome == ReserveOutcome(w.event, r.hash, w.conn, w.revision,
                                       r.principal, now)
  <2>1. w.pc = "reserve" /\ UNCHANGED <<events, lease, published>>
    BY <1>3 DEF ReserveStep, claimVars
  <2>2. w.pc \in WorkPcs /\ w.pc \notin EarlyPcs
    BY <2>1 DEF WorkPcs, EarlyPcs
  <2>3. w \in Calls /\ w.event \in EventIds /\ HashOf(p) \in Hashes
        /\ r = RequestOf[w.event] /\ r.hash = HashOf(p) /\ CallOK(RequestOf, w)
    BY <2>1, RunningCall DEF HashOf
  <2>4. w.conn \in ConnectionIds /\ w.revision \in Nat /\ r.principal \in Nat
    BY <1>0, <2>3, RequestTypes DEF Calls
  <2>5. CASE /\ ReservePayment(w.event, r.hash, w.conn, w.revision, r.principal, now)
             /\ ContinuePayment(p, Snapshot(attempts'[w.event]))
    <3>1. AccountingTypeOK'
      BY <1>0, <2>3, <2>4, <2>5, ReserveType DEF EngineTypes, ClaimsTypeOK
    <3>2. attempts'[w.event].hash = r.hash /\ attempts'[w.event].state = "reserved"
      BY <1>0, <2>3, <2>5 DEF ReservePayment, AccountingTypeOK
    <3>3. attempts'[w.event] \in AttemptRow
      BY <2>3, <3>1, <3>2 DEF AccountingTypeOK, NoAttempt
    <3>4. Snapshot(attempts'[w.event]) \in Snapshots
          /\ Snapshot(attempts'[w.event]).hash = HashOf(p)
      BY <2>3, <3>2, <3>3, SnapshotOf
    <3>5. Inner(p)
      BY <2>1, <2>5, <3>4, InnerContinue
    <3> QED BY <3>5 DEF CallStep
  <2>6. CASE outcome = "existing" /\ ContinuePayment(p, Snapshot(attempts[w.event]))
    <3>1. Exists(w.event)
      BY <2>6 DEF ReserveOutcome
    <3>2. attempts[w.event] \in AttemptRow /\ attempts[w.event].hash = HashOf(p)
      BY <1>0, <2>3, <3>1, StoredRow DEF RowsOK, RowOK
    <3>3. Snapshot(attempts[w.event]) \in Snapshots
          /\ Snapshot(attempts[w.event]).hash = HashOf(p)
      BY <3>2, SnapshotOf
    <3>4. Inner(p)
      BY <2>1, <2>6, <3>3, InnerContinue
    <3> QED BY <3>4 DEF CallStep
  <2>7. CASE Leave(p, "reject", "none")
    BY <2>1, <2>2, <2>7, InnerLeave DEF CallStep
  <2>8. CASE RespondWithError(p)
    BY <2>1, <2>2, <2>8, InnerError DEF CallStep
  <2> QED BY <1>3, <2>5, <2>6, <2>7, <2>8 DEF ReserveStep
<1>4. CASE PaymentStatusStep(p)
  <2>1. proc[p].pc = "status" /\ UNCHANGED <<events, lease, published>>
    BY <1>4 DEF PaymentStatusStep, ledgerVars, claimVars
  <2>2. proc[p].pc \in PayPcs /\ proc[p].pc \in WorkPcs /\ proc[p].pc \notin EarlyPcs
        /\ {"check_start", "release"} \subseteq WorkPcs
        /\ {"check_start", "release"} \cap AnswerPcs = {}
    BY <2>1 DEF WorkPcs, EarlyPcs, PayPcs, AnswerPcs
  <2>3. PICK report \in Reports(wallet[HashOf(p)].status) :
            LET answer == BridgePaymentStatus(report) IN
            IF ~answer.ok THEN Leave(p, "retry", "none")
            ELSE IF answer.value.status = "unknown" THEN Goto(p, "check_start")
            ELSE IF MayDiscloseSettlement(proc[p].seen)
            THEN FinishWith(p, answer.value.status)
            ELSE Goto(p, "release")
    BY <1>4 DEF PaymentStatusStep
  <2> DEFINE answer == BridgePaymentStatus(report)
  <2>4. wallet[HashOf(p)].status \in Statuses
    BY <2>1, RunningCall DEF EngineTypes, HostsTypeOK
  <2>5. answer.ok => answer.value.status \in Statuses
    BY <2>3, <2>4, ReportOutcome
  <2>6. \/ Leave(p, "retry", "none") \/ Goto(p, "check_start") \/ Goto(p, "release")
        \/ answer.value.status \in Statuses /\ FinishWith(p, answer.value.status)
    BY <2>3, <2>5
  <2> HIDE DEF answer
  <2>7. Inner(p)
    BY <2>1, <2>2, <2>6, InnerLeave, InnerGoto, InnerFinish
  <2> QED BY <2>7 DEF CallStep
<1>5. CASE ReleaseStep(p)
  <2>1. proc[p].pc = "release" /\ UNCHANGED <<events, lease, published>>
        /\ (RespondWithError(p) \/ Leave(p, "retry", "none"))
    BY <1>5 DEF ReleaseStep, claimVars
  <2>2. proc[p].pc \in WorkPcs /\ proc[p].pc \notin EarlyPcs
    BY <2>1 DEF WorkPcs, EarlyPcs, PayPcs
  <2>3. Inner(p)
    BY <2>1, <2>2, InnerLeave, InnerError
  <2> QED BY <2>3 DEF CallStep
<1>6. CASE InitiateStep(p)
  <2>1. proc[p].pc = "initiate" /\ UNCHANGED <<events, lease, published>>
        /\ (Goto(p, "start") \/ Leave(p, "retry", "none"))
    BY <1>6 DEF InitiateStep, claimVars
  <2>2. proc[p].pc \in WorkPcs /\ proc[p].pc \notin EarlyPcs /\ proc[p].pc \in PayPcs
        /\ "start" \in WorkPcs /\ "start" \notin AnswerPcs
    BY <2>1 DEF WorkPcs, EarlyPcs, PayPcs, AnswerPcs
  <2>3. Inner(p)
    BY <2>1, <2>2, InnerLeave, InnerGoto
  <2> QED BY <2>3 DEF CallStep
<1> QED BY <1>1, <1>2, <1>3, <1>4, <1>5, <1>6

LEMMA StartCallStep ==
    ASSUME EngineTypes, NEW p \in Processes,
           \/ StartPayment(p) \/ AwaitPayment(p) \/ FinishPaymentStatus(p)
           \/ RecordNwcSentPayment(p) \/ Commit(p) \/ RepublishTerminal(p)
           \/ PublishEvent(p) \/ RejectClaim(p) \/ RetryClaim(p)
    PROVE  CallStep(p)
<1>0. "result" \in Responses /\ {"failed", "pending"} \subseteq Statuses
  BY EngineAssumption DEF Statuses
<1>1. CASE StartPayment(p)
  <2>1. proc[p].pc = "start" /\ UNCHANGED <<events, lease, published>>
    BY <1>1 DEF StartPayment, ledgerVars, claimVars
  <2>2. proc[p].pc \in WorkPcs /\ proc[p].pc \notin EarlyPcs /\ proc[p].pc \in PayPcs
        /\ "await" \in WorkPcs /\ "await" \notin AnswerPcs
    BY <2>1 DEF WorkPcs, EarlyPcs, PayPcs, AnswerPcs
  <2>3. \/ Goto(p, "await")
        \/ \E kind \in {"Rejected", "NotFound"} :
               FinishWith(p, StartOutcome(BridgeStartPayment(Err(kind))))
    BY <1>1 DEF StartPayment
  <2>4. Goto(p, "await") \/ FinishWith(p, "failed")
    BY <2>3, RefusalOutcome DEF HostErrorKind
  <2>5. Inner(p)
    BY <1>0, <2>1, <2>2, <2>4, InnerGoto, InnerFinish
  <2> QED BY <2>5 DEF CallStep
<1>2. CASE AwaitPayment(p)
  <2>1. proc[p].pc = "await" /\ UNCHANGED <<events, lease, published>>
    BY <1>2 DEF AwaitPayment, ledgerVars, claimVars
  <2>2. proc[p].pc \in PayPcs
    BY <2>1 DEF PayPcs
  <2>3. PICK report \in Reports(wallet[HashOf(p)].status) :
            FinishWith(p, StartOutcome(BridgeStartPayment(report)))
    BY <1>2 DEF AwaitPayment
  <2>4. wallet[HashOf(p)].status \in Statuses
    BY <2>1, RunningCall DEF EngineTypes, HostsTypeOK
  <2>5. StartOutcome(BridgeStartPayment(report)) \in Statuses
    BY <1>0, <2>4, ReportOutcome
  <2>6. Inner(p)
    BY <2>1, <2>2, <2>3, <2>5, InnerFinish
  <2> QED BY <2>6 DEF CallStep
<1>3. CASE FinishPaymentStatus(p)
  <2>1. proc[p].pc = "finish" /\ UNCHANGED <<events, lease, published>>
        /\ (Leave(p, "retry", "none") \/ Goto(p, "record") \/ RespondWithError(p))
    BY <1>3 DEF FinishPaymentStatus, claimVars
  <2>2. proc[p].pc \in WorkPcs /\ proc[p].pc \notin EarlyPcs /\ proc[p].pc \in PayPcs
        /\ "record" \in WorkPcs /\ "record" \notin AnswerPcs
    BY <2>1 DEF WorkPcs, EarlyPcs, PayPcs, AnswerPcs
  <2>3. Inner(p)
    BY <2>1, <2>2, InnerLeave, InnerGoto, InnerError
  <2> QED BY <2>3 DEF CallStep
<1>4. CASE RecordNwcSentPayment(p)
  <2>1. proc[p].pc = "record" /\ UNCHANGED <<events, lease, published>>
        /\ Leave(p, "check_commit", "result")
    BY <1>4 DEF RecordNwcSentPayment, ledgerVars, claimVars
  <2>2. proc[p].pc \in WorkPcs /\ proc[p].pc \notin EarlyPcs
    BY <2>1 DEF WorkPcs, EarlyPcs, PayPcs
  <2>3. Inner(p)
    BY <1>0, <2>1, <2>2, InnerLeave
  <2> QED BY <2>3 DEF CallStep
<1>5. CASE Commit(p)
  <2>1. proc[p].pc = "commit" /\ UNCHANGED published
    BY <1>5 DEF Commit
  <2>2. proc[p].pc \in WorkPcs /\ proc[p] \in Calls
    BY <2>1, RunningCall DEF WorkPcs, EarlyPcs
  <2>3. CASE DropLease(p) /\ proc' = [proc EXCEPT ![p] = Idle]
    BY <2>1, <2>2, <2>3, EndsWithClaim DEF CallStep
  <2>4. CASE CompleteEventForActiveConnection(p, proc[p].conn, proc[p].revision,
                                              proc[p].response, now)
             /\ Goto(p, "publish")
    BY <2>1, <2>2, <2>4, GotoSteps DEF Commits, CallStep
  <2> QED BY <1>5, <2>3, <2>4 DEF Commit
<1>6. CASE RepublishTerminal(p)
  <2>1. proc[p].pc = "publish" /\ UNCHANGED <<events, lease, published>>
    BY <1>6 DEF RepublishTerminal, ledgerVars, claimVars
  <2>2. proc[p] \in Calls
    BY <2>1, RunningCall
  <2>3. \/ proc' = [proc EXCEPT ![p] = Idle]
        \/ proc' = [proc EXCEPT ![p] = [proc[p] EXCEPT !.pc = "send"]]
    BY <1>6 DEF RepublishTerminal
  <2>4. CASE proc' = [proc EXCEPT ![p] = Idle]
    BY <2>1, <2>4, EndsWithoutClaim DEF CallStep
  <2>5. CASE proc' = [proc EXCEPT ![p] = [proc[p] EXCEPT !.pc = "send"]]
    <3>1. Goto(p, "send")
      BY <2>5 DEF Goto
    <3> QED BY <2>1, <2>2, <3>1, GotoSteps DEF Sends, CallStep
  <2> QED BY <2>3, <2>4, <2>5
<1>7. CASE PublishEvent(p)
  BY <1>7 DEF PublishEvent, Publishes, CallStep, ledgerVars, claimVars
<1>8. CASE RejectClaim(p)
  <2>1. proc[p].pc = "reject" /\ proc[p].pc \in WorkPcs /\ UNCHANGED published
        /\ proc' = [proc EXCEPT ![p] = Idle]
        /\ (CompleteEvent(p, "rejected", "none", now) \/ DropLease(p))
    BY <1>8 DEF RejectClaim, WorkPcs, EarlyPcs
  <2> QED BY <2>1, EndsWithClaim DEF Rejects, CallStep
<1>9. CASE RetryClaim(p)
  <2>1. proc[p].pc = "retry" /\ proc[p].pc \in WorkPcs /\ UNCHANGED published
        /\ proc' = [proc EXCEPT ![p] = Idle]
        /\ (RetryLater(p, now) \/ DropLease(p))
    BY <1>9 DEF RetryClaim, WorkPcs, EarlyPcs
  <2> QED BY <2>1, EndsWithClaim DEF Retries, CallStep
<1> QED BY <1>1, <1>2, <1>3, <1>4, <1>5, <1>6, <1>7, <1>8, <1>9

LEMMA FaultCallStep ==
    ASSUME EngineTypes, NEW p \in Processes,
           Interrupted(p) \/ ResponseRefused(p) \/ LedgerBusy(p) \/ Crash(p)
    PROVE  CallStep(p)
<1>0. "pending" \in Statuses
  BY DEF Statuses
<1>1. CASE Interrupted(p)
  <2>0. UNCHANGED <<events, lease, published>>
    BY <1>1 DEF Interrupted, ledgerVars, claimVars
  <2>1. CASE /\ proc[p].pc \in {"secret", "direct", "quote", "status",
                                "initiate", "start", "commit"}
             /\ Leave(p, "retry", "none")
    <3>1. proc[p].pc \in WorkPcs
      BY <2>1 DEF WorkPcs, EarlyPcs, PayPcs
    <3>2. Inner(p)
      BY <2>0, <2>1, <3>1, InnerLeave
    <3> QED BY <3>2 DEF CallStep
  <2>2. CASE /\ proc[p].pc \in {"start", "await"}
             /\ \E kind \in HostErrorKind \ {"Rejected", "NotFound"} :
                 FinishWith(p, StartOutcome(BridgeStartPayment(Err(kind))))
    <3>1. proc[p].pc \in PayPcs
      BY <2>2 DEF PayPcs
    <3>2. FinishWith(p, "pending")
      BY <2>2, RefusalOutcome
    <3>3. Inner(p)
      BY <1>0, <2>0, <3>1, <3>2, InnerFinish
    <3> QED BY <3>3 DEF CallStep
  <2>3. CASE proc[p].pc \in {"publish", "send"} /\ proc' = [proc EXCEPT ![p] = Idle]
    BY <2>0, <2>3, EndsWithoutClaim DEF CallStep
  <2> QED BY <1>1, <2>1, <2>2, <2>3 DEF Interrupted
<1>2. CASE ResponseRefused(p)
  <2>1. proc[p].pc = "commit" /\ proc[p].pc \in WorkPcs /\ UNCHANGED <<events, published>>
    BY <1>2 DEF ResponseRefused, WorkPcs, EarlyPcs
  <2>2. CASE Goto(p, "reject") /\ UNCHANGED lease
    <3>1. /\ "reject" \in WorkPcs /\ proc[p].pc \notin EarlyPcs
          /\ "reject" \notin PayPcs \cup AnswerPcs \cup {"load_attempt", "quote", "reserve"}
      BY <2>1 DEF WorkPcs, EarlyPcs, PayPcs, AnswerPcs
    <3>2. Inner(p)
      BY <2>1, <2>2, <3>1, InnerGoto
    <3> QED BY <3>2 DEF CallStep
  <2>3. CASE proc' = [proc EXCEPT ![p] = Idle] /\ DropLease(p)
    BY <2>1, <2>3, EndsWithClaim DEF CallStep
  <2> QED BY <1>2, <2>2, <2>3 DEF ResponseRefused
<1>3. CASE LedgerBusy(p)
  <2>1. UNCHANGED <<events, published>>
    BY <1>3 DEF LedgerBusy
  <2>2. CASE /\ proc[p].pc \in {"freshness", "check_direct", "check_start",
                                "check_commit", "error", "load_attempt",
                                "reserve", "release", "initiate", "finish",
                                "record", "commit"}
             /\ Leave(p, "retry", "none") /\ UNCHANGED lease
    <3>1. proc[p].pc \in WorkPcs
      BY <2>2 DEF WorkPcs, EarlyPcs, PayPcs
    <3>2. Inner(p)
      BY <2>1, <2>2, <3>1, InnerLeave
    <3> QED BY <3>2 DEF CallStep
  <2>3. CASE /\ proc[p].pc \in {"claim", "publish"}
             /\ proc' = [proc EXCEPT ![p] = Idle] /\ UNCHANGED lease
    BY <2>1, <2>3, EndsWithoutClaim DEF CallStep
  <2>4. CASE /\ proc[p].pc \in {"retry", "reject"}
             /\ proc' = [proc EXCEPT ![p] = Idle] /\ DropLease(p)
    <3>1. proc[p].pc \in WorkPcs
      BY <2>4 DEF WorkPcs, EarlyPcs
    <3> QED BY <2>1, <2>4, <3>1, EndsWithClaim DEF CallStep
  <2> QED BY <1>3, <2>2, <2>3, <2>4 DEF LedgerBusy
<1>4. CASE Crash(p)
  BY <1>4 DEF Crash, Ends, CallStep
<1> QED BY <1>1, <1>2, <1>3, <1>4

-----------------------------------------------------------------------------
(* The calls, the event table and the answers keep their types.            *)

LEMMA OneCallMoves ==
    ASSUME EngineTypes, NEW p \in Processes, NEW w,
           proc' = [proc EXCEPT ![p] = w], w = Idle \/ CallOK(RequestOf, w),
           lease' \in [Processes -> LeaseRecord \cup {NoLease}],
           \A q \in Processes : q # p => lease'[q] = lease[q],
           w.pc \in WorkPcs <=> lease'[p] # NoLease,
           lease'[p] # NoLease => lease'[p].event = w.event,
           cast' = cast
    PROVE  CallsTypeOK'
<1>1. /\ proc \in [Processes -> Calls \cup {Idle}]
      /\ \A q \in Processes :
            /\ proc[q] # Idle => CallOK(RequestOf, proc[q])
            /\ proc[q].pc \in WorkPcs <=> lease[q] # NoLease
            /\ lease[q] # NoLease => lease[q].event = proc[q].event
  BY DEF EngineTypes, CallsTypeOK, Holds
<1>2. w \in Calls \cup {Idle}
  BY DEF CallOK
<1>3. proc' \in [Processes -> Calls \cup {Idle}]
  BY <1>1, <1>2
<1>4. RequestOf' = RequestOf
  BY DEF RequestOf, Cast
<1>5. ASSUME NEW q \in Processes
      PROVE  /\ proc'[q] # Idle => CallOK(RequestOf, proc'[q])
             /\ proc'[q].pc \in WorkPcs <=> lease'[q] # NoLease
             /\ lease'[q] # NoLease => lease'[q].event = proc'[q].event
  <2>1. CASE q = p
    <3>1. proc'[q] = w
      BY <1>1, <2>1
    <3> QED BY <2>1, <3>1
  <2>2. CASE q # p
    <3>1. proc'[q] = proc[q] /\ lease'[q] = lease[q]
      BY <1>1, <2>2
    <3> QED BY <1>1, <3>1
  <2> QED BY <2>1, <2>2
<1> QED BY <1>3, <1>4, <1>5 DEF CallsTypeOK, Holds

LEMMA SteppedCall ==
    ASSUME EngineTypes, NEW p \in Processes, proc[p].pc # "idle",
           NEW pc \in {"claim", "publish", "send", "secret", "freshness"},
           NEW response \in Responses \cup {"none"},
           pc \in AnswerPcs => response \in Responses,
           Stepped(p, pc, proc[p].seen, proc[p].status, response)
    PROVE  \E w \in Calls :
               /\ proc' = [proc EXCEPT ![p] = w] /\ CallOK(RequestOf, w)
               /\ w.pc = pc /\ w.event = proc[p].event /\ w.response = response
               /\ w.revision = proc[p].revision
<1> DEFINE w == Call(pc, proc[p].event, proc[p].conn, proc[p].revision,
                     proc[p].seen, proc[p].status, response)
<1>1. proc[p] \in Calls /\ CallOK(RequestOf, proc[p])
  BY RunningCall
<1>2. pc \in WorkPcs \cup {"claim", "publish", "send"}
      /\ pc \notin PayPcs \cup {"load_attempt", "quote", "reserve"}
  BY DEF WorkPcs, EarlyPcs, PayPcs
<1>3. w \in Calls /\ w.pc = pc /\ w.event = proc[p].event /\ w.response = response
      /\ w.revision = proc[p].revision /\ w.conn = proc[p].conn
  BY <1>1, <1>2 DEF Call, Calls
<1>4. proc' = [proc EXCEPT ![p] = w]
  BY DEF Stepped
<1> HIDE DEF w
<1>5. CallOK(RequestOf, w)
  BY <1>1, <1>2, <1>3 DEF CallOK
<1> QED BY <1>3, <1>4, <1>5

LEMMA CallStepTypes ==
    ASSUME EngineTypes, NEW p \in Processes, CallStep(p), now' = now, cast' = cast
    PROVE  /\ events' \in [EventIds -> EventRow \cup {NoEvent}]
           /\ lease' \in [Processes -> LeaseRecord \cup {NoLease}]
           /\ CallsTypeOK'
           /\ published' \subseteq [event: EventIds, response: Responses]
<1>1. /\ ClaimsTypeOK /\ now \in Nat
      /\ events \in [EventIds -> EventRow \cup {NoEvent}]
      /\ lease \in [Processes -> LeaseRecord \cup {NoLease}]
      /\ published \subseteq [event: EventIds, response: Responses]
      /\ proc[p].pc \in WorkPcs <=> lease[p] # NoLease
      /\ lease[p] # NoLease => lease[p].event = proc[p].event
  BY DEF EngineTypes, ClaimsTypeOK, HostsTypeOK, EstablishedOnce, CallsTypeOK, Holds
<1>2. Idle.pc \notin WorkPcs /\ "none" \in Responses \cup {"none"}
      /\ {"claim", "publish", "send"} \cap WorkPcs = {}
      /\ "secret" \in WorkPcs /\ "freshness" \in WorkPcs
      /\ "secret" \notin AnswerPcs /\ "freshness" \notin AnswerPcs
      /\ "publish" \in AnswerPcs /\ "send" \in AnswerPcs /\ "commit" \in AnswerPcs
      /\ "commit" \in WorkPcs
  BY DEF Idle, WorkPcs, EarlyPcs, PayPcs, AnswerPcs
<1>3. CASE Inner(p)
  <2>1. PICK w \in Calls :
            /\ proc' = [proc EXCEPT ![p] = w] /\ CallOK(RequestOf, w)
            /\ w.event = proc[p].event /\ w.pc \in WorkPcs
    BY <1>3 DEF Inner
  <2>2. proc[p].pc \in WorkPcs /\ UNCHANGED <<events, lease, published>>
    BY <1>3 DEF Inner
  <2>3. CallsTypeOK'
    BY <1>1, <2>1, <2>2, OneCallMoves
  <2> QED BY <1>1, <2>2, <2>3
<1>4. CASE Begins(p)
  <2>1. PICK w \in Calls :
            proc' = [proc EXCEPT ![p] = w] /\ CallOK(RequestOf, w) /\ w.pc = "claim"
    BY <1>4 DEF Begins
  <2>2. proc[p] = Idle /\ UNCHANGED <<events, lease, published>>
    BY <1>4 DEF Begins
  <2>3. lease[p] = NoLease
    BY <1>1, <1>2, <2>2
  <2>4. CallsTypeOK'
    BY <1>1, <1>2, <2>1, <2>2, <2>3, OneCallMoves
  <2> QED BY <1>1, <2>2, <2>4
<1>5. CASE Acquires(p)
  <2>1. proc[p].pc = "claim" /\ published' = published
    BY <1>5 DEF Acquires
  <2>2. PICK d \in Leases :
            ClaimEvent(p, proc[p].event, proc[p].conn, proc[p].revision, now, d)
    BY <1>5 DEF Acquires
  <2>3. proc[p] \in Calls /\ proc[p].event \in EventIds
    BY <2>1, RunningCall
  <2>4. proc[p].conn \in ConnectionIds /\ proc[p].revision \in Nat
        /\ proc[p].response \in Responses \cup {"none"}
    BY <2>3 DEF Calls
  <2>5. /\ events' \in [EventIds -> EventRow \cup {NoEvent}]
        /\ lease' \in [Processes -> LeaseRecord \cup {NoLease}]
    BY <1>1, <2>2, <2>3, <2>4, ClaimType
  <2>6. PICK token \in FreshTokens :
            lease' = [lease EXCEPT ![p] =
                   [event |-> proc[p].event, token |-> token, until |-> now + d,
                    fresh |-> events[proc[p].event] # NoEvent
                              /\ events[proc[p].event].fresh]]
    BY <2>2 DEF ClaimEvent
  <2>7. /\ lease'[p] # NoLease /\ lease'[p].event = proc[p].event
        /\ \A q \in Processes : q # p => lease'[q] = lease[q]
    <3>1. lease'[p].event = proc[p].event /\ lease'[p].token = token
          /\ \A q \in Processes : q # p => lease'[q] = lease[q]
      BY <1>1, <2>6
    <3>2. token # Nobody
      BY <2>6, ClaimsAssumption DEF FreshTokens
    <3> QED BY <3>1, <3>2 DEF NoLease
  <2> DEFINE pc == IF lease'[p].fresh THEN "secret" ELSE "freshness"
  <2>8. pc \in {"secret", "freshness"}
    OBVIOUS
  <2>9. Stepped(p, pc, proc[p].seen, proc[p].status, proc[p].response)
    BY <1>5 DEF Acquires
  <2> HIDE DEF pc
  <2>10. PICK w \in Calls :
            /\ proc' = [proc EXCEPT ![p] = w] /\ CallOK(RequestOf, w)
            /\ w.pc = pc /\ w.event = proc[p].event
    BY <1>2, <2>1, <2>4, <2>8, <2>9, SteppedCall
  <2>11. CallsTypeOK'
    BY <1>2, <2>5, <2>7, <2>8, <2>10, OneCallMoves
  <2> QED BY <1>1, <2>1, <2>5, <2>11
<1>6. CASE Replays(p)
  <2> DEFINE r == events[proc[p].event].response
  <2>1. /\ proc[p].pc = "claim" /\ UNCHANGED <<events, lease, published>>
        /\ events[proc[p].event] # NoEvent /\ r # "none"
        /\ Stepped(p, "publish", proc[p].seen, proc[p].status, r)
    BY <1>6 DEF Replays
  <2>2. proc[p].event \in EventIds
    BY <2>1, RunningCall
  <2>3. r \in Responses
    BY <1>1, <2>1, <2>2 DEF EventRow
  <2> HIDE DEF r
  <2>4. PICK w \in Calls :
            /\ proc' = [proc EXCEPT ![p] = w] /\ CallOK(RequestOf, w)
            /\ w.pc = "publish" /\ w.event = proc[p].event
    BY <2>1, <2>3, SteppedCall
  <2>5. CallsTypeOK'
    BY <1>1, <1>2, <2>1, <2>4, OneCallMoves
  <2> QED BY <1>1, <2>1, <2>5
<1>7. CASE Accepts(p)
  <2>1. /\ proc[p].pc = "freshness" /\ AcceptEventFreshness(p, now)
        /\ Stepped(p, "secret", proc[p].seen, proc[p].status, proc[p].response)
        /\ published' = published /\ lease' = lease
    BY <1>7 DEF Accepts, AcceptEventFreshness
  <2>2. events' \in [EventIds -> EventRow \cup {NoEvent}]
    BY <1>1, <2>1, AcceptType
  <2>3. proc[p].response \in Responses \cup {"none"}
    BY <2>1, RunningCall DEF Calls
  <2>4. PICK w \in Calls :
            /\ proc' = [proc EXCEPT ![p] = w] /\ CallOK(RequestOf, w)
            /\ w.pc = "secret" /\ w.event = proc[p].event
    BY <1>2, <2>1, <2>3, SteppedCall
  <2>5. CallsTypeOK'
    BY <1>1, <1>2, <2>1, <2>4, OneCallMoves
  <2> QED BY <1>1, <2>1, <2>2, <2>5
<1>8. CASE Commits(p)
  <2>1. /\ proc[p].pc = "commit" /\ CompleteEvent(p, "completed", proc[p].response, now)
        /\ Stepped(p, "publish", proc[p].seen, proc[p].status, proc[p].response)
        /\ published' = published
    BY <1>8 DEF Commits, CompleteEventForActiveConnection
  <2>2. proc[p].response \in Responses
    BY <1>2, <2>1, RunningCall DEF CallOK
  <2>3. /\ events' \in [EventIds -> EventRow \cup {NoEvent}]
        /\ lease' \in [Processes -> LeaseRecord \cup {NoLease}]
    BY <1>1, <2>1, <2>2, CompleteType
  <2>4. lease'[p] = NoLease /\ \A q \in Processes : q # p => lease'[q] = lease[q]
    BY <1>1, <2>1 DEF CompleteEvent
  <2>5. PICK w \in Calls :
            /\ proc' = [proc EXCEPT ![p] = w] /\ CallOK(RequestOf, w)
            /\ w.pc = "publish" /\ w.event = proc[p].event
    BY <1>2, <2>1, <2>2, SteppedCall
  <2>6. CallsTypeOK'
    BY <1>2, <2>3, <2>4, <2>5, OneCallMoves
  <2> QED BY <1>1, <2>1, <2>3, <2>6
<1>9. CASE Rejects(p) \/ Retries(p) \/ Ends(p)
  <2>1. /\ published' = published /\ proc' = [proc EXCEPT ![p] = Idle]
        /\ lease' = [lease EXCEPT ![p] = NoLease]
    BY <1>9 DEF Rejects, Retries, Ends, CompleteEvent, RetryLater
  <2>2. events' \in [EventIds -> EventRow \cup {NoEvent}]
    <3>1. CASE Rejects(p)
      BY <1>1, <3>1, CompleteType DEF Rejects
    <3>2. CASE Retries(p)
      BY <1>1, <3>2, RetryType DEF Retries
    <3>3. CASE Ends(p)
      BY <1>1, <3>3 DEF Ends
    <3> QED BY <1>9, <3>1, <3>2, <3>3
  <2>3. /\ lease' \in [Processes -> LeaseRecord \cup {NoLease}] /\ lease'[p] = NoLease
        /\ \A q \in Processes : q # p => lease'[q] = lease[q]
    BY <1>1, <2>1
  <2>4. CallsTypeOK'
    BY <1>2, <2>1, <2>3, OneCallMoves
  <2> QED BY <1>1, <2>1, <2>2, <2>3, <2>4
<1>10. CASE Sends(p)
  <2>1. /\ proc[p].pc = "publish" /\ UNCHANGED <<events, lease, published>>
        /\ Stepped(p, "send", proc[p].seen, proc[p].status, proc[p].response)
    BY <1>10 DEF Sends
  <2>2. proc[p].response \in Responses
    BY <1>2, <2>1, RunningCall DEF CallOK
  <2>3. PICK w \in Calls :
            /\ proc' = [proc EXCEPT ![p] = w] /\ CallOK(RequestOf, w)
            /\ w.pc = "send" /\ w.event = proc[p].event
    BY <1>2, <2>1, <2>2, SteppedCall
  <2>4. CallsTypeOK'
    BY <1>1, <1>2, <2>1, <2>3, OneCallMoves
  <2> QED BY <1>1, <2>1, <2>4
<1>11. CASE Publishes(p)
  <2>1. /\ proc[p].pc = "send" /\ UNCHANGED <<events, lease>>
        /\ proc' = [proc EXCEPT ![p] = Idle]
        /\ published' = published \cup
               {[event |-> proc[p].event, response |-> proc[p].response]}
    BY <1>11 DEF Publishes
  <2>2. proc[p].response \in Responses /\ proc[p].event \in EventIds
    BY <1>2, <2>1, RunningCall DEF CallOK
  <2>3. lease[p] = NoLease
    BY <1>1, <1>2, <2>1
  <2>4. CallsTypeOK'
    BY <1>1, <1>2, <2>1, <2>3, OneCallMoves
  <2>5. published' \subseteq [event: EventIds, response: Responses]
    BY <1>1, <2>1, <2>2
  <2> QED BY <1>1, <2>1, <2>4, <2>5
<1> QED BY <1>3, <1>4, <1>5, <1>6, <1>7, <1>8, <1>9, <1>10, <1>11 DEF CallStep

-----------------------------------------------------------------------------
(* What a step does to the attempts.                                       *)

RowReleased(f) ==
    /\ f \in EventIds /\ attempts[f].state = "reserved" /\ ~attempts[f].initiated
    /\ attempts' = [attempts EXCEPT ![f] = NoAttempt]
    /\ UNCHANGED <<connections, outbox>>
    /\ used' \in [ConnectionIds -> [Time -> Nat]]

RowReserved(e) ==
    /\ e \in EventIds /\ ~Exists(e) /\ TrackedBy(RequestOf[e].hash) = {}
    /\ attempts' = [attempts EXCEPT ![e] = attempts'[e]]
    /\ attempts'[e] \in AttemptRow
    /\ RowOK(RequestOf, LegacyEvents, e, attempts'[e])
    /\ attempts'[e].state = "reserved" /\ ~attempts'[e].initiated
    /\ UNCHANGED <<connections, outbox>>
    /\ used' \in [ConnectionIds -> [Time -> Nat]]

\* A call writes its own new row, or the row of its payment hash.
CallAccounts(p) ==
    \/ UNCHANGED <<registryVars, attempts>>
    \/ /\ proc[p].pc \in PayPcs
       /\ \E f \in TrackedBy(HashOf(p)) : RowMarked(f) \/ RowReleased(f)
    \/ proc[p].pc = "reserve" /\ RowReserved(proc[p].event)

PassAccounts ==
    \/ UNCHANGED <<registryVars, attempts>>
    \/ /\ reconciler.pc = "apply"
       /\ \E f \in TrackedBy(reconciler.seen.hash) : RowMarked(f) \/ RowReleased(f)

LEMMA ReleaseReleases ==
    ASSUME AccountingTypeOK, now = 0, NEW f \in EventIds,
           ReleaseUninitiatedPayment(f, now)
    PROVE  RowReleased(f)
<1>1. now \in Time
  BY RegistryAssumption DEF Time
<1>2. AccountingTypeOK'
  BY <1>1, ReleaseType
<1> QED BY <1>2 DEF RowReleased, ReleaseUninitiatedPayment, ReleaseOk,
                    AccountingTypeOK, RegistryTypeOK

LEMMA ReserveReserves ==
    ASSUME EngineTypes, NEW p \in Processes, proc[p].pc = "reserve",
           ReservePayment(proc[p].event, Request(p).hash, proc[p].conn,
                          proc[p].revision, Request(p).principal, now)
    PROVE  RowReserved(proc[p].event)
<1> DEFINE w == proc[p]
           r == Request(p)
           e == w.event
<1>0. /\ AccountingTypeOK /\ RowsOK /\ EstablishedOnce /\ cast \in DOMAIN Casts
      /\ now \in Time /\ now = 0
  BY RegistryAssumption DEF EngineTypes, HostsTypeOK, EstablishedOnce, Time
<1>1. w \in Calls /\ e \in EventIds /\ r = RequestOf[e] /\ CallOK(RequestOf, w)
  BY RunningCall
<1>2. /\ w.conn \in ConnectionIds /\ w.revision \in Nat /\ r.principal \in Nat
      /\ r.hash \in Hashes /\ w.conn = r.conn /\ r.kind = "pay_invoice"
  BY <1>0, <1>1, RequestTypes DEF Calls, CallOK
<1>3. AccountingTypeOK'
  BY <1>0, <1>1, <1>2, ReserveType
<1>4. /\ r.principal > 0 /\ MayPay[w.conn] /\ w.revision = 0
      /\ ~Exists(e) /\ TrackedBy(r.hash) = {}
  BY <1>0, <1>2 DEF ReservePayment, BudgetLoads, RevisionActive, EstablishedOnce
<1>5. e \notin LegacyEvents
  BY <1>0, <1>4 DEF RowsOK
<1> DEFINE row == attempts'[e]
<1>6. /\ row.hash = r.hash /\ row.conn = w.conn /\ row.revision = w.revision
      /\ row.principal = r.principal /\ row.state = "reserved"
      /\ row.fee_reserve = MaximumFee[w.conn]
      /\ row.initiated = FALSE /\ row.legacy = FALSE /\ row.updated_at = now
  BY <1>0, <1>1 DEF ReservePayment, AccountingTypeOK
<1>7. attempts' = [attempts EXCEPT ![e] = row]
  BY <1>0, <1>1 DEF ReservePayment, AccountingTypeOK
<1>8. row \in AttemptRow
  BY <1>1, <1>3, <1>6 DEF AccountingTypeOK, NoAttempt
<1>9. UNCHANGED <<connections, outbox>> /\ used' \in [ConnectionIds -> [Time -> Nat]]
  BY <1>3 DEF ReservePayment, AccountingTypeOK, RegistryTypeOK
<1>10. RowOK(RequestOf, LegacyEvents, e, row)
  BY <1>0, <1>1, <1>2, <1>4, <1>5, <1>6 DEF RowOK
<1> QED BY <1>1, <1>4, <1>6, <1>7, <1>8, <1>9, <1>10 DEF RowReserved

LEMMA CallAccountsStep ==
    ASSUME EngineTypes, NEW p \in Processes, LoadConnection(p) \/ Execute(p)
    PROVE  CallAccounts(p)
<1>0. AccountingTypeOK /\ RowsOK /\ now = 0 /\ cast \in DOMAIN Casts /\ SettledFee \in Nat
  BY EngineAssumption DEF EngineTypes, EstablishedOnce, HostsTypeOK
<1>1. CASE ReserveStep(p)
  <2>1. CASE ReservePayment(proc[p].event, Request(p).hash, proc[p].conn,
                            proc[p].revision, Request(p).principal, now)
    BY <1>1, <2>1, ReserveReserves DEF CallAccounts, ReserveStep
  <2>2. CASE UNCHANGED <<registryVars, attempts>>
    BY <2>2 DEF CallAccounts
  <2> QED BY <1>1, <2>1, <2>2 DEF ReserveStep, registryVars
<1>2. CASE ReleaseStep(p)
  <2>1. ASSUME NEW f \in TrackedBy(HashOf(p)), ReleaseUninitiatedPayment(f, now)
        PROVE  CallAccounts(p)
    <3>1. f \in EventIds /\ proc[p].pc \in PayPcs
      BY <1>2 DEF TrackedBy, ReleaseStep, PayPcs
    <3> QED BY <1>0, <2>1, <3>1, ReleaseReleases DEF CallAccounts
  <2>2. CASE UNCHANGED <<registryVars, attempts>>
    BY <2>2 DEF CallAccounts
  <2> QED BY <1>2, <2>1, <2>2 DEF ReleaseStep, registryVars
<1>3. CASE InitiateStep(p)
  <2>1. ASSUME NEW f \in TrackedBy(HashOf(p)), MarkPaymentInitiated(f, now)
        PROVE  CallAccounts(p)
    <3>1. f \in EventIds /\ proc[p].pc \in PayPcs
      BY <1>3 DEF TrackedBy, InitiateStep, PayPcs
    <3> QED BY <1>0, <2>1, <3>1, InitiatedMarks DEF CallAccounts
  <2>2. CASE UNCHANGED <<registryVars, attempts>>
    BY <2>2 DEF CallAccounts
  <2> QED BY <1>3, <2>1, <2>2 DEF InitiateStep, registryVars
<1>4. CASE FinishPaymentStatus(p)
  <2>0. proc[p].pc = "finish"
    BY <1>4 DEF FinishPaymentStatus
  <2>1. proc[p].pc \in PayPcs /\ proc[p].event \in EventIds
        /\ HashOf(p) = RequestOf[proc[p].event].hash
    BY <2>0, RunningCall DEF PayPcs
  <2>2. SettledAmount(HashOf(p)) \in Nat
    BY <1>0, <2>1, SettledAmountOf
  <2>3. ASSUME NEW f \in TrackedBy(HashOf(p)),
               \/ MarkPaymentPending(f, now) \/ MarkPaymentFailed(f, now)
               \/ MarkPaymentSucceeded(f, SettledAmount(HashOf(p)), SettledFee, now)
        PROVE  CallAccounts(p)
    <3>1. f \in EventIds
      BY DEF TrackedBy
    <3>2. RowMarked(f)
      BY <1>0, <2>2, <2>3, <3>1, PendingMarks, FailedMarks, SucceededMarks
    <3> QED BY <2>1, <3>2 DEF CallAccounts
  <2>4. CASE UNCHANGED <<registryVars, attempts>>
    BY <2>4 DEF CallAccounts
  <2> QED BY <1>4, <2>3, <2>4 DEF FinishPaymentStatus, registryVars
<1>5. CASE ~(ReserveStep(p) \/ ReleaseStep(p) \/ InitiateStep(p)
             \/ FinishPaymentStatus(p))
  <2>1. UNCHANGED <<registryVars, attempts>>
    BY <1>5 DEF LoadConnection, Execute, ClaimStep, CheckFreshness, Dispatch,
       EnsureClaimConnectionActive, ExecuteRequest, LoadPaymentAttempt, QuotePayment,
       PaymentStatusStep, StartPayment, AwaitPayment, RecordNwcSentPayment, Commit,
       RepublishTerminal, PublishEvent, RejectClaim, RetryClaim, ledgerVars,
       registryVars
  <2> QED BY <2>1 DEF CallAccounts
<1> QED BY <1>1, <1>2, <1>3, <1>4, <1>5

\* Whoever writes, the attempts stay what their requests asked for, one per
\* payment hash.
AccountStep ==
    \/ UNCHANGED <<registryVars, attempts>>
    \/ \E f \in EventIds : RowMarked(f) \/ RowReleased(f) \/ RowReserved(f)

LEMMA KeptRowOK ==
    ASSUME NEW rs, NEW legacies, NEW e, NEW old, NEW new, RowOK(rs, legacies, e, old),
           Kept(old, new)
    PROVE  RowOK(rs, legacies, e, new)
BY DEF RowOK, Kept

LEMMA AccountStepTypes ==
    ASSUME EngineTypes, AccountStep, now' = now, cast' = cast
    PROVE  /\ AccountingTypeOK' /\ RowsOK' /\ OneAttemptPerHash'
           /\ RegistryTypeOK' /\ EstablishedOnce'
<1>0. /\ AccountingTypeOK /\ RowsOK /\ OneAttemptPerHash /\ EstablishedOnce
      /\ RegistryTypeOK /\ attempts \in [EventIds -> AttemptRow \cup {NoAttempt}]
  BY DEF EngineTypes, AccountingTypeOK
<1>1. RequestOf' = RequestOf /\ LegacyEvents' = LegacyEvents
      /\ LegacyEvents \subseteq EventIds
  BY RequestTypes DEF RequestOf, LegacyEvents, Cast, EngineTypes, HostsTypeOK
<1>2. CASE UNCHANGED <<registryVars, attempts>>
  BY <1>0, <1>1, <1>2 DEF registryVars, AccountingTypeOK, RegistryTypeOK, RowsOK,
     OneAttemptPerHash, EstablishedOnce, Exists
<1>3. ASSUME NEW f \in EventIds, RowMarked(f) \/ RowReleased(f) \/ RowReserved(f)
      PROVE  /\ AccountingTypeOK' /\ RowsOK' /\ OneAttemptPerHash'
             /\ RegistryTypeOK' /\ EstablishedOnce'
  <2>1. UNCHANGED <<connections, outbox>> /\ used' \in [ConnectionIds -> [Time -> Nat]]
    BY <1>3 DEF RowMarked, RowReleased, RowReserved
  <2>2. RegistryTypeOK' /\ EstablishedOnce'
    BY <1>0, <2>1 DEF RegistryTypeOK, EstablishedOnce
  <2>3. /\ attempts' = [attempts EXCEPT ![f] = attempts'[f]]
        /\ attempts'[f] \in AttemptRow \cup {NoAttempt}
    BY <1>0, <1>3 DEF RowMarked, RowReleased, RowReserved
  <2>4. \A e \in EventIds : e # f => attempts'[e] = attempts[e]
    BY <1>0, <2>3
  <2>5. AccountingTypeOK'
    BY <1>0, <2>2, <2>3 DEF AccountingTypeOK
  <2>6. CASE RowMarked(f)
    <3>1. /\ Exists(f) /\ attempts'[f] \in AttemptRow /\ Kept(attempts[f], attempts'[f])
      BY <2>6 DEF RowMarked
    <3>2. RowOK(RequestOf, LegacyEvents, f, attempts'[f])
      BY <1>0, <3>1, KeptRowOK DEF RowsOK
    <3>3. attempts'[f].state # "none" /\ attempts'[f].hash = attempts[f].hash
          /\ (attempts[f].state # "reserved" => attempts'[f].state # "reserved")
      BY <3>1 DEF AttemptRow, Kept
    <3>4. RowsOK'
      BY <1>0, <1>1, <2>4, <3>2, <3>3 DEF RowsOK, Exists
    <3>5. OneAttemptPerHash'
      BY <1>0, <2>4, <3>1, <3>3 DEF OneAttemptPerHash, Exists
    <3> QED BY <2>2, <2>5, <3>4, <3>5
  <2>7. CASE RowReleased(f)
    <3>1. attempts'[f].state = "none" /\ attempts[f].state = "reserved"
      BY <1>0, <2>7 DEF RowReleased, NoAttempt
    <3>4. RowsOK'
      BY <1>0, <1>1, <2>4, <3>1 DEF RowsOK, Exists
    <3>5. OneAttemptPerHash'
      BY <1>0, <2>4, <3>1 DEF OneAttemptPerHash, Exists
    <3> QED BY <2>2, <2>5, <3>4, <3>5
  <2>8. CASE RowReserved(f)
    <3>1. /\ ~Exists(f) /\ TrackedBy(RequestOf[f].hash) = {}
          /\ RowOK(RequestOf, LegacyEvents, f, attempts'[f])
      BY <2>8 DEF RowReserved
    <3>2. attempts'[f].hash = RequestOf[f].hash
      BY <3>1 DEF RowOK
    <3>3. f \notin LegacyEvents
      BY <1>0, <3>1 DEF RowsOK
    <3>4. RowsOK'
      BY <1>0, <1>1, <2>4, <3>1, <3>3 DEF RowsOK, Exists
    <3>5. \A e \in EventIds : Exists(e) => attempts[e].hash # RequestOf[f].hash
      BY <3>1 DEF TrackedBy
    <3>6. OneAttemptPerHash'
      BY <1>0, <2>4, <3>2, <3>5 DEF OneAttemptPerHash, Exists
    <3> QED BY <2>2, <2>5, <3>4, <3>6
  <2> QED BY <1>3, <2>6, <2>7, <2>8
<1> QED BY <1>2, <1>3 DEF AccountStep

-----------------------------------------------------------------------------
(* What a step does to the wallet and to the application's records.        *)

CallHosts(p) ==
    /\ \/ wallet' = wallet
       \/ /\ proc[p].pc = "start" /\ MaySubmit(proc[p].event, HashOf(p))
          /\ Submit(proc[p].event, HashOf(p))
    /\ \/ started' = started
       \/ /\ proc[p].pc \in {"start", "await"}
          /\ started' = started \cup {proc[p].event}
    /\ \/ sent' = sent
       \/ proc[p].pc = "record" /\ sent' = sent \cup {proc[p].event}

\* Every step of a call, failures included.
StepOf(p) ==
    \/ /\ LoadConnection(p) \/ Execute(p)
       /\ UNCHANGED <<reconciler, stale, cast, faults>>
    \/ Fault(p)

LEMMA StepOfCall ==
    ASSUME EngineTypes, NEW p \in Processes, StepOf(p)
    PROVE  /\ CallStep(p) /\ CallAccounts(p) /\ CallHosts(p)
           /\ UNCHANGED <<now, cast, stale, reconciler>>
           /\ faults' \in 0..MaxFaults
<1>0. faults \in 0..MaxFaults /\ MaxFaults \in Nat
  BY RequestTypes DEF EngineTypes, HostsTypeOK
<1>1. CASE (LoadConnection(p) \/ Execute(p))
           /\ UNCHANGED <<reconciler, stale, cast, faults>>
  <2>1. CallStep(p)
    BY <1>1, ClaimCallStep, DispatchCallStep, PaymentCallStep, StartCallStep
    DEF Execute
  <2>2. CallAccounts(p)
    BY <1>1, CallAccountsStep
  <2>3. now' = now
    BY <1>1 DEF LoadConnection, Execute, ClaimStep, CheckFreshness, Dispatch,
       EnsureClaimConnectionActive, ExecuteRequest, LoadPaymentAttempt, QuotePayment,
       ReserveStep, PaymentStatusStep, ReleaseStep, InitiateStep, StartPayment,
       AwaitPayment, FinishPaymentStatus, RecordNwcSentPayment, Commit,
       RepublishTerminal, PublishEvent, RejectClaim, RetryClaim, ledgerVars, claimVars
  <2>4. CallHosts(p)
    <3>1. CASE StartPayment(p)
      BY <3>1 DEF StartPayment, CallHosts
    <3>2. CASE RecordNwcSentPayment(p)
      BY <3>2 DEF RecordNwcSentPayment, CallHosts
    <3>3. CASE ~(StartPayment(p) \/ RecordNwcSentPayment(p))
      <4>1. UNCHANGED <<wallet, started, sent>>
        BY <1>1, <3>3 DEF LoadConnection, Execute, ClaimStep, CheckFreshness, Dispatch,
           EnsureClaimConnectionActive, ExecuteRequest, LoadPaymentAttempt,
           QuotePayment, ReserveStep, PaymentStatusStep, ReleaseStep, InitiateStep,
           AwaitPayment, FinishPaymentStatus, Commit, RepublishTerminal,
           PublishEvent, RejectClaim, RetryClaim
      <4> QED BY <4>1 DEF CallHosts
    <3> QED BY <3>1, <3>2, <3>3
  <2> QED BY <1>0, <1>1, <2>1, <2>2, <2>3, <2>4
<1>2. CASE Fault(p)
  <2>1. CallStep(p)
    BY <1>2, FaultCallStep DEF Fault
  <2>2. CallAccounts(p) /\ now' = now /\ wallet' = wallet /\ sent' = sent
    BY <1>2 DEF Fault, Interrupted, ResponseRefused, LedgerBusy, Crash, ledgerVars,
       claimVars, CallAccounts, registryVars
  <2>3. started' = started \/ (/\ proc[p].pc \in {"start", "await"}
                               /\ started' = started \cup {proc[p].event})
    BY <1>2 DEF Fault, Interrupted, ResponseRefused, LedgerBusy, Crash
  <2>4. faults' \in 0..MaxFaults /\ UNCHANGED <<cast, stale, reconciler>>
    BY <1>0, <1>2 DEF Fault
  <2> QED BY <2>1, <2>2, <2>3, <2>4 DEF CallHosts
<1> QED BY <1>1, <1>2 DEF StepOf

LEMMA CallHostsTypes ==
    ASSUME EngineTypes, NEW p \in Processes, CallHosts(p), UNCHANGED <<cast, stale>>,
           faults' \in 0..MaxFaults,
           published' \subseteq [event: EventIds, response: Responses]
    PROVE  HostsTypeOK'
<1>0. HostsTypeOK
  BY DEF EngineTypes
<1>1. MaxFaults' = MaxFaults
  BY DEF MaxFaults, Cast
<1>2. proc[p].pc \in {"start", "await", "record"} =>
          proc[p].event \in EventIds /\ HashOf(p) \in Hashes
  BY RunningCall
<1>3. wallet' \in [Hashes -> [status: Statuses, key: EventIds \cup {External, Nobody}]]
  <2>1. CASE wallet' = wallet
    BY <1>0, <2>1 DEF HostsTypeOK
  <2>2. CASE proc[p].pc = "start" /\ Submit(proc[p].event, HashOf(p))
    <3>1. [status |-> "pending", key |-> proc[p].event]
              \in [status: Statuses, key: EventIds \cup {External, Nobody}]
      BY <1>2, <2>2 DEF Statuses
    <3> QED BY <1>0, <1>2, <2>2, <3>1 DEF HostsTypeOK, Submit
  <2> QED BY <2>1, <2>2 DEF CallHosts
<1>4. started' \subseteq EventIds /\ sent' \subseteq EventIds
  BY <1>0, <1>2 DEF HostsTypeOK, CallHosts
<1> QED BY <1>0, <1>1, <1>3, <1>4 DEF HostsTypeOK

LEMMA CallTypes ==
    ASSUME EngineTypes, NEW p \in Processes, StepOf(p)
    PROVE  EngineTypes'
<1>1. /\ CallStep(p) /\ CallAccounts(p) /\ CallHosts(p)
      /\ UNCHANGED <<now, cast, stale, reconciler>> /\ faults' \in 0..MaxFaults
  BY StepOfCall
<1>2. /\ events' \in [EventIds -> EventRow \cup {NoEvent}]
      /\ lease' \in [Processes -> LeaseRecord \cup {NoLease}]
      /\ CallsTypeOK' /\ published' \subseteq [event: EventIds, response: Responses]
  BY <1>1, CallStepTypes
<1>3. AccountStep
  <2>1. TrackedBy(HashOf(p)) \subseteq EventIds
    BY DEF TrackedBy
  <2>2. RowReserved(proc[p].event) => proc[p].event \in EventIds
    BY DEF RowReserved
  <2> QED BY <1>1, <2>1, <2>2 DEF CallAccounts, AccountStep
<1>4. /\ AccountingTypeOK' /\ RowsOK' /\ OneAttemptPerHash'
      /\ RegistryTypeOK' /\ EstablishedOnce'
  BY <1>1, <1>3, AccountStepTypes
<1>5. HostsTypeOK'
  BY <1>1, <1>2, CallHostsTypes
<1>6. PassTypeOK' /\ ClaimsTypeOK'
  BY <1>1, <1>2, <1>4 DEF EngineTypes, PassTypeOK, ClaimsTypeOK
<1> QED BY <1>2, <1>4, <1>5, <1>6 DEF EngineTypes

-----------------------------------------------------------------------------
(* The reconciler, the wallet, time and the application.                   *)

Pass(pc, todo, seen, status) ==
    [pc |-> pc, todo |-> todo, seen |-> seen, status |-> status]

\* The ways a step moves a pass on.
PassRests == reconciler' = RestingReconciler
PassLoads ==
    /\ reconciler.pc = "idle"
    /\ \E batch \in SUBSET Due :
        reconciler' = Pass("next", {Snapshot(attempts[e]) : e \in batch}, NoSnapshot,
                           "unknown")
PassSkips ==
    /\ reconciler.pc = "next"
    /\ \E s \in reconciler.todo :
           reconciler' = Pass("next", reconciler.todo \ {s}, reconciler.seen,
                              reconciler.status)
PassAsks ==
    /\ reconciler.pc = "next"
    /\ \E s \in reconciler.todo :
        /\ ~(s.state = "reserved" /\ s.initiated)
        /\ reconciler' = Pass("apply", reconciler.todo \ {s}, s,
                              wallet[s.hash].status)
PassGoesOn ==
    /\ reconciler.pc = "apply"
    /\ reconciler' = Pass("next", reconciler.todo, NoSnapshot, "unknown")

PassMoves == PassRests \/ PassLoads \/ PassSkips \/ PassAsks \/ PassGoesOn

LEMMA ReconcileMoves ==
    ASSUME EngineTypes, Reconcile \/ StopReconciler
    PROVE  PassMoves
<1>0. reconciler \in [pc: {"idle", "next", "apply"}, todo: SUBSET Snapshots,
                      seen: Snapshots \cup {NoSnapshot}, status: Statuses]
      /\ wallet \in [Hashes -> [status: Statuses, key: EventIds \cup {External, Nobody}]]
  BY DEF EngineTypes, PassTypeOK, HostsTypeOK
<1>1. CASE LoadUnresolved
  <2>1. PICK batch \in Batches(Due) :
          reconciler' = [RestingReconciler EXCEPT
               !.pc = "next", !.todo = {Snapshot(attempts[e]) : e \in batch}]
    BY <1>1 DEF LoadUnresolved
  <2>2. batch \in SUBSET Due
    BY <2>1 DEF Batches
  <2> DEFINE todo == {Snapshot(attempts[e]) : e \in batch}
  <2>3. reconciler' = [RestingReconciler EXCEPT !.pc = "next", !.todo = todo]
    BY <2>1
  <2> HIDE DEF todo
  <2>4. reconciler' = Pass("next", todo, NoSnapshot, "unknown")
    BY <2>3 DEF RestingReconciler, Pass
  <2>5. reconciler.pc = "idle"
    BY <1>1 DEF LoadUnresolved
  <2> QED BY <2>2, <2>4, <2>5 DEF PassMoves, PassLoads, todo
<1>2. CASE QueryStatus
  <2>1. CASE reconciler' = RestingReconciler
    BY <2>1 DEF PassMoves, PassRests
  <2>2. ASSUME NEW s \in reconciler.todo,
               LET rest == [reconciler EXCEPT !.todo = @ \ {s}] IN
               IF s.state = "reserved" /\ s.initiated THEN reconciler' = rest
               ELSE \E report \in Reports(wallet[s.hash].status) :
                   LET answer == BridgePaymentStatus(report) IN
                   reconciler' = IF ~answer.ok THEN rest
                                 ELSE [rest EXCEPT !.pc = "apply", !.seen = s,
                                          !.status = answer.value.status]
        PROVE  PassMoves
    <3> DEFINE todo == reconciler.todo \ {s}
               rest == [reconciler EXCEPT !.todo = todo]
    <3> HIDE DEF todo
    <3>1. rest = Pass(reconciler.pc, reconciler.todo \ {s}, reconciler.seen,
                      reconciler.status)
      <4>1. rest = Pass(reconciler.pc, todo, reconciler.seen, reconciler.status)
        BY <1>0 DEF Pass
      <4> QED BY <4>1 DEF todo
    <3>2. reconciler.pc = "next"
      BY <1>2 DEF QueryStatus
    <3>3. CASE reconciler' = rest
      BY <3>1, <3>2, <3>3 DEF PassMoves, PassSkips
    <3>4. ASSUME ~(s.state = "reserved" /\ s.initiated),
                 NEW report \in Reports(wallet[s.hash].status),
                 BridgePaymentStatus(report).ok,
                 reconciler' = [rest EXCEPT !.pc = "apply", !.seen = s,
                                !.status = BridgePaymentStatus(report).value.status]
          PROVE  PassMoves
      <4>1. s \in Snapshots /\ wallet[s.hash].status \in Statuses
        BY <1>0 DEF Snapshots
      <4>2. BridgePaymentStatus(report).value.status = wallet[s.hash].status
        BY <3>4, <4>1, ReportOutcome
      <4> HIDE DEF rest
      <4>3. reconciler' = [rest EXCEPT !.pc = "apply", !.seen = s,
                                !.status = wallet[s.hash].status]
        BY <3>4, <4>2
      <4>4. reconciler' = Pass("apply", reconciler.todo \ {s}, s,
                               wallet[s.hash].status)
        BY <3>1, <4>3 DEF Pass
      <4> QED BY <3>2, <3>4, <4>4 DEF PassMoves, PassAsks
    <3> QED BY <2>2, <3>3, <3>4 DEF todo
  <2> QED BY <1>2, <2>1, <2>2 DEF QueryStatus
<1>3. CASE ApplyStatus
  <2>1. reconciler.pc = "apply"
    BY <1>3 DEF ApplyStatus
  <2>2. \/ reconciler' = [RestingReconciler EXCEPT !.pc = "next",
                                                   !.todo = reconciler.todo]
        \/ reconciler' = RestingReconciler
    BY <1>3 DEF ApplyStatus
  <2> QED BY <2>1, <2>2 DEF PassMoves, PassRests, PassGoesOn, Pass, RestingReconciler
<1>4. CASE StopReconciler
  BY <1>4 DEF StopReconciler, PassMoves, PassRests, PassGoesOn, Pass,
     RestingReconciler
<1> QED BY <1>1, <1>2, <1>3, <1>4 DEF Reconcile

LEMMA PassMovesTypes ==
    ASSUME EngineTypes, PassMoves
    PROVE  PassTypeOK'
<1>0. /\ reconciler \in [pc: {"idle", "next", "apply"}, todo: SUBSET Snapshots,
                         seen: Snapshots \cup {NoSnapshot}, status: Statuses]
      /\ wallet \in [Hashes -> [status: Statuses, key: EventIds \cup {External, Nobody}]]
      /\ "unknown" \in Statuses
  BY DEF EngineTypes, PassTypeOK, HostsTypeOK, Statuses
<1>1. CASE PassRests
  BY <1>0, <1>1 DEF PassRests, RestingReconciler, PassTypeOK
<1>2. CASE PassLoads
  <2>1. PICK batch \in SUBSET Due :
            reconciler' = Pass("next", {Snapshot(attempts[e]) : e \in batch},
                               NoSnapshot, "unknown")
    BY <1>2 DEF PassLoads
  <2>2. {Snapshot(attempts[e]) : e \in batch} \subseteq Snapshots
    <3>1. ASSUME NEW e \in batch
          PROVE  Snapshot(attempts[e]) \in Snapshots
      <4>1. e \in EventIds /\ Exists(e)
        BY <2>1 DEF Due, Unresolved, Exists
      <4>2. attempts[e] \in AttemptRow
        BY <4>1, StoredRow DEF EngineTypes
      <4> QED BY <4>2, SnapshotOf
    <3> QED BY <3>1
  <2> QED BY <1>0, <2>1, <2>2 DEF PassTypeOK, Pass
<1>3. CASE PassSkips
  BY <1>0, <1>3 DEF PassSkips, PassTypeOK, Pass
<1>4. CASE PassAsks
  <2>1. PICK s \in reconciler.todo :
            reconciler' = Pass("apply", reconciler.todo \ {s}, s, wallet[s.hash].status)
    BY <1>4 DEF PassAsks
  <2>2. s \in Snapshots /\ wallet[s.hash].status \in Statuses
    BY <1>0 DEF Snapshots
  <2> QED BY <1>0, <2>1, <2>2 DEF PassTypeOK, Pass
<1>5. CASE PassGoesOn
  BY <1>0, <1>5 DEF PassGoesOn, PassTypeOK, Pass
<1> QED BY <1>1, <1>2, <1>3, <1>4, <1>5 DEF PassMoves

LEMMA PassAccountsStep ==
    ASSUME EngineTypes, Reconcile \/ StopReconciler
    PROVE  PassAccounts
<1>0. AccountingTypeOK /\ RowsOK /\ now = 0 /\ cast \in DOMAIN Casts /\ SettledFee \in Nat
  BY EngineAssumption DEF EngineTypes, EstablishedOnce, HostsTypeOK
<1>1. CASE LoadUnresolved \/ QueryStatus \/ StopReconciler
  BY <1>1 DEF LoadUnresolved, QueryStatus, StopReconciler, PassAccounts, ledgerVars
<1>2. CASE ApplyStatus
  <2> DEFINE h == reconciler.seen.hash
  <2>0. reconciler.pc = "apply"
    BY <1>2 DEF ApplyStatus
  <2>1. ASSUME NEW f \in TrackedBy(h),
               \/ ReleaseUninitiatedPayment(f, now) \/ MarkPaymentFailed(f, now)
               \/ MarkPaymentSucceeded(f, SettledAmount(h), SettledFee, now)
        PROVE  PassAccounts
    <3>1. f \in EventIds /\ Exists(f) /\ attempts[f].hash = h
      BY DEF TrackedBy
    <3>2. h = RequestOf[f].hash
      BY <1>0, <3>1 DEF RowsOK, RowOK
    <3>3. SettledAmount(h) \in Nat
      BY <1>0, <3>1, <3>2, SettledAmountOf
    <3>4. RowMarked(f) \/ RowReleased(f)
      BY <1>0, <2>1, <3>1, <3>3, ReleaseReleases, FailedMarks, SucceededMarks
    <3> QED BY <2>0, <3>4 DEF PassAccounts
  <2>2. CASE UNCHANGED <<registryVars, attempts>>
    BY <2>2 DEF PassAccounts
  <2> QED BY <1>2, <2>1, <2>2 DEF ApplyStatus
<1> QED BY <1>1, <1>2 DEF Reconcile

LEMMA PassTypes ==
    ASSUME EngineTypes, Reconcile \/ StopReconciler
    PROVE  EngineTypes'
<1>1. PassTypeOK'
  BY ReconcileMoves, PassMovesTypes
<1>2. UNCHANGED <<wallet, started, published, stale, cast, proc, now, events, lease, sent>>
  BY DEF Reconcile, StopReconciler, hostVars, ledgerVars, claimVars, LoadUnresolved,
     QueryStatus, ApplyStatus
<1>3. faults' \in 0..MaxFaults
  <2>1. faults \in 0..MaxFaults /\ MaxFaults \in Nat
    BY RequestTypes DEF EngineTypes, HostsTypeOK
  <2> QED BY <2>1 DEF Reconcile, StopReconciler
<1>4. AccountStep
  <2>1. TrackedBy(reconciler.seen.hash) \subseteq EventIds
    BY DEF TrackedBy
  <2> QED BY <2>1, PassAccountsStep DEF PassAccounts, AccountStep
<1>5. /\ AccountingTypeOK' /\ RowsOK' /\ OneAttemptPerHash'
      /\ RegistryTypeOK' /\ EstablishedOnce'
  BY <1>2, <1>4, AccountStepTypes
<1>6. RequestOf' = RequestOf /\ MaxFaults' = MaxFaults
  BY <1>2 DEF RequestOf, MaxFaults, Cast
<1>7. HostsTypeOK' /\ CallsTypeOK'
  BY <1>2, <1>3, <1>6 DEF EngineTypes, HostsTypeOK, CallsTypeOK, Holds
<1>8. ClaimsTypeOK'
  BY <1>2, <1>5 DEF EngineTypes, ClaimsTypeOK
<1> QED BY <1>1, <1>5, <1>7, <1>8 DEF EngineTypes

LEMMA WalletTypes ==
    ASSUME EngineTypes, (\E h \in Hashes : WalletSettles(h)) \/ PayOutside
    PROVE  EngineTypes'
<1>0. HostsTypeOK
  BY DEF EngineTypes
<1>1. UNCHANGED <<connections, outbox, used, now, events, lease, attempts, started,
                  published, sent, stale, cast, proc, reconciler, faults>>
  BY DEF WalletSettles, PayOutside, ledgerVars, registryVars, claimVars
<1>2. wallet' \in [Hashes -> [status: Statuses, key: EventIds \cup {External, Nobody}]]
  <2>1. CASE \E h \in Hashes : WalletSettles(h)
    BY <1>0, <2>1 DEF HostsTypeOK, WalletSettles, Statuses
  <2>2. CASE PayOutside
    <3>1. [status |-> "pending", key |-> External]
              \in [status: Statuses, key: EventIds \cup {External, Nobody}]
      BY DEF Statuses
    <3> QED BY <1>0, <2>2, <3>1 DEF HostsTypeOK, PayOutside, Submit
  <2> QED BY <2>1, <2>2
<1>3. RequestOf' = RequestOf /\ LegacyEvents' = LegacyEvents /\ MaxFaults' = MaxFaults
  BY <1>1 DEF RequestOf, LegacyEvents, MaxFaults, Cast
<1> QED BY <1>0, <1>1, <1>2, <1>3 DEF EngineTypes, ClaimsTypeOK, AccountingTypeOK,
        RegistryTypeOK, HostsTypeOK, CallsTypeOK, Holds, PassTypeOK, RowsOK, Exists,
        OneAttemptPerHash, EstablishedOnce

LEMMA CloserNat ==
    ASSUME NEW n \in Nat
    PROVE  Closer(n) \in Nat /\ Closer(n) <= n /\ (n > 1 => Closer(n) > 0)
BY DEF Closer

\* What a second, the end of the freshness window, a prune and a revocation
\* have in common.
LEMMA TableTypes ==
    ASSUME EngineTypes,
           events' \in [EventIds -> EventRow \cup {NoEvent}],
           lease' \in [Processes -> LeaseRecord \cup {NoLease}],
           \A p \in Processes : /\ lease'[p] # NoLease <=> lease[p] # NoLease
                                /\ lease[p] # NoLease =>
                                       lease'[p].event = lease[p].event,
           RegistryTypeOK', EstablishedOnce', stale' \subseteq EventIds,
           UNCHANGED <<attempts, wallet, started, published, sent, cast, proc,
                       reconciler, faults>>
    PROVE  EngineTypes'
<1>1. RequestOf' = RequestOf /\ LegacyEvents' = LegacyEvents /\ MaxFaults' = MaxFaults
  BY DEF RequestOf, LegacyEvents, MaxFaults, Cast
<1>2. now' \in Time
  BY RegistryAssumption DEF EstablishedOnce, Time
<1>3. ClaimsTypeOK' /\ AccountingTypeOK' /\ PassTypeOK'
  BY <1>2 DEF EngineTypes, ClaimsTypeOK, AccountingTypeOK, PassTypeOK
<1>4. HostsTypeOK' /\ RowsOK' /\ OneAttemptPerHash'
  BY <1>1 DEF EngineTypes, HostsTypeOK, RowsOK, Exists, OneAttemptPerHash
<1>5. CallsTypeOK'
  BY <1>1 DEF EngineTypes, CallsTypeOK, Holds
<1> QED BY <1>3, <1>4, <1>5 DEF EngineTypes

LEMMA SecondMoves ==
    ASSUME EngineTypes, Second
    PROVE  /\ \A e \in EventIds :
                  /\ events'[e] \in EventRow \cup {NoEvent}
                  /\ events[e] = NoEvent => events'[e] = NoEvent
                  /\ events[e] # NoEvent =>
                      /\ events'[e] \in EventRow
                      /\ events'[e].state = events[e].state
                      /\ events'[e].conn = events[e].conn
                      /\ events'[e].revision = events[e].revision
                      /\ events'[e].token = events[e].token
                      /\ events'[e].fresh <=> events[e].fresh
                      /\ events'[e].response = events[e].response
                      /\ events'[e].available_at = Closer(events[e].available_at)
           /\ \A p \in Processes :
                  /\ ~Holds(p) => lease'[p] = NoLease
                  /\ Holds(p) => /\ lease'[p] \in LeaseRecord
                                 /\ lease'[p].event = lease[p].event
                                 /\ lease'[p].token = lease[p].token
                                 /\ lease'[p].until = Closer(lease[p].until)
           /\ events' \in [EventIds -> EventRow \cup {NoEvent}]
           /\ lease' \in [Processes -> LeaseRecord \cup {NoLease}]
<1>0. /\ events \in [EventIds -> EventRow \cup {NoEvent}]
      /\ lease \in [Processes -> LeaseRecord \cup {NoLease}]
  BY DEF EngineTypes, ClaimsTypeOK
<1>1. ASSUME NEW e \in EventIds, events[e] # NoEvent
      PROVE  LET row == [events[e] EXCEPT
                             !.available_at = Closer(events[e].available_at)] IN
             /\ row \in EventRow /\ row.state = events[e].state
             /\ row.conn = events[e].conn /\ row.revision = events[e].revision
             /\ row.token = events[e].token /\ (row.fresh <=> events[e].fresh)
             /\ row.response = events[e].response
             /\ row.available_at = Closer(events[e].available_at)
  <2>1. events[e] \in EventRow /\ Closer(events[e].available_at) \in Nat
    BY <1>0, <1>1, CloserNat DEF EventRow
  <2> QED BY <2>1 DEF EventRow
<1>2. ASSUME NEW e \in EventIds
      PROVE  events'[e] = IF events[e] = NoEvent THEN NoEvent
                ELSE [events[e] EXCEPT !.available_at = Closer(events[e].available_at)]
  BY DEF Second
<1>3. ASSUME NEW p \in Processes, Holds(p)
      PROVE  LET l == [lease[p] EXCEPT !.until = Closer(lease[p].until)] IN
             /\ l \in LeaseRecord /\ l.event = lease[p].event
             /\ l.token = lease[p].token /\ l.until = Closer(lease[p].until)
  <2>1. lease[p] \in LeaseRecord /\ Closer(lease[p].until) \in Nat
    BY <1>0, <1>3, CloserNat DEF LeaseRecord, Holds
  <2> QED BY <2>1 DEF LeaseRecord
<1>4. ASSUME NEW p \in Processes
      PROVE  lease'[p] = IF Holds(p) THEN
                [lease[p] EXCEPT !.until = Closer(lease[p].until)] ELSE NoLease
  BY DEF Second
<1>5. \A e \in EventIds :
                  /\ events'[e] \in EventRow \cup {NoEvent}
                  /\ events[e] = NoEvent => events'[e] = NoEvent
                  /\ events[e] # NoEvent =>
                      /\ events'[e] \in EventRow
                      /\ events'[e].state = events[e].state
                      /\ events'[e].conn = events[e].conn
                      /\ events'[e].revision = events[e].revision
                      /\ events'[e].token = events[e].token
                      /\ events'[e].fresh <=> events[e].fresh
                      /\ events'[e].response = events[e].response
                      /\ events'[e].available_at = Closer(events[e].available_at)
  BY <1>1, <1>2
<1>6. \A p \in Processes :
                  /\ ~Holds(p) => lease'[p] = NoLease
                  /\ Holds(p) => /\ lease'[p] \in LeaseRecord
                                 /\ lease'[p].event = lease[p].event
                                 /\ lease'[p].token = lease[p].token
                                 /\ lease'[p].until = Closer(lease[p].until)
  BY <1>3, <1>4
<1>7. events' \in [EventIds -> EventRow \cup {NoEvent}]
  <2>1. events' = [e \in EventIds |-> events'[e]]
    BY DEF Second
  <2> QED BY <1>5, <2>1
<1>8. lease' \in [Processes -> LeaseRecord \cup {NoLease}]
  <2>1. lease' = [p \in Processes |-> lease'[p]]
    BY DEF Second
  <2> QED BY <1>6, <2>1
<1> QED BY <1>5, <1>6, <1>7, <1>8

LEMMA TimeTypes ==
    ASSUME EngineTypes, Second \/ LeaveFreshnessWindow \/ PruneTerminalRows \/ Revoke
    PROVE  EngineTypes'
<1>0. /\ events \in [EventIds -> EventRow \cup {NoEvent}]
      /\ lease \in [Processes -> LeaseRecord \cup {NoLease}]
      /\ stale \subseteq EventIds /\ RegistryTypeOK /\ EstablishedOnce
      /\ Cast.woken \subseteq EventIds
  BY RequestTypes DEF EngineTypes, ClaimsTypeOK, HostsTypeOK
<1>1. CASE Second
  <2>1. UNCHANGED <<connections, outbox, used, now, attempts, wallet, started, published,
                    sent, stale, cast, proc, reconciler, faults>>
    BY <1>1 DEF Second, registryVars, hostVars
  <2>2. RegistryTypeOK' /\ EstablishedOnce' /\ stale' \subseteq EventIds
    BY <1>0, <2>1 DEF RegistryTypeOK, EstablishedOnce
  <2>3. NoLease \notin LeaseRecord
    BY ClaimsAssumption DEF NoLease, LeaseRecord
  <2>4. \A p \in Processes : /\ lease'[p] # NoLease <=> lease[p] # NoLease
                             /\ lease[p] # NoLease => lease'[p].event = lease[p].event
    BY <1>1, <2>3, SecondMoves DEF Holds
  <2>5. /\ events' \in [EventIds -> EventRow \cup {NoEvent}]
        /\ lease' \in [Processes -> LeaseRecord \cup {NoLease}]
    BY <1>1, SecondMoves
  <2> QED BY <2>1, <2>2, <2>4, <2>5, TableTypes
<1>2. CASE LeaveFreshnessWindow
  <2>1. UNCHANGED <<connections, outbox, used, now, events, lease, attempts, wallet,
                    started, published, sent, cast, proc, reconciler, faults>>
    BY <1>2 DEF LeaveFreshnessWindow, ledgerVars, registryVars, claimVars
  <2>2. RegistryTypeOK' /\ EstablishedOnce'
    BY <1>0, <2>1 DEF RegistryTypeOK, EstablishedOnce
  <2>3. stale' \subseteq EventIds
    BY <1>0, <1>2 DEF LeaveFreshnessWindow
  <2> QED BY <1>0, <2>1, <2>2, <2>3, TableTypes
<1>3. CASE PruneTerminalRows
  <2>1. UNCHANGED <<connections, outbox, used, now, lease, attempts, wallet,
                    started, published, sent, stale, cast, proc, reconciler, faults>>
    BY <1>3 DEF PruneTerminalRows, registryVars, hostVars
  <2>2. RegistryTypeOK' /\ EstablishedOnce'
    BY <1>0, <2>1 DEF RegistryTypeOK, EstablishedOnce
  <2>3. events' \in [EventIds -> EventRow \cup {NoEvent}]
    BY <1>0, <1>3 DEF PruneTerminalRows
  <2> QED BY <1>0, <2>1, <2>2, <2>3, TableTypes
<1>4. CASE Revoke
  <2>1. UNCHANGED <<now, events, lease, attempts, wallet, started, published, sent,
                    stale, cast, proc, reconciler, faults>>
    BY <1>4 DEF Revoke, claimVars, hostVars
  <2>2. PICK c \in ConnectionIds : TombstoneConnection(c, connections[c].revision, now)
    BY <1>4 DEF Revoke
  <2>3. connections[c].revision \in Nat /\ now \in Time
    BY <1>0 DEF RegistryTypeOK, ConnectionRow, EngineTypes, ClaimsTypeOK
  <2>4. RegistryTypeOK'
    BY <1>0, <2>2, <2>3, TombstoneConnectionType
  <2>5. EstablishedOnce'
    <3>1. /\ connections'[c].status = "tombstoned"
          /\ \A d \in ConnectionIds : d # c => connections'[d] = connections[d]
      BY <1>0, <2>2 DEF TombstoneConnection, RegistryTypeOK, ConnectionRow
    <3> QED BY <1>0, <2>1, <3>1 DEF EstablishedOnce
  <2> QED BY <1>0, <2>1, <2>4, <2>5, TableTypes
<1> QED BY <1>1, <1>2, <1>3, <1>4

LEMMA LeftRow ==
    ASSUME cast \in DOMAIN Casts, NEW e \in LegacyEvents \cup LeftEvents
    PROVE  /\ LeftAttempt(e) \in AttemptRow
           /\ RowOK(RequestOf, LegacyEvents, e, LeftAttempt(e))
           /\ LeftAttempt(e).state = "pending" /\ LeftAttempt(e).initiated
           /\ LeftAttempt(e).hash = RequestOf[e].hash
<1> DEFINE r == RequestOf[e]
<1>1. /\ e \in EventIds /\ r.hash \in Hashes /\ r.conn \in ConnectionIds
      /\ r.principal \in Nat
  BY RequestTypes
<1>2. r.kind = "pay_invoice" /\ r.principal > 0 /\ MayPay[r.conn]
  BY LeftTypes
<1>3. MaximumFee[r.conn] \in Nat /\ 0 \in Time
  BY <1>1, RegistryAssumption DEF Time
<1> DEFINE legacy == e \in LegacyEvents
<1>4. LeftAttempt(e) =
        [hash |-> r.hash, conn |-> r.conn, revision |-> 0, period |-> 0,
         principal |-> r.principal, fee_reserve |-> MaximumFee[r.conn],
         state |-> "pending", initiated |-> TRUE, legacy |-> legacy,
         actual_principal |-> 0, actual_fee |-> 0, charged |-> 0,
         exceeded |-> FALSE, updated_at |-> 0]
  BY DEF LeftAttempt
<1>8. legacy \in BOOLEAN
  OBVIOUS
<1> HIDE DEF r, legacy
<1>5. LeftAttempt(e) \in AttemptRow
  BY <1>1, <1>3, <1>4, <1>8 DEF AttemptRow
<1>6. /\ LeftAttempt(e).hash = r.hash /\ LeftAttempt(e).conn = r.conn
      /\ LeftAttempt(e).revision = 0 /\ LeftAttempt(e).principal = r.principal
      /\ LeftAttempt(e).fee_reserve = MaximumFee[r.conn]
      /\ LeftAttempt(e).state = "pending" /\ LeftAttempt(e).updated_at = 0
      /\ LeftAttempt(e).initiated = TRUE /\ LeftAttempt(e).legacy = legacy
  BY <1>4
<1>7. RowOK(RequestOf, LegacyEvents, e, LeftAttempt(e))
  BY <1>2, <1>6 DEF RowOK, r, legacy
<1> QED BY <1>5, <1>6, <1>7 DEF r

LEMMA LeftDebitsNat ==
    ASSUME cast \in DOMAIN Casts, NEW c \in ConnectionIds
    PROVE  LeftDebits(c) \in Nat
<1> DEFINE d == [e \in EventIds |->
                    IF e \in LegacyEvents \cup LeftEvents /\ RequestOf[e].conn = c
                    THEN Reserved(LeftAttempt(e)) ELSE 0]
<1>1. d \in [EventIds -> Nat]
  BY LeftRow, ReservedNat
<1> HIDE DEF d
<1>2. SumFunctionOnSet(d, EventIds) \in Nat
  BY <1>1, SumOfNaturals, AccountingAssumption
<1> QED BY <1>2 DEF LeftDebits, d

LEMMA EngineTypesInit == EngineInit => EngineTypes
<1> SUFFICES ASSUME EngineInit PROVE EngineTypes
  OBVIOUS
<1>0. /\ cast \in DOMAIN Casts /\ now = 0 /\ faults = 0 /\ stale = {} /\ sent = {}
      /\ published = {} /\ started = LeftEvents
      /\ reconciler = RestingReconciler
      /\ proc = [p \in Processes |-> Idle]
      /\ lease = [p \in Processes |-> NoLease]
      /\ events = [e \in EventIds |-> NoEvent]
  BY DEF EngineInit
<1>1. /\ LegacyEvents \subseteq EventIds /\ LeftEvents \subseteq EventIds
      /\ MaxFaults \in Nat /\ LegacyEvents \cap LeftEvents = {}
  BY <1>0, RequestTypes
<1>2. 0 \in Time
  BY RegistryAssumption DEF Time
<1>3. /\ connections \in [ConnectionIds -> ConnectionRow]
      /\ \A c \in ConnectionIds : connections[c].revision = 0
  <2>1. [AbsentConnection EXCEPT !.status = "active"] \in ConnectionRow
        /\ [AbsentConnection EXCEPT !.status = "active"].revision = 0
    BY <1>2 DEF AbsentConnection, ConnectionRow
  <2> QED BY <2>1 DEF EngineInit
<1>4. used \in [ConnectionIds -> [Time -> Nat]]
  <2>1. \A c \in ConnectionIds : LeftDebits(c) \in Nat
    BY <1>0, LeftDebitsNat
  <2> QED BY <2>1 DEF EngineInit
<1>5. RegistryTypeOK
  BY <1>3, <1>4 DEF RegistryTypeOK, EngineInit
<1>6. attempts = [e \in EventIds |->
           IF e \in LegacyEvents \cup LeftEvents THEN LeftAttempt(e) ELSE NoAttempt]
  BY DEF EngineInit
<1>7. AccountingTypeOK
  <2>1. attempts \in [EventIds -> AttemptRow \cup {NoAttempt}]
    BY <1>0, <1>6, LeftRow
  <2> QED BY <1>5, <2>1 DEF AccountingTypeOK
<1>8. \A e \in EventIds : Exists(e) => e \in LegacyEvents \cup LeftEvents
                                       /\ attempts[e] = LeftAttempt(e)
  BY <1>6 DEF Exists, NoAttempt
<1>9. RowsOK
  <2>1. \A e \in EventIds : Exists(e) => RowOK(RequestOf, LegacyEvents, e, attempts[e])
    BY <1>0, <1>8, LeftRow
  <2>2. \A e \in LegacyEvents : Exists(e) /\ attempts[e].state # "reserved"
    BY <1>0, <1>1, <1>6, LeftRow DEF Exists
  <2> QED BY <2>1, <2>2 DEF RowsOK
<1>10. OneAttemptPerHash
  <2> SUFFICES ASSUME NEW e \in EventIds, NEW f \in EventIds, Exists(e), Exists(f),
                      attempts[e].hash = attempts[f].hash
               PROVE  e = f
    BY DEF OneAttemptPerHash
  <2>1. /\ e \in LegacyEvents \cup LeftEvents /\ f \in LegacyEvents \cup LeftEvents
        /\ attempts[e] = LeftAttempt(e) /\ attempts[f] = LeftAttempt(f)
    BY <1>8
  <2>2. RequestOf[e].hash = RequestOf[f].hash
    BY <1>0, <2>1, LeftRow
  <2> QED BY <1>0, <2>1, <2>2, LeftTypes
<1>11. ClaimsTypeOK
  BY <1>0, <1>2, <1>5 DEF ClaimsTypeOK
<1>12. wallet \in [Hashes -> [status: Statuses, key: EventIds \cup {External, Nobody}]]
  <2>1. wallet \in [Hashes -> {NoPayment}
           \cup [status: {"pending", "succeeded", "failed"}, key: LegacyEvents]
           \cup [status: {"pending"}, key: LeftEvents]]
    BY DEF EngineInit
  <2>2. {NoPayment} \cup [status: {"pending", "succeeded", "failed"}, key: LegacyEvents]
           \cup [status: {"pending"}, key: LeftEvents]
        \subseteq [status: Statuses, key: EventIds \cup {External, Nobody}]
    BY <1>1 DEF NoPayment, Statuses
  <2> QED BY <2>1, <2>2
<1>13. HostsTypeOK
  BY <1>0, <1>1, <1>12 DEF HostsTypeOK
<1>14. CallsTypeOK
  <2>1. Idle.pc \notin WorkPcs
    BY DEF Idle, WorkPcs, EarlyPcs, PayPcs
  <2> QED BY <1>0, <2>1 DEF CallsTypeOK, Holds
<1>15. PassTypeOK
  BY <1>0 DEF PassTypeOK, RestingReconciler, Statuses
<1>16. EstablishedOnce
  BY <1>0, <1>3 DEF EstablishedOnce
<1> QED BY <1>7, <1>9, <1>10, <1>11, <1>13, <1>14, <1>15, <1>16 DEF EngineTypes

\* The next-state relation, one disjunct per lemma.
LEMMA EngineSteps ==
    ASSUME EngineNext
    PROVE  \/ \E p \in Processes : StepOf(p)
           \/ Reconcile \/ StopReconciler
           \/ (\E h \in Hashes : WalletSettles(h)) \/ PayOutside
           \/ Second \/ LeaveFreshnessWindow \/ PruneTerminalRows \/ Revoke
BY DEF EngineNext, StepOf

LEMMA EngineTypesStep ==
    ASSUME EngineTypes, [EngineNext]_engineVars
    PROVE  EngineTypes'
<1>1. CASE EngineNext
  BY <1>1, EngineSteps, CallTypes, PassTypes, WalletTypes, TimeTypes
<1>2. CASE UNCHANGED engineVars
  <2>1. UNCHANGED <<connections, outbox, used, now, events, lease, attempts, wallet,
                    started, published, sent, stale, cast, proc, reconciler, faults>>
    BY <1>2 DEF engineVars, ledgerVars, registryVars, claimVars, hostVars
  <2>2. RegistryTypeOK' /\ EstablishedOnce' /\ stale' \subseteq EventIds
    BY <2>1 DEF EngineTypes, ClaimsTypeOK, RegistryTypeOK, EstablishedOnce, HostsTypeOK
  <2>3. /\ events' \in [EventIds -> EventRow \cup {NoEvent}]
        /\ lease' \in [Processes -> LeaseRecord \cup {NoLease}]
    BY <2>1 DEF EngineTypes, ClaimsTypeOK
  <2> QED BY <2>1, <2>2, <2>3, TableTypes
<1> QED BY <1>1, <1>2

(***************************************************************************)
(* What the calls keep in memory, the tables and the hosts' records keep   *)
(* their types, a call has a lease exactly from its claim to the end of    *)
(* its work, and every stored attempt is the one its request asked for:    *)
(* with any number of processes, whatever fails.                           *)
(***************************************************************************)
THEOREM EngineTypeCorrect == EngineSafety => []EngineTypeOK
<1>1. EngineTypes => EngineTypeOK
  <2> SUFFICES ASSUME EngineTypes PROVE EngineTypeOK
    OBVIOUS
  <2>1. ASSUME NEW p \in Processes, proc[p] # Idle
        PROVE  /\ proc[p].event \in EventIds /\ proc[p].status \in Statuses
               /\ Holds(p) <=> proc[p].pc \notin {"claim", "publish", "send"}
    <3>1. CallOK(RequestOf, proc[p]) /\ (proc[p].pc \in WorkPcs <=> Holds(p))
      BY <2>1 DEF EngineTypes, CallsTypeOK
    <3>2. proc[p].event \in EventIds /\ proc[p].status \in Statuses
          /\ proc[p].pc \in {"claim", "publish", "send"} \cup WorkPcs
      BY <3>1 DEF CallOK, Calls
    <3> QED BY <3>1, <3>2 DEF WorkPcs, EarlyPcs, PayPcs
  <2>2. reconciler.status \in Statuses
    BY DEF EngineTypes, PassTypeOK
  <2> QED BY <2>1, <2>2 DEF EngineTypes, HostsTypeOK, EngineTypeOK
<1> QED BY <1>1, EngineTypesInit, EngineTypesStep, PTL DEF EngineSafety

-----------------------------------------------------------------------------
(* Leases and rows: what EventClaims proves of them holds of the engine.   *)

ClaimsHold == LeaseMatchesRow /\ TokensDistinct

LEMMA CallKeepsClaims ==
    ASSUME EngineTypes, ClaimsHold, NEW p \in Processes, StepOf(p)
    PROVE  ClaimsHold'
<1>1. CallStep(p) /\ now' = now /\ ClaimsTypeOK' /\ ClaimsInv
  BY StepOfCall, CallTypes DEF EngineTypes, ClaimsInv, ClaimsHold
<1>2. now \in 0..now /\ ClaimsTypeOK
  BY DEF EngineTypes, EstablishedOnce
<1>3. CASE UNCHANGED <<events, lease>>
  BY <1>1, <1>3 DEF ClaimsHold, LeaseMatchesRow, TokensDistinct, Holds
<1>4. CASE Acquires(p)
  <2>1. proc[p].pc = "claim" /\ \E d \in Leases :
           ClaimEvent(p, proc[p].event, proc[p].conn, proc[p].revision, now, d)
    BY <1>4 DEF Acquires
  <2>2. proc[p].event \in EventIds
    BY <2>1, RunningCall
  <2> QED BY <1>1, <1>2, <2>1, <2>2, ClaimEventKeepsLeases DEF ClaimsHold
<1>5. CASE Accepts(p) \/ Commits(p) \/ Rejects(p) \/ Retries(p)
  <2>1. ASSUME NEW kind, NEW response, CompleteEvent(p, kind, response, now)
        PROVE  ClaimsHold'
    <3>1. OwnsLease(p, now) /\ lease' = [lease EXCEPT ![p] = NoLease]
      BY <2>1 DEF CompleteEvent
    <3>2. lease[p].event \in EventIds /\ events \in [EventIds -> EventRow \cup {NoEvent}]
          /\ lease \in [Processes -> LeaseRecord \cup {NoLease}]
      BY <1>2, <3>1, HolderTypes DEF OwnsLease, ClaimsTypeOK
    <3>3. events' = [events EXCEPT ![lease[p].event] = events'[lease[p].event]]
      BY <2>1, <3>2 DEF CompleteEvent
    <3>4. lease' = [lease EXCEPT ![p] = lease'[p]] /\ lease'[p] = NoLease
      BY <3>1, <3>2
    <3> QED BY <1>1, <3>1, <3>3, <3>4, OwnerKeepsLeases DEF ClaimsHold
  <2>2. CASE Accepts(p)
    <3>1. ProcessStep(p)
      BY <1>2, <2>2 DEF Accepts, ProcessStep, Accept
    <3> QED BY <1>1, <3>1, ProcessStepKeepsLeases DEF ClaimsHold
  <2>3. CASE Retries(p)
    <3>1. ProcessStep(p)
      BY <1>2, <2>3 DEF Retries, ProcessStep, Retry
    <3> QED BY <1>1, <3>1, ProcessStepKeepsLeases DEF ClaimsHold
  <2> QED BY <1>5, <2>1, <2>2, <2>3 DEF Commits, Rejects,
          CompleteEventForActiveConnection
<1>6. CASE Ends(p)
  <2>1. /\ events' = events /\ lease'[p] = NoLease
        /\ \A q \in Processes : q # p => lease'[q] = lease[q]
    BY <1>2, <1>6 DEF Ends, ClaimsTypeOK
  <2> QED BY <1>1, <2>1 DEF ClaimsHold, LeaseMatchesRow, TokensDistinct, Holds
<1> QED BY <1>1, <1>3, <1>4, <1>5, <1>6
        DEF CallStep, Inner, Begins, Replays, Sends, Publishes

LEMMA SecondKeepsClaims ==
    ASSUME EngineTypes, ClaimsHold, Second
    PROVE  ClaimsHold'
<1>0. now' = now /\ now = 0 /\ ClaimsTypeOK
  BY DEF Second, EngineTypes, EstablishedOnce
<1>1. \A p \in Processes : Holds(p)' <=> Holds(p)
  <2>1. NoLease \notin LeaseRecord
    BY ClaimsAssumption DEF NoLease, LeaseRecord
  <2> QED BY <2>1, SecondMoves DEF Holds
<1>2. ASSUME NEW p \in Processes, Holds(p)
      PROVE  /\ lease'[p].event = lease[p].event /\ lease'[p].token = lease[p].token
             /\ lease'[p].until = Closer(lease[p].until)
  BY <1>2, SecondMoves
<1>3. TokensDistinct'
  BY <1>1, <1>2 DEF ClaimsHold, TokensDistinct
<1>4. LeaseMatchesRow'
  <2> SUFFICES ASSUME NEW p \in Processes, Holds(p), ~(lease'[p].until <= 0)
      PROVE  /\ events'[lease'[p].event] # NoEvent
             /\ events'[lease'[p].event].state = "claimed"
             /\ events'[lease'[p].event].token = lease'[p].token
             /\ events'[lease'[p].event].available_at = lease'[p].until
    BY <1>0, <1>1 DEF LeaseMatchesRow
  <2> DEFINE e == lease[p].event
  <2>1. lease[p].until \in Nat /\ e \in EventIds /\ lease'[p].until = Closer(lease[p].until)
    BY <1>0, <1>2, HolderTypes
  <2>2. ~(lease[p].until <= 0)
    BY <2>1 DEF Closer
  <2>3. /\ events[e] # NoEvent /\ events[e].state = "claimed"
        /\ events[e].token = lease[p].token
        /\ events[e].available_at = lease[p].until
    BY <1>0, <2>2 DEF ClaimsHold, LeaseMatchesRow
  <2>4. /\ events'[e].state = "claimed" /\ events'[e].token = lease[p].token
        /\ events'[e].available_at = Closer(lease[p].until)
    BY <2>1, <2>3, SecondMoves
  <2> QED BY <1>2, <2>1, <2>4 DEF NoEvent
<1> QED BY <1>3, <1>4 DEF ClaimsHold

LEMMA PruneKeepsClaims ==
    ASSUME EngineTypes, ClaimsHold, PruneTerminalRows
    PROVE  ClaimsHold'
<1>0. ClaimsTypeOK /\ lease' = lease /\ now' = now
  BY DEF EngineTypes, PruneTerminalRows
<1>1. PICK e \in stale : events[e].state = "terminal"
                         /\ events' = [events EXCEPT ![e] = NoEvent]
  BY DEF PruneTerminalRows
<1>2. \A p \in Processes : Holds(p) => lease[p].event \in EventIds
  BY <1>0, HolderTypes
<1>3. \A f \in EventIds : events[f].state = "claimed" => events'[f] = events[f]
  BY <1>0, <1>1 DEF ClaimsTypeOK
<1> QED BY <1>0, <1>2, <1>3 DEF ClaimsHold, LeaseMatchesRow, TokensDistinct, Holds

LEMMA ClaimsHoldStep ==
    ASSUME EngineTypes, ClaimsHold, [EngineNext]_engineVars
    PROVE  ClaimsHold'
<1>1. CASE UNCHANGED <<now, events, lease>>
  BY <1>1 DEF ClaimsHold, LeaseMatchesRow, TokensDistinct, Holds
<1>2. CASE EngineNext
  <2>1. CASE (\E h \in Hashes : WalletSettles(h)) \/ PayOutside \/ LeaveFreshnessWindow
             \/ Revoke \/ Reconcile \/ StopReconciler
    <3>1. UNCHANGED <<now, events, lease>>
      BY <2>1 DEF WalletSettles, PayOutside, LeaveFreshnessWindow, Revoke, Reconcile,
         StopReconciler, LoadUnresolved, QueryStatus, ApplyStatus, ledgerVars, claimVars
    <3> QED BY <1>1, <3>1
  <2> QED BY <1>2, <2>1, EngineSteps, CallKeepsClaims, SecondKeepsClaims,
          PruneKeepsClaims
<1> QED BY <1>1, <1>2 DEF engineVars, ledgerVars, claimVars

LEMMA ClaimsHoldInit == EngineInit => ClaimsHold
BY DEF EngineInit, ClaimsHold, LeaseMatchesRow, TokensDistinct, Holds

-----------------------------------------------------------------------------
(* A request is answered one way.                                          *)

\* An answer was published, or a call is about to publish it.
Answered(e, r) ==
    \/ [event |-> e, response |-> r] \in published
    \/ \E p \in Processes : /\ proc[p].pc \in {"publish", "send"}
                            /\ proc[p].event = e /\ proc[p].response = r

\* The row holds the answer, or it cannot get one any more unless the event
\* passes the freshness check.
Stands(row, r) == row.state = "terminal" /\ row.response = r

Closed(row) ==
    \/ row = NoEvent
    \/ row.state = "terminal" /\ row.response = "none"
    \/ row.state # "terminal" /\ ~row.fresh

\* The row is this holder's claim.
OwnRow(p, row) ==
    row # NoEvent /\ row.state = "claimed" /\ row.token = lease[p].token

\* A call whose claim was not found fresh has not got past the check.
Unchecked ==
    \A p \in Processes :
        Holds(p) /\ OwnRow(p, events[lease[p].event]) /\ ~events[lease[p].event].fresh
            => proc[p].pc \in EarlyPcs

AnswerStands ==
    \A e \in EventIds, r \in Responses :
        Answered(e, r) => Stands(events[e], r) \/ (e \in stale /\ Closed(events[e]))

OneAnswer ==
    \A e \in EventIds, r \in Responses, s \in Responses :
        Answered(e, r) /\ Answered(e, s) => r = s

AnswersInv == ClaimsHold /\ Unchecked /\ AnswerStands /\ OneAnswer

StillAnswers(old, new) ==
    /\ \A r \in Responses : Stands(old, r) => Stands(new, r)
    /\ Closed(old) => Closed(new)

\* No new answer is given.
LEMMA AnswersStay ==
    ASSUME AnswerStands, OneAnswer, stale \subseteq stale',
           \A e \in EventIds, r \in Responses : Answered(e, r)' => Answered(e, r),
           \A e \in EventIds, r \in Responses :
               Answered(e, r) => \/ StillAnswers(events[e], events'[e])
                                 \/ e \in stale /\ Closed(events'[e])
    PROVE  AnswerStands' /\ OneAnswer'
<1>1. AnswerStands'
  <2> SUFFICES ASSUME NEW e \in EventIds, NEW r \in Responses, Answered(e, r)'
               PROVE  Stands(events'[e], r) \/ (e \in stale' /\ Closed(events'[e]))
    BY DEF AnswerStands
  <2>1. Answered(e, r)
    OBVIOUS
  <2>2. Stands(events[e], r) \/ (e \in stale /\ Closed(events[e]))
    BY <2>1 DEF AnswerStands
  <2> QED BY <2>1, <2>2 DEF StillAnswers
<1>2. OneAnswer'
  BY DEF OneAnswer
<1> QED BY <1>1, <1>2

\* The answer stored in the row of e0 is given.
LEMMA AnswerGiven ==
    ASSUME AnswerStands, OneAnswer, stale' = stale,
           NEW e0 \in EventIds, NEW r0 \in Responses, Stands(events'[e0], r0),
           \A r \in Responses : Answered(e0, r) => r = r0,
           \A e \in EventIds, r \in Responses :
               Answered(e, r)' => Answered(e, r) \/ (e = e0 /\ r = r0),
           \A e \in EventIds : e # e0 => events'[e] = events[e]
    PROVE  AnswerStands' /\ OneAnswer'
<1>1. AnswerStands'
  <2> SUFFICES ASSUME NEW e \in EventIds, NEW r \in Responses, Answered(e, r)'
               PROVE  Stands(events'[e], r) \/ (e \in stale' /\ Closed(events'[e]))
    BY DEF AnswerStands
  <2>1. CASE e = e0
    BY <2>1
  <2>2. CASE e # e0
    <3>1. Answered(e, r) /\ events'[e] = events[e]
      BY <2>2
    <3> QED BY <3>1 DEF AnswerStands
  <2> QED BY <2>1, <2>2
<1>2. OneAnswer'
  BY DEF OneAnswer
<1> QED BY <1>1, <1>2

\* The answers a call's step leaves or adds.
LEMMA AnswersAfter ==
    ASSUME NEW p \in Processes, NEW w, proc \in [Processes -> Calls \cup {Idle}],
           proc' = [proc EXCEPT ![p] = w]
    PROVE  /\ published' = published /\ w.pc \notin {"publish", "send"} =>
                  \A e, r : Answered(e, r)' => Answered(e, r)
           /\ published' = published /\ w.pc \in {"publish", "send"} =>
                  \A e, r : Answered(e, r)' =>
                      Answered(e, r) \/ (e = w.event /\ r = w.response)
<1>1. proc'[p] = w /\ \A q \in Processes : q # p => proc'[q] = proc[q]
  OBVIOUS
<1> QED BY <1>1 DEF Answered

LEMMA CallKeepsAnswers ==
    ASSUME EngineTypes, AnswersInv, NEW p \in Processes, StepOf(p)
    PROVE  AnswersInv'
<1>0. /\ CallStep(p) /\ stale' = stale /\ now' = now /\ now = 0 /\ ClaimsHold'
      /\ ClaimsHold /\ Unchecked /\ AnswerStands /\ OneAnswer
      /\ proc \in [Processes -> Calls \cup {Idle}]
      /\ events \in [EventIds -> EventRow \cup {NoEvent}]
      /\ lease \in [Processes -> LeaseRecord \cup {NoLease}]
      /\ \A q \in Processes : proc[q].pc \in WorkPcs <=> Holds(q)
      /\ \A q \in Processes : Holds(q) => lease[q].event = proc[q].event
  BY StepOfCall, CallKeepsClaims
  DEF EngineTypes, EstablishedOnce, AnswersInv, CallsTypeOK, ClaimsTypeOK
<1>1. \A q \in Processes : Holds(q) => lease[q].event \in EventIds
  BY <1>0 DEF Holds, LeaseRecord
<1>2. "idle" \notin WorkPcs \cup {"publish", "send"} /\ Idle.pc = "idle"
      /\ "claim" \notin WorkPcs \cup {"publish", "send"}
      /\ {"publish", "send"} \cap WorkPcs = {}
      /\ "commit" \in WorkPcs \ EarlyPcs /\ "commit" \in AnswerPcs
  BY DEF WorkPcs, PayPcs, EarlyPcs, AnswerPcs, Idle
<1>3. CASE Inner(p)
  <2>1. PICK w \in Calls : /\ proc' = [proc EXCEPT ![p] = w] /\ w.pc \in WorkPcs
                           /\ proc[p].pc \in EarlyPcs => w.pc \in {"reject", "retry"}
    BY <1>3 DEF Inner
  <2>2. UNCHANGED <<events, lease, published>>
    BY <1>3 DEF Inner
  <2>3. \A e \in EventIds, r \in Responses : Answered(e, r)' => Answered(e, r)
    BY <1>0, <1>2, <2>1, <2>2, AnswersAfter
  <2>4. Unchecked'
    <3>1. proc'[p] = w /\ \A q \in Processes : q # p => proc'[q] = proc[q]
      BY <1>0, <2>1
    <3> QED BY <1>0, <2>1, <2>2, <3>1 DEF Unchecked, Holds, OwnRow, EarlyPcs
  <2>5. AnswerStands' /\ OneAnswer'
    BY <1>0, <2>2, <2>3, AnswersStay DEF StillAnswers
  <2> QED BY <1>0, <2>4, <2>5 DEF AnswersInv
<1>4. CASE Begins(p) \/ Ends(p)
  <2>1. PICK w : proc' = [proc EXCEPT ![p] = w] /\ w.pc \notin WorkPcs \cup {"publish", "send"}
    BY <1>2, <1>4 DEF Begins, Ends
  <2>2. UNCHANGED <<events, published>>
    BY <1>4 DEF Begins, Ends
  <2>3. \A e \in EventIds, r \in Responses : Answered(e, r)' => Answered(e, r)
    BY <1>0, <2>1, <2>2, AnswersAfter
  <2>4. Unchecked'
    <3>1. /\ \A q \in Processes : q # p => proc'[q] = proc[q] /\ lease'[q] = lease[q]
          /\ lease'[p] = NoLease
      BY <1>0, <1>2, <1>4, <2>1 DEF Begins, Ends, Holds
    <3> QED BY <1>0, <2>2, <3>1 DEF Unchecked, Holds, OwnRow
  <2>5. AnswerStands' /\ OneAnswer'
    BY <1>0, <2>2, <2>3, AnswersStay DEF StillAnswers
  <2> QED BY <1>0, <2>4, <2>5 DEF AnswersInv
<1>5. CASE Acquires(p)
  <2> DEFINE e == proc[p].event
             pc == IF lease'[p].fresh THEN "secret" ELSE "freshness"
  <2>1. proc[p].pc = "claim" /\ published' = published
        /\ Stepped(p, pc, proc[p].seen, proc[p].status, proc[p].response)
    BY <1>5 DEF Acquires
  <2>2. PICK d \in Leases : ClaimEvent(p, e, proc[p].conn, proc[p].revision, now, d)
    BY <1>5 DEF Acquires
  <2>3. e \in EventIds
    BY <2>1, RunningCall
  <2> DEFINE accepted == events[e] # NoEvent /\ events[e].fresh
  <2>4. PICK token \in FreshTokens :
            /\ events' = [events EXCEPT ![e] =
                   [state |-> "claimed", conn |-> proc[p].conn,
                    revision |-> proc[p].revision,
                    token |-> token, available_at |-> now + d,
                    fresh |-> accepted, kind |-> "none",
                    response |-> "none", updated_at |-> now]]
            /\ lease' = [lease EXCEPT ![p] =
                   [event |-> e, token |-> token, until |-> now + d,
                    fresh |-> accepted]]
    BY <2>2 DEF ClaimEvent
  <2> HIDE DEF accepted
  <2>5. /\ events'[e].state = "claimed" /\ events'[e].token = token
        /\ events'[e].fresh = accepted
        /\ lease'[p].event = e /\ lease'[p].token = token /\ lease'[p].fresh = accepted
        /\ \A f \in EventIds : f # e => events'[f] = events[f]
        /\ \A q \in Processes : q # p => lease'[q] = lease[q]
    BY <1>0, <2>3, <2>4
  <2>6. proc'[p].pc = pc /\ \A q \in Processes : q # p => proc'[q] = proc[q]
    BY <1>0, <2>1 DEF Stepped, Call
  <2>7. events[e] = NoEvent \/ events[e].state # "terminal"
    BY <2>2 DEF ClaimEvent, ClaimOutcome, NoEvent
  <2>8. StillAnswers(events[e], events'[e])
    <3>1. Closed(events[e]) => ~accepted
      BY <2>7 DEF Closed, accepted
    <3>2. Closed(events[e]) => Closed(events'[e])
      BY <2>5, <3>1 DEF Closed
    <3>3. \A r \in Responses : ~Stands(events[e], r)
      BY <2>7 DEF Stands, NoEvent
    <3> QED BY <3>2, <3>3 DEF StillAnswers
  <2>9. \A f \in EventIds : StillAnswers(events[f], events'[f])
    BY <2>5, <2>8 DEF StillAnswers
  <2>10. \A f \in EventIds, r \in Responses : Answered(f, r)' => Answered(f, r)
    BY <2>1, <2>6 DEF Answered
  <2>11. AnswerStands' /\ OneAnswer'
    BY <1>0, <2>9, <2>10, AnswersStay
  <2>12. Unchecked'
    <3> SUFFICES ASSUME NEW q \in Processes, lease'[q] # NoLease,
                        events'[lease'[q].event] # NoEvent,
                        events'[lease'[q].event].state = "claimed",
                        events'[lease'[q].event].token = lease'[q].token,
                        ~events'[lease'[q].event].fresh
                 PROVE  proc'[q].pc \in EarlyPcs
      BY DEF Unchecked, Holds, OwnRow
    <3>1. CASE q = p
      BY <2>5, <2>6, <3>1 DEF EarlyPcs
    <3>2. CASE q # p
      <4>1. lease'[q] = lease[q] /\ proc'[q] = proc[q] /\ Holds(q)
        BY <2>5, <2>6, <3>2 DEF Holds
      <4>2. lease[q].token # token
        BY <2>4 DEF FreshTokens
      <4>3. lease[q].event # e
        BY <2>5, <4>1, <4>2
      <4>4. events'[lease[q].event] = events[lease[q].event]
        BY <1>1, <2>5, <4>1, <4>3
      <4> QED BY <1>0, <4>1, <4>4 DEF Unchecked, OwnRow
    <3> QED BY <3>1, <3>2
  <2> QED BY <1>0, <2>11, <2>12 DEF AnswersInv
<1>6. CASE Replays(p)
  <2> DEFINE e == proc[p].event
             r == events[e].response
  <2>1. /\ proc[p].pc = "claim" /\ UNCHANGED <<events, lease, published>>
        /\ events[e] # NoEvent /\ events[e].state = "terminal" /\ r # "none"
        /\ Stepped(p, "publish", proc[p].seen, proc[p].status, r)
    BY <1>6 DEF Replays
  <2>2. e \in EventIds
    BY <2>1, RunningCall
  <2>3. r \in Responses
    BY <1>0, <2>1, <2>2 DEF EventRow
  <2>4. /\ proc'[p].pc = "publish" /\ proc'[p].event = e /\ proc'[p].response = r
        /\ \A q \in Processes : q # p => proc'[q] = proc[q]
    BY <1>0, <2>1 DEF Stepped, Call
  <2>5. \A f \in EventIds, s \in Responses :
            Answered(f, s)' => Answered(f, s) \/ (f = e /\ s = r)
    BY <2>1, <2>4 DEF Answered
  <2>6. \A s \in Responses : Answered(e, s) => s = r
    BY <1>0, <2>1, <2>2 DEF AnswerStands, Stands, Closed
  <2>7. Stands(events'[e], r)
    BY <2>1 DEF Stands
  <2> HIDE DEF r
  <2>8. AnswerStands' /\ OneAnswer'
    BY <1>0, <2>1, <2>2, <2>3, <2>5, <2>6, <2>7, AnswerGiven
  <2>9. Unchecked'
    <3>1. ~Holds(p)
      BY <1>0, <1>2, <2>1
    <3> QED BY <1>0, <2>1, <2>4, <3>1 DEF Unchecked, Holds, OwnRow
  <2> QED BY <1>0, <2>8, <2>9 DEF AnswersInv
<1>7. CASE Accepts(p)
  <2> DEFINE e == lease[p].event
  <2>1. /\ proc[p].pc = "freshness" /\ proc[p].event \notin stale
        /\ OwnsLease(p, now) /\ lease' = lease /\ published' = published
        /\ events' = [events EXCEPT ![e] =
                          [@ EXCEPT !.fresh = TRUE, !.updated_at = now]]
        /\ Stepped(p, "secret", proc[p].seen, proc[p].status, proc[p].response)
    BY <1>7 DEF Accepts, AcceptEventFreshness
  <2>2. /\ Holds(p) /\ e \in EventIds /\ e \notin stale /\ events[e].state = "claimed"
    BY <1>0, <1>1, <2>1 DEF OwnsLease
  <2>3. events[e] \in EventRow
    BY <1>0, <2>2 DEF NoEvent
  <2>4. /\ events'[e].fresh = TRUE
        /\ \A f \in EventIds : f # e => events'[f] = events[f]
    BY <1>0, <2>1, <2>2, <2>3 DEF EventRow
  <2>5. \A r \in Responses : ~Answered(e, r)
    BY <1>0, <2>2 DEF AnswerStands, Stands
  <2>6. /\ proc'[p].pc = "secret" /\ \A q \in Processes : q # p => proc'[q] = proc[q]
    BY <1>0, <2>1 DEF Stepped, Call
  <2>7. \A f \in EventIds, r \in Responses : Answered(f, r)' => Answered(f, r)
    BY <2>1, <2>6 DEF Answered
  <2>8. \A f \in EventIds, r \in Responses : Answered(f, r) =>
            StillAnswers(events[f], events'[f])
    BY <2>4, <2>5 DEF StillAnswers
  <2>9. AnswerStands' /\ OneAnswer'
    BY <1>0, <2>7, <2>8, AnswersStay
  <2>10. Unchecked'
    <3> SUFFICES ASSUME NEW q \in Processes, lease[q] # NoLease,
                        events'[lease[q].event] # NoEvent,
                        events'[lease[q].event].state = "claimed",
                        events'[lease[q].event].token = lease[q].token,
                        ~events'[lease[q].event].fresh
                 PROVE  proc'[q].pc \in EarlyPcs
      BY <2>1 DEF Unchecked, Holds, OwnRow
    <3>1. Holds(q) /\ lease[q].event # e
      BY <2>4 DEF Holds
    <3>2. events'[lease[q].event] = events[lease[q].event] /\ q # p
      BY <1>1, <2>4, <3>1
    <3> QED BY <1>0, <2>6, <3>1, <3>2 DEF Unchecked, OwnRow
  <2> QED BY <1>0, <2>9, <2>10 DEF AnswersInv
<1>8. CASE Commits(p)
  <2> DEFINE e == lease[p].event
             r == proc[p].response
  <2>1. /\ proc[p].pc = "commit" /\ OwnsLease(p, now) /\ published' = published
        /\ events' = [events EXCEPT ![e] =
             [@ EXCEPT !.state = "terminal", !.token = Nobody, !.available_at = 0,
                       !.kind = "completed", !.response = r, !.updated_at = now]]
        /\ lease' = [lease EXCEPT ![p] = NoLease]
        /\ Stepped(p, "publish", proc[p].seen, proc[p].status, r)
    BY <1>8 DEF Commits, CompleteEventForActiveConnection, CompleteEvent
  <2>2. /\ Holds(p) /\ e \in EventIds /\ e = proc[p].event
        /\ events[e].state = "claimed" /\ events[e].token = lease[p].token
    BY <1>0, <1>1, <2>1 DEF OwnsLease
  <2>3. r \in Responses
    BY <1>2, <2>1, RunningCall DEF CallOK
  <2>4. events[e] \in EventRow /\ events[e] # NoEvent
    BY <1>0, <2>2 DEF NoEvent
  <2>5. /\ events'[e].state = "terminal" /\ events'[e].response = r
        /\ \A f \in EventIds : f # e => events'[f] = events[f]
    BY <1>0, <2>1, <2>2, <2>4 DEF EventRow
  <2>6. events[e].fresh
    BY <1>0, <1>2, <2>1, <2>2, <2>4 DEF Unchecked, OwnRow
  <2>7. \A s \in Responses : ~Answered(e, s)
    BY <1>0, <2>2, <2>4, <2>6 DEF AnswerStands, Stands, Closed
  <2>8. /\ proc'[p].pc = "publish" /\ proc'[p].event = e /\ proc'[p].response = r
        /\ \A q \in Processes : q # p => proc'[q] = proc[q]
    BY <1>0, <2>1, <2>2 DEF Stepped, Call
  <2>9. \A f \in EventIds, s \in Responses :
            Answered(f, s)' => Answered(f, s) \/ (f = e /\ s = r)
    BY <2>1, <2>8 DEF Answered
  <2>10. Stands(events'[e], r)
    BY <2>5 DEF Stands
  <2> HIDE DEF r
  <2>11. AnswerStands' /\ OneAnswer'
    BY <1>0, <2>2, <2>3, <2>5, <2>7, <2>9, <2>10, AnswerGiven
  <2>12. Unchecked'
    <3> SUFFICES ASSUME NEW q \in Processes, lease'[q] # NoLease,
                        events'[lease'[q].event] # NoEvent,
                        events'[lease'[q].event].state = "claimed",
                        events'[lease'[q].event].token = lease'[q].token,
                        ~events'[lease'[q].event].fresh
                 PROVE  proc'[q].pc \in EarlyPcs
      BY DEF Unchecked, Holds, OwnRow
    <3>1. q # p /\ lease'[q] = lease[q] /\ Holds(q)
      BY <1>0, <2>1 DEF Holds
    <3>2. lease[q].event # e
      BY <2>5, <3>1
    <3>3. events'[lease[q].event] = events[lease[q].event]
      BY <1>1, <2>5, <3>1, <3>2
    <3> QED BY <1>0, <2>8, <3>1, <3>3 DEF Unchecked, OwnRow
  <2> QED BY <1>0, <2>11, <2>12 DEF AnswersInv
<1>9. CASE Rejects(p) \/ Retries(p)
  <2> DEFINE e == lease[p].event
  <2>1. /\ OwnsLease(p, now) /\ published' = published
        /\ proc' = [proc EXCEPT ![p] = Idle]
        /\ lease' = [lease EXCEPT ![p] = NoLease]
    BY <1>9 DEF Rejects, Retries, CompleteEvent, RetryLater
  <2>2. Holds(p) /\ e \in EventIds /\ events[e].state = "claimed"
    BY <1>0, <1>1, <2>1 DEF OwnsLease
  <2>3. events[e] \in EventRow /\ events[e] # NoEvent
    BY <1>0, <2>2 DEF NoEvent
  <2>4. /\ \A f \in EventIds : f # e => events'[f] = events[f]
        /\ \/ events'[e].state = "terminal" /\ events'[e].response = "none"
           \/ events'[e].state = "retryable" /\ (events'[e].fresh <=> events[e].fresh)
    <3>1. CASE Rejects(p)
      BY <1>0, <2>2, <2>3, <3>1 DEF Rejects, CompleteEvent, EventRow
    <3>2. CASE Retries(p)
      BY <1>0, <2>2, <2>3, <3>2 DEF Retries, RetryLater, EventRow
    <3> QED BY <1>9, <3>1, <3>2
  <2>5. \A f \in EventIds : StillAnswers(events[f], events'[f])
    <3>1. StillAnswers(events[e], events'[e])
      BY <2>2, <2>3, <2>4 DEF StillAnswers, Stands, Closed
    <3> QED BY <2>4, <3>1 DEF StillAnswers
  <2>6. \A f \in EventIds, r \in Responses : Answered(f, r)' => Answered(f, r)
    BY <1>0, <1>2, <2>1, AnswersAfter
  <2>7. AnswerStands' /\ OneAnswer'
    BY <1>0, <2>5, <2>6, AnswersStay
  <2>8. Unchecked'
    <3> SUFFICES ASSUME NEW q \in Processes, lease'[q] # NoLease,
                        events'[lease'[q].event] # NoEvent,
                        events'[lease'[q].event].state = "claimed",
                        events'[lease'[q].event].token = lease'[q].token,
                        ~events'[lease'[q].event].fresh
                 PROVE  proc'[q].pc \in EarlyPcs
      BY DEF Unchecked, Holds, OwnRow
    <3>1. q # p /\ lease'[q] = lease[q] /\ Holds(q) /\ proc'[q] = proc[q]
      BY <1>0, <2>1 DEF Holds
    <3>2. lease[q].event # e
      BY <2>4, <3>1
    <3>3. events'[lease[q].event] = events[lease[q].event]
      BY <1>1, <2>4, <3>1, <3>2
    <3> QED BY <1>0, <3>1, <3>3 DEF Unchecked, OwnRow
  <2> QED BY <1>0, <2>7, <2>8 DEF AnswersInv
<1>10. CASE Sends(p) \/ Publishes(p)
  <2>1. proc[p].pc \in {"publish", "send"} /\ UNCHANGED <<events, lease>>
    BY <1>10 DEF Sends, Publishes
  <2>2. \A f \in EventIds, r \in Responses : Answered(f, r)' => Answered(f, r)
    <3>1. CASE Sends(p)
      <4>1. /\ proc'[p].event = proc[p].event /\ proc'[p].response = proc[p].response
            /\ \A q \in Processes : q # p => proc'[q] = proc[q]
            /\ published' = published
        BY <1>0, <3>1 DEF Sends, Stepped, Call
      <4> QED BY <2>1, <4>1 DEF Answered
    <3>2. CASE Publishes(p)
      <4>1. /\ proc'[p] = Idle /\ \A q \in Processes : q # p => proc'[q] = proc[q]
            /\ published' = published \cup
                   {[event |-> proc[p].event, response |-> proc[p].response]}
        BY <1>0, <3>2 DEF Publishes
      <4> QED BY <1>2, <2>1, <4>1 DEF Answered
    <3> QED BY <1>10, <3>1, <3>2
  <2>3. AnswerStands' /\ OneAnswer'
    BY <1>0, <2>1, <2>2, AnswersStay DEF StillAnswers
  <2>4. Unchecked'
    <3>1. ~Holds(p) /\ \A q \in Processes : q # p => proc'[q] = proc[q]
      BY <1>0, <1>2, <1>10, <2>1 DEF Sends, Publishes, Stepped
    <3> QED BY <1>0, <2>1, <3>1 DEF Unchecked, Holds, OwnRow
  <2> QED BY <1>0, <2>3, <2>4 DEF AnswersInv
<1> QED BY <1>0, <1>3, <1>4, <1>5, <1>6, <1>7, <1>8, <1>9, <1>10 DEF CallStep

LEMMA TimeKeepsAnswers ==
    ASSUME EngineTypes, AnswersInv, ClaimsHold', Second \/ PruneTerminalRows
    PROVE  AnswersInv'
<1>0. /\ ClaimsHold /\ Unchecked /\ AnswerStands /\ OneAnswer
      /\ events \in [EventIds -> EventRow \cup {NoEvent}]
      /\ UNCHANGED <<stale, proc, published>>
      /\ \A q \in Processes : Holds(q) => lease[q].event \in EventIds
  BY HolderTypes
  DEF AnswersInv, EngineTypes, ClaimsTypeOK, Second, PruneTerminalRows, hostVars
<1>1. \A e \in EventIds, r \in Responses : Answered(e, r)' => Answered(e, r)
  BY <1>0 DEF Answered
<1>2. CASE Second
  <2>1. \A e \in EventIds : StillAnswers(events[e], events'[e])
    <3> SUFFICES ASSUME NEW e \in EventIds
                 PROVE  StillAnswers(events[e], events'[e])
      OBVIOUS
    <3>1. CASE events[e] = NoEvent
      BY <1>2, <3>1, SecondMoves DEF StillAnswers
    <3>2. CASE events[e] # NoEvent
      <4>1. /\ events'[e].state = events[e].state
            /\ events'[e].fresh <=> events[e].fresh
            /\ events'[e].response = events[e].response
        BY <1>2, <3>2, SecondMoves
      <4> QED BY <3>2, <4>1 DEF StillAnswers, Stands, Closed
    <3> QED BY <3>1, <3>2
  <2>2. AnswerStands' /\ OneAnswer'
    BY <1>0, <1>1, <2>1, AnswersStay
  <2>3. Unchecked'
    <3> SUFFICES ASSUME NEW q \in Processes, lease'[q] # NoLease,
                        events'[lease'[q].event] # NoEvent,
                        events'[lease'[q].event].state = "claimed",
                        events'[lease'[q].event].token = lease'[q].token,
                        ~events'[lease'[q].event].fresh
                 PROVE  proc'[q].pc \in EarlyPcs
      BY DEF Unchecked, Holds, OwnRow
    <3>1. Holds(q) /\ lease'[q].event = lease[q].event /\ lease'[q].token = lease[q].token
      BY <1>2, SecondMoves
    <3> DEFINE e == lease[q].event
    <3>2. events[e] # NoEvent /\ e \in EventIds
      BY <1>0, <1>2, <3>1, SecondMoves
    <3>3. events[e].state = "claimed" /\ events[e].token = lease[q].token
          /\ ~events[e].fresh
      BY <1>2, <3>1, <3>2, SecondMoves
    <3> QED BY <1>0, <3>1, <3>2, <3>3 DEF Unchecked, OwnRow
  <2> QED BY <2>2, <2>3 DEF AnswersInv
<1>3. CASE PruneTerminalRows
  <2>1. PICK e \in stale : events' = [events EXCEPT ![e] = NoEvent]
    BY <1>3 DEF PruneTerminalRows
  <2>2. \A f \in EventIds : events'[f] = events[f] \/ (f \in stale /\ events'[f] = NoEvent)
    BY <1>0, <2>1
  <2>3. \A f \in EventIds : \/ StillAnswers(events[f], events'[f])
                            \/ f \in stale /\ Closed(events'[f])
    BY <2>2 DEF StillAnswers, Closed
  <2>4. AnswerStands' /\ OneAnswer'
    BY <1>0, <1>1, <2>3, AnswersStay
  <2>5. lease' = lease
    BY <1>3 DEF PruneTerminalRows
  <2>6. Unchecked'
    BY <1>0, <2>2, <2>5 DEF Unchecked, Holds, OwnRow
  <2> QED BY <2>4, <2>6 DEF AnswersInv
<1> QED BY <1>2, <1>3

LEMMA AnswersInvStep ==
    ASSUME EngineTypes, AnswersInv, [EngineNext]_engineVars
    PROVE  AnswersInv'
<1>0. ClaimsHold' /\ ClaimsHold
  BY ClaimsHoldStep DEF AnswersInv
<1>1. ASSUME UNCHANGED <<events, lease, proc, published>>, stale \subseteq stale'
      PROVE  AnswersInv'
  <2>1. \A e \in EventIds, r \in Responses : Answered(e, r)' => Answered(e, r)
    BY <1>1 DEF Answered
  <2>2. AnswerStands' /\ OneAnswer'
    BY <1>1, <2>1, AnswersStay DEF StillAnswers, AnswersInv
  <2>3. Unchecked'
    BY <1>1 DEF Unchecked, Holds, OwnRow, AnswersInv
  <2> QED BY <1>0, <2>2, <2>3 DEF AnswersInv
<1>2. CASE EngineNext
  <2>1. CASE (\E h \in Hashes : WalletSettles(h)) \/ PayOutside \/ LeaveFreshnessWindow
             \/ Revoke \/ Reconcile \/ StopReconciler
    <3>1. UNCHANGED <<events, lease, proc, published>> /\ stale \subseteq stale'
      BY <2>1 DEF WalletSettles, PayOutside, LeaveFreshnessWindow, Revoke, Reconcile,
         StopReconciler, LoadUnresolved, QueryStatus, ApplyStatus, ledgerVars, claimVars,
         hostVars
    <3> QED BY <1>1, <3>1
  <2> QED BY <1>0, <1>2, <2>1, EngineSteps, CallKeepsAnswers, TimeKeepsAnswers
<1>3. CASE UNCHANGED engineVars
  <2>1. UNCHANGED <<events, lease, proc, published>> /\ stale \subseteq stale'
    BY <1>3 DEF engineVars, ledgerVars, claimVars, hostVars
  <2> QED BY <1>1, <2>1
<1> QED BY <1>2, <1>3

LEMMA AnswersInvInit == EngineInit => AnswersInv
<1> SUFFICES ASSUME EngineInit PROVE AnswersInv
  OBVIOUS
<1>1. /\ published = {} /\ \A p \in Processes : proc[p] = Idle /\ ~Holds(p)
  BY DEF EngineInit, Holds
<1>2. Idle.pc \notin {"publish", "send"}
  BY DEF Idle
<1>3. \A e, r : ~Answered(e, r)
  BY <1>1, <1>2 DEF Answered
<1> QED BY <1>1, <1>3, ClaimsHoldInit
        DEF AnswersInv, Unchecked, AnswerStands, OneAnswer

(***************************************************************************)
(* A request is answered one way, ever: what any process publishes is the  *)
(* response the event's terminal row holds, and once the row is pruned the *)
(* event is stale and cannot be executed again.  It holds whatever the     *)
(* processes, the relay and the wallet do, processes suspended beyond      *)
(* their lease included.                                                   *)
(***************************************************************************)
THEOREM OneAnswerPerRequest == EngineSafety => []PublishedIsCommitted
<1>1. EngineTypes /\ AnswersInv => PublishedIsCommitted
  <2> SUFFICES ASSUME EngineTypes, AnswersInv, NEW m \in published
               PROVE  /\ \A n \in published : n.event = m.event => n = m
                      /\ m.event \notin stale =>
                             /\ events[m.event].state = "terminal"
                             /\ events[m.event].response = m.response
    BY DEF PublishedIsCommitted
  <2>1. ASSUME NEW n \in published
        PROVE  /\ n.event \in EventIds /\ n.response \in Responses
               /\ n = [event |-> n.event, response |-> n.response]
    BY DEF EngineTypes, HostsTypeOK
  <2>2. \A n \in published : Answered(n.event, n.response)
    BY <2>1 DEF Answered
  <2>3. ASSUME NEW n \in published, n.event = m.event PROVE n = m
    <3>1. n.response = m.response
      BY <2>1, <2>2, <2>3 DEF AnswersInv, OneAnswer
    <3> QED BY <2>1, <2>3, <3>1
  <2>4. m.event \notin stale => Stands(events[m.event], m.response)
    BY <2>1, <2>2 DEF AnswersInv, AnswerStands
  <2> QED BY <2>3, <2>4 DEF Stands
<1>2. EngineInit => EngineTypes /\ AnswersInv
  BY EngineTypesInit, AnswersInvInit
<1>3. EngineTypes /\ AnswersInv /\ [EngineNext]_engineVars => (EngineTypes /\ AnswersInv)'
  BY EngineTypesStep, AnswersInvStep
<1> QED BY <1>1, <1>2, <1>3, PTL DEF EngineSafety

-----------------------------------------------------------------------------
(* What a call does between its claim and its answer, with what it read    *)
(* and wrote: the invariants below are about the wallet and the attempts,  *)
(* which these steps change together with the call.                        *)

\* The step writes nothing but the call's own memory.
Silent == UNCHANGED <<attempts, wallet, started, sent>>

\* The row of this call's payment hash is stored as `state'.
StoredAs(p, state) ==
    \E f \in TrackedBy(HashOf(p)) :
        /\ RowMarked(f) /\ attempts[f].initiated /\ attempts'[f].state = state
        /\ state = "pending" => attempts[f].state \in {"reserved", "pending"}
        /\ state = "failed" => attempts[f].state # "succeeded"
        /\ state = "succeeded" =>
               \/ attempts'[f] = attempts[f]
               \/ attempts'[f].charged =
                      Charged(attempts[f].conn, SettledAmount(HashOf(p)), SettledFee)

GivesUp(p) ==
    /\ \E pc \in {"reject", "retry"}, seen \in {NoSnapshot, proc[p].seen},
          status \in {"unknown", proc[p].status},
          response \in {"none", proc[p].response} :
              Stepped(p, pc, seen, status, response)
    /\ UNCHANGED <<wallet, started, sent>>
    /\ \/ UNCHANGED attempts
       \/ proc[p].pc = "finish" /\ StoredAs(p, "pending")

\* Why an error is answered without a look at the wallet.
NothingOwed(p) ==
    \/ proc[p].pc \in {"direct", "quote", "reserve"}
    \/ ~Exists(proc[p].event) \/ attempts[proc[p].event].legacy
    \/ attempts[proc[p].event].state = "failed" \/ proc[p].revision # 0

Refuses(p) ==
    /\ proc[p].pc \in {"secret", "direct", "load_attempt", "quote", "reserve"}
    /\ NothingOwed(p) /\ Silent
    /\ Stepped(p, "error", NoSnapshot, "unknown", "error")

Moves(p, pc) ==
    \/ proc[p].pc = "secret" /\ pc = "check_direct" /\ Request(p).kind = "direct"
    \/ proc[p].pc = "secret" /\ pc = "load_attempt"
    \/ proc[p].pc = "check_direct" /\ pc = "direct"
    \/ proc[p].pc \in {"check_commit", "error"} /\ pc = "commit"
    \/ proc[p].pc = "load_attempt" /\ pc = "quote" /\ ~Exists(proc[p].event)
    \/ proc[p].pc = "quote" /\ pc = "reserve"
    \/ /\ proc[p].pc = "status" /\ pc = "check_start"
       /\ wallet[HashOf(p)].status = "unknown"
    \/ /\ proc[p].pc = "status" /\ pc = "release"
       /\ wallet[HashOf(p)].status # "unknown" /\ ~MayDiscloseSettlement(proc[p].seen)
    \/ proc[p].pc = "check_start" /\ pc = "start" /\ proc[p].seen.initiated
    \/ proc[p].pc = "check_start" /\ pc = "initiate" /\ ~proc[p].seen.initiated

Proceeds(p) ==
    /\ \E pc \in WorkPcs :
           /\ Moves(p, pc)
           /\ Stepped(p, pc, proc[p].seen, proc[p].status, proc[p].response)
    /\ Silent

\* continue_payment with the row it loaded or reserved.
Resumes(p) ==
    /\ proc[p].pc \in {"load_attempt", "reserve"}
    /\ \/ Exists(proc[p].event) /\ UNCHANGED attempts
       \/ proc[p].pc = "reserve" /\ RowReserved(proc[p].event)
    /\ attempts'[proc[p].event] \in AttemptRow
    /\ ~attempts'[proc[p].event].legacy /\ attempts'[proc[p].event].state # "failed"
    /\ \E pc \in {"check_start", "status"} :
           /\ pc = "check_start" => attempts'[proc[p].event].initiated
           /\ Stepped(p, pc, Snapshot(attempts'[proc[p].event]), proc[p].status,
                      proc[p].response)
    /\ UNCHANGED <<wallet, started, sent>>

AnswersDirectly(p) ==
    /\ proc[p].pc = "direct" /\ Silent
    /\ Stepped(p, "check_commit", NoSnapshot, "unknown", "result")

Releases(p) ==
    /\ proc[p].pc = "release"
    /\ \E f \in TrackedBy(HashOf(p)) : RowReleased(f)
    /\ Stepped(p, "error", NoSnapshot, "unknown", "error")
    /\ UNCHANGED <<wallet, started, sent>>

Initiates(p) ==
    /\ proc[p].pc = "initiate"
    /\ \E f \in TrackedBy(HashOf(p)) :
           /\ RowMarked(f) /\ attempts'[f].initiated
           /\ attempts'[f].state = attempts[f].state
           /\ attempts'[f] = attempts[f] \/ attempts[f].state = "reserved"
    /\ Stepped(p, "start", proc[p].seen, proc[p].status, proc[p].response)
    /\ UNCHANGED <<wallet, started, sent>>

Starts(p) ==
    /\ proc[p].pc = "start"
    /\ \/ MaySubmit(proc[p].event, HashOf(p)) /\ Submit(proc[p].event, HashOf(p))
       \/ wallet[HashOf(p)].key = proc[p].event /\ UNCHANGED wallet
    /\ started' = started \cup {proc[p].event}
    /\ Stepped(p, "await", proc[p].seen, proc[p].status, proc[p].response)
    /\ UNCHANGED <<attempts, sent>>

\* The wallet's answer, or the lack of one.
Learns(p, status) ==
    \/ /\ proc[p].pc = "status" /\ MayDiscloseSettlement(proc[p].seen)
       /\ status = wallet[HashOf(p)].status /\ UNCHANGED started
    \/ /\ proc[p].pc = "await" /\ UNCHANGED started
       /\ status \in {wallet[HashOf(p)].status, "failed"}
       /\ ~Cast.undecodable => status = wallet[HashOf(p)].status
    \/ /\ proc[p].pc = "start" /\ wallet[HashOf(p)].key # proc[p].event
       /\ status = "failed" /\ started' = started \cup {proc[p].event}
    \/ /\ proc[p].pc \in {"start", "await"} /\ status = "pending"
       /\ started' = started \cup {proc[p].event}

Told(p) ==
    /\ \E status \in Statuses :
           /\ Learns(p, status)
           /\ Stepped(p, "finish", proc[p].seen, status, proc[p].response)
    /\ UNCHANGED <<attempts, wallet, sent>>

Settles(p) ==
    /\ proc[p].pc = "finish" /\ proc[p].status = "succeeded"
    /\ StoredAs(p, "succeeded")
    /\ Stepped(p, "record", proc[p].seen, proc[p].status, proc[p].response)
    /\ UNCHANGED <<wallet, started, sent>>

Fails(p) ==
    /\ proc[p].pc = "finish" /\ proc[p].status = "failed"
    /\ StoredAs(p, "failed")
    /\ Stepped(p, "error", NoSnapshot, "unknown", "error")
    /\ UNCHANGED <<wallet, started, sent>>

Records(p) ==
    /\ proc[p].pc = "record" /\ sent' = sent \cup {proc[p].event}
    /\ Stepped(p, "check_commit", NoSnapshot, "unknown", "result")
    /\ UNCHANGED <<attempts, wallet, started>>

Work(p) ==
    /\ \/ GivesUp(p) \/ Refuses(p) \/ Proceeds(p) \/ Resumes(p) \/ AnswersDirectly(p)
       \/ Releases(p) \/ Initiates(p) \/ Starts(p) \/ Told(p) \/ Settles(p)
       \/ Fails(p) \/ Records(p)
    /\ proc[p].pc \in WorkPcs
    /\ UNCHANGED <<events, lease, published>>

\* The steps that begin and end a call, or write its event's row.
Frame(p) ==
    /\ \/ Begins(p) \/ Acquires(p) \/ Replays(p) \/ Accepts(p) \/ Commits(p)
       \/ Rejects(p) \/ Retries(p) \/ Ends(p) \/ Sends(p) \/ Publishes(p)
    /\ Silent

LEMMA FrameStep ==
    ASSUME EngineTypes, NEW p \in Processes, CallStep(p), Silent,
           \/ proc[p].pc \notin WorkPcs \/ proc'[p].pc \notin WorkPcs
           \/ proc[p].pc \in EarlyPcs /\ proc'[p].pc \notin {"reject", "retry"}
    PROVE  Frame(p)
<1>1. proc \in [Processes -> Calls \cup {Idle}]
  BY DEF EngineTypes, CallsTypeOK
<1>2. ~Inner(p)
  BY <1>1 DEF Inner
<1> QED BY <1>2 DEF CallStep, Frame

\* A call that ends, or that only reads its event's row.
LEMMA FramedActions ==
    ASSUME EngineTypes, NEW p \in Processes,
           \/ LoadConnection(p) \/ ClaimStep(p) \/ Commit(p) \/ RepublishTerminal(p)
           \/ PublishEvent(p) \/ RejectClaim(p) \/ RetryClaim(p)
    PROVE  Frame(p)
<1>1. CallStep(p)
  BY ClaimCallStep, StartCallStep
<1>2. Silent
  <2>1. CASE LoadConnection(p)
    BY <2>1 DEF Silent, LoadConnection, ledgerVars
  <2>4. CASE PublishEvent(p)
    BY <2>4 DEF Silent, PublishEvent, ledgerVars
  <2>3. CASE RepublishTerminal(p)
    BY <2>3 DEF Silent, RepublishTerminal, ledgerVars
  <2>2. CASE ClaimStep(p) \/ Commit(p) \/ RejectClaim(p) \/ RetryClaim(p)
    BY <2>2 DEF Silent, ClaimStep, Commit, RejectClaim, RetryClaim
  <2> QED BY <2>1, <2>2, <2>3, <2>4
<1>3. proc \in [Processes -> Calls \cup {Idle}]
  BY DEF EngineTypes, CallsTypeOK
<1>4. Idle.pc = "idle" /\ "idle" \notin WorkPcs /\ "publish" \notin WorkPcs
      /\ "claim" \notin WorkPcs /\ "send" \notin WorkPcs
  BY DEF Idle, WorkPcs, PayPcs
<1>5. CASE LoadConnection(p) \/ ClaimStep(p) \/ RepublishTerminal(p) \/ PublishEvent(p)
  <2>1. proc[p] = Idle \/ proc[p].pc \in {"claim", "publish", "send"}
    <3>1. CASE RepublishTerminal(p)
      BY <3>1 DEF RepublishTerminal
    <3>2. CASE LoadConnection(p)
      BY <3>2 DEF LoadConnection
    <3> QED BY <1>5, <3>1, <3>2 DEF ClaimStep, PublishEvent
  <2>2. proc[p].pc \notin WorkPcs
    BY <1>4, <2>1
  <2> QED BY <1>1, <1>2, <2>2, FrameStep
<1>6. CASE Commit(p)
  <2>1. proc[p].pc = "commit"
    BY <1>6 DEF Commit
  <2>2. proc[p] \in Calls
    BY <2>1, RunningCall
  <2>3. proc' = [proc EXCEPT ![p] = Idle] \/ Goto(p, "publish")
    BY <1>6 DEF Commit
  <2>4. proc'[p].pc \notin WorkPcs
    BY <1>3, <1>4, <2>2, <2>3, GotoSteps DEF Stepped, Call
  <2> QED BY <1>1, <1>2, <2>4, FrameStep
<1>7. CASE RejectClaim(p) \/ RetryClaim(p)
  <2>1. proc' = [proc EXCEPT ![p] = Idle]
    BY <1>7 DEF RejectClaim, RetryClaim
  <2>2. proc'[p].pc \notin WorkPcs
    BY <1>3, <1>4, <2>1
  <2> QED BY <1>1, <1>2, <2>2, FrameStep
<1> QED BY <1>5, <1>6, <1>7

\* Leave and Goto as the ways to give up.
LEMMA GivesUpBy ==
    ASSUME EngineTypes, NEW p \in Processes, proc[p].pc \in WorkPcs,
           NEW pc \in {"reject", "retry"}, Leave(p, pc, "none") \/ Goto(p, pc),
           UNCHANGED <<wallet, started, sent>>,
           \/ UNCHANGED attempts
           \/ proc[p].pc = "finish" /\ StoredAs(p, "pending")
    PROVE  GivesUp(p)
<1>0. proc[p].pc # "idle"
  BY DEF WorkPcs, PayPcs
<1>1. proc \in [Processes -> Calls \cup {Idle}] /\ proc[p] \in Calls
  BY <1>0, RunningCall
<1>2. \/ Stepped(p, pc, NoSnapshot, "unknown", "none")
      \/ Stepped(p, pc, proc[p].seen, proc[p].status, proc[p].response)
  BY <1>1, LeaveSteps, GotoSteps
<1> QED BY <1>2 DEF GivesUp

LEMMA DispatchWork ==
    ASSUME EngineTypes, NEW p \in Processes,
           \/ CheckFreshness(p) \/ Dispatch(p) \/ EnsureClaimConnectionActive(p)
           \/ ExecuteRequest(p)
    PROVE  Work(p) \/ Frame(p)
<1>0. proc \in [Processes -> Calls \cup {Idle}] /\ RowsOK
  BY DEF EngineTypes, CallsTypeOK
<1>1. CASE CheckFreshness(p)
  <2>1. proc[p].pc = "freshness" /\ Silent /\ UNCHANGED published
    BY <1>1 DEF CheckFreshness, Silent
  <2>2. proc[p].pc \in WorkPcs /\ proc[p].pc \in EarlyPcs /\ proc[p] \in Calls
    BY <2>1, RunningCall DEF WorkPcs, EarlyPcs
  <2>3. CASE (\E pc \in {"reject", "retry"} : Leave(p, pc, "none"))
             /\ UNCHANGED <<events, lease>>
    <3>1. GivesUp(p)
      BY <2>1, <2>2, <2>3, GivesUpBy DEF Silent
    <3> QED BY <2>1, <2>2, <2>3, <3>1 DEF Work
  <2>4. CASE Goto(p, "secret")
    <3>1. CallStep(p)
      BY <1>1, DispatchCallStep
    <3>2. proc'[p].pc = "secret"
      BY <1>0, <2>2, <2>4, GotoSteps DEF Stepped, Call
    <3> QED BY <2>1, <2>2, <3>1, <3>2, FrameStep
  <2> QED BY <1>1, <2>3, <2>4 DEF CheckFreshness
<1>2. CASE Dispatch(p)
  <2>1. proc[p].pc = "secret" /\ UNCHANGED <<events, lease, published>> /\ Silent
    BY <1>2 DEF Dispatch, ledgerVars, claimVars, Silent
  <2>2. proc[p].pc \in WorkPcs /\ {"check_direct", "load_attempt"} \subseteq WorkPcs
    BY <2>1 DEF WorkPcs
  <2>3. /\ proc[p] \in Calls /\ proc[p].event \in EventIds
        /\ proc[p].conn = RequestOf[proc[p].event].conn
    BY <2>1, RunningCall DEF CallOK
  <2>4. \/ Leave(p, "reject", "none")
        \/ Request(p).kind = "direct" /\ Goto(p, "check_direct")
        \/ Goto(p, "load_attempt")
        \/ ~MayPay[proc[p].conn] /\ RespondWithError(p)
    BY <1>2 DEF Dispatch
  <2>5. CASE Leave(p, "reject", "none")
    BY <2>1, <2>2, <2>5, GivesUpBy DEF Work, Silent
  <2>6. CASE Request(p).kind = "direct" /\ Goto(p, "check_direct")
    <3>1. Moves(p, "check_direct")
      BY <2>1, <2>6 DEF Moves
    <3>2. Proceeds(p)
      BY <2>1, <2>2, <2>3, <2>6, <3>1, GotoSteps DEF Proceeds
    <3> QED BY <2>1, <2>2, <3>2 DEF Work
  <2>7. CASE Goto(p, "load_attempt")
    <3>1. Moves(p, "load_attempt")
      BY <2>1 DEF Moves
    <3>2. Proceeds(p)
      BY <2>1, <2>2, <2>3, <2>7, <3>1, GotoSteps DEF Proceeds
    <3> QED BY <2>1, <2>2, <3>2 DEF Work
  <2>8. CASE ~MayPay[proc[p].conn] /\ RespondWithError(p)
    <3>1. ~Exists(proc[p].event)
      BY <1>0, <2>3, <2>8 DEF RowsOK, RowOK
    <3>2. Stepped(p, "error", NoSnapshot, "unknown", "error")
      BY <1>0, <2>3, <2>8, LeaveSteps DEF RespondWithError
    <3>3. Refuses(p)
      BY <2>1, <3>1, <3>2 DEF Refuses, NothingOwed
    <3> QED BY <2>1, <2>2, <3>3 DEF Work
  <2> QED BY <2>4, <2>5, <2>6, <2>7, <2>8
<1>3. CASE EnsureClaimConnectionActive(p)
  <2>1. proc[p].pc \in {"check_direct", "check_start", "check_commit", "error"}
        /\ UNCHANGED <<events, lease, published>> /\ Silent
    BY <1>3 DEF EnsureClaimConnectionActive, ledgerVars, claimVars, Silent
  <2>2. proc[p].pc \in WorkPcs /\ {"direct", "start", "initiate", "commit"} \subseteq WorkPcs
    BY <2>1 DEF WorkPcs, PayPcs
  <2>3. proc[p] \in Calls
    BY <2>1, RunningCall
  <2>4. CASE Leave(p, "reject", "none")
    BY <2>1, <2>2, <2>4, GivesUpBy DEF Work, Silent
  <2>5. CASE Goto(p, AfterCheck(proc[p]))
    <3> DEFINE pc == AfterCheck(proc[p])
    <3>1. pc = "retry" \/ (pc \in WorkPcs /\ Moves(p, pc))
      BY <2>1, <2>2 DEF AfterCheck, Moves
    <3> HIDE DEF pc
    <3>2. CASE pc = "retry"
      BY <2>1, <2>2, <2>5, <3>2, GivesUpBy DEF Work, Silent, pc
    <3>3. CASE pc \in WorkPcs /\ Moves(p, pc)
      <4>1. Goto(p, pc)
        BY <2>5 DEF pc
      <4>2. Proceeds(p)
        BY <2>1, <2>3, <3>3, <4>1, GotoSteps DEF Proceeds
      <4> QED BY <2>1, <2>2, <4>2 DEF Work
    <3> QED BY <3>1, <3>2, <3>3
  <2> QED BY <1>3, <2>4, <2>5 DEF EnsureClaimConnectionActive
<1>4. CASE ExecuteRequest(p)
  <2>1. proc[p].pc = "direct" /\ UNCHANGED <<events, lease, published>> /\ Silent
    BY <1>4 DEF ExecuteRequest, ledgerVars, claimVars, Silent
  <2>2. proc[p].pc \in WorkPcs /\ proc[p] \in Calls
    BY <2>1, RunningCall DEF WorkPcs
  <2>3. Leave(p, "check_commit", "result") \/ RespondWithError(p)
    BY <1>4 DEF ExecuteRequest
  <2>4. \/ Stepped(p, "check_commit", NoSnapshot, "unknown", "result")
        \/ Stepped(p, "error", NoSnapshot, "unknown", "error")
    BY <1>0, <2>2, <2>3, LeaveSteps DEF RespondWithError
  <2>5. AnswersDirectly(p) \/ Refuses(p)
    BY <2>1, <2>4 DEF AnswersDirectly, Refuses, NothingOwed
  <2> QED BY <2>1, <2>2, <2>5 DEF Work
<1> QED BY <1>1, <1>2, <1>3, <1>4

\* A mark of the row of this call's payment hash is one of the shapes above.
LEMMA StoredBy ==
    ASSUME EngineTypes, NEW p \in Processes, proc[p].pc \in PayPcs,
           NEW f \in TrackedBy(HashOf(p))
    PROVE  /\ MarkPaymentPending(f, now) => StoredAs(p, "pending")
           /\ MarkPaymentSucceeded(f, SettledAmount(HashOf(p)), SettledFee, now) =>
                  StoredAs(p, "succeeded")
           /\ MarkPaymentFailed(f, now) => StoredAs(p, "failed")
<1>1. AccountingTypeOK /\ RowsOK /\ now = 0 /\ cast \in DOMAIN Casts /\ SettledFee \in Nat
  BY EngineAssumption DEF EngineTypes, EstablishedOnce, HostsTypeOK
<1>2. f \in EventIds
  BY DEF TrackedBy
<1>3. proc[p].pc # "idle"
  BY DEF PayPcs
<1>4. SettledAmount(HashOf(p)) \in Nat
  BY <1>1, <1>3, RunningCall, SettledAmountOf
<1>5. MarkPaymentPending(f, now) => StoredAs(p, "pending")
  BY <1>1, <1>2, PendingMarks DEF StoredAs
<1>6. MarkPaymentFailed(f, now) => StoredAs(p, "failed")
  BY <1>1, <1>2, FailedMarks DEF StoredAs
<1>7. MarkPaymentSucceeded(f, SettledAmount(HashOf(p)), SettledFee, now) =>
          StoredAs(p, "succeeded")
  BY <1>1, <1>2, <1>4, SucceededMarks DEF StoredAs
<1> QED BY <1>5, <1>6, <1>7

LEMMA ResumesBy ==
    ASSUME EngineTypes, NEW p \in Processes,
           proc[p].pc \in {"load_attempt", "reserve"},
           \/ Exists(proc[p].event) /\ UNCHANGED attempts
           \/ proc[p].pc = "reserve" /\ RowReserved(proc[p].event),
           attempts'[proc[p].event] \in AttemptRow,
           ContinuePayment(p, Snapshot(attempts'[proc[p].event])),
           UNCHANGED <<wallet, started, sent>>
    PROVE  Resumes(p) \/ Refuses(p)
<1> DEFINE e == proc[p].event
           s == Snapshot(attempts'[e])
<1>1. proc \in [Processes -> Calls \cup {Idle}] /\ proc[p] \in Calls
  BY RunningCall
<1>2. /\ s \in Snapshots /\ s.state = attempts'[e].state
      /\ s.initiated <=> attempts'[e].initiated
      /\ s.legacy <=> attempts'[e].legacy
  BY SnapshotOf
<1>3. ContinuePayment(p, s)
  OBVIOUS
<1> HIDE DEF s
<1>4. \/ /\ s.legacy \/ s.state = "failed"
         /\ Stepped(p, "error", NoSnapshot, "unknown", "error")
      \/ /\ ~s.legacy /\ s.state = "reserved" /\ s.initiated
         /\ Stepped(p, "check_start", s, proc[p].status, proc[p].response)
      \/ /\ ~s.legacy /\ s.state # "failed"
         /\ ~(s.state = "reserved" /\ s.initiated)
         /\ Stepped(p, "status", s, proc[p].status, proc[p].response)
  BY <1>1, <1>2, <1>3, ContinueSteps
<1>5. CASE /\ s.legacy \/ s.state = "failed"
           /\ Stepped(p, "error", NoSnapshot, "unknown", "error")
  <2>1. attempts'[e].legacy \/ attempts'[e].state = "failed"
    BY <1>2, <1>5
  <2>2. ~RowReserved(e)
    <3>1. SUFFICES ASSUME RowReserved(e) PROVE FALSE
      OBVIOUS
    <3>2. attempts'[e].state = "reserved" /\ attempts'[e].legacy
      BY <2>1, <3>1 DEF RowReserved
    <3>3. e \in LegacyEvents
      BY <3>1, <3>2 DEF RowReserved, RowOK
    <3> QED BY <3>1, <3>3 DEF EngineTypes, RowsOK, RowReserved
  <2>3. attempts' = attempts
    BY <2>2
  <2>4. NothingOwed(p) /\ Silent
    BY <2>1, <2>3 DEF NothingOwed, Silent
  <2> QED BY <1>5, <2>4 DEF Refuses
<1>6. CASE /\ ~s.legacy /\ s.state # "failed"
           /\ \/ /\ s.initiated
                 /\ Stepped(p, "check_start", s, proc[p].status, proc[p].response)
              \/ Stepped(p, "status", s, proc[p].status, proc[p].response)
  <2>1. ~attempts'[e].legacy /\ attempts'[e].state # "failed"
    BY <1>2, <1>6
  <2>2. \E pc \in {"check_start", "status"} :
            /\ pc = "check_start" => attempts'[e].initiated
            /\ Stepped(p, pc, s, proc[p].status, proc[p].response)
    BY <1>2, <1>6
  <2> QED BY <2>1, <2>2 DEF Resumes, s
<1> QED BY <1>4, <1>5, <1>6

LEMMA PaymentWork ==
    ASSUME EngineTypes, NEW p \in Processes,
           \/ LoadPaymentAttempt(p) \/ QuotePayment(p) \/ ReserveStep(p)
    PROVE  Work(p)
<1>0. /\ AccountingTypeOK /\ RowsOK /\ cast \in DOMAIN Casts
      /\ proc \in [Processes -> Calls \cup {Idle}]
  BY DEF EngineTypes, HostsTypeOK, CallsTypeOK
<1>1. CASE LoadPaymentAttempt(p)
  <2> DEFINE w == proc[p]
             row == attempts[w.event]
  <2>1. w.pc = "load_attempt" /\ UNCHANGED <<events, lease, published>> /\ Silent
    BY <1>1 DEF LoadPaymentAttempt, ledgerVars, claimVars, Silent
  <2>2. w.pc \in WorkPcs /\ "quote" \in WorkPcs
    BY <2>1 DEF WorkPcs
  <2>3. w \in Calls /\ w.event \in EventIds /\ w.conn = RequestOf[w.event].conn
    BY <2>1, RunningCall DEF CallOK
  <2>4. CASE ~Exists(w.event)
    <3>1. Goto(p, "quote")
      BY <1>1, <2>4 DEF LoadPaymentAttempt
    <3>2. Moves(p, "quote")
      BY <2>1, <2>4 DEF Moves
    <3>3. Proceeds(p)
      BY <2>1, <2>2, <2>3, <3>1, <3>2, GotoSteps DEF Proceeds
    <3> QED BY <2>1, <2>2, <3>3 DEF Work
  <2>5. CASE Exists(w.event) /\ w.revision # 0
    <3>1. row.revision = 0
      BY <1>0, <2>3, <2>5 DEF RowsOK, RowOK
    <3>2. RespondWithError(p)
      BY <1>1, <2>5, <3>1 DEF LoadPaymentAttempt
    <3>3. Stepped(p, "error", NoSnapshot, "unknown", "error")
      BY <1>0, <2>3, <3>2, LeaveSteps DEF RespondWithError
    <3>4. Refuses(p)
      BY <2>1, <2>5, <3>3 DEF Refuses, NothingOwed
    <3> QED BY <2>1, <2>2, <3>4 DEF Work
  <2>6. CASE Exists(w.event) /\ w.revision = 0
    <3>1. row.revision = 0 /\ row.conn = w.conn /\ row \in AttemptRow
      BY <1>0, <2>3, <2>6, StoredRow DEF RowsOK, RowOK
    <3>2. ContinuePayment(p, Snapshot(row))
      BY <1>1, <2>6, <3>1 DEF LoadPaymentAttempt
    <3>3. attempts' = attempts
      BY <2>1 DEF Silent
    <3>4. attempts'[w.event] \in AttemptRow
          /\ ContinuePayment(p, Snapshot(attempts'[w.event]))
      BY <3>1, <3>2, <3>3
    <3>5. Resumes(p) \/ Refuses(p)
      BY <2>1, <2>6, <3>3, <3>4, ResumesBy DEF Silent
    <3> QED BY <2>1, <2>2, <3>5 DEF Work
  <2> QED BY <2>4, <2>5, <2>6
<1>2. CASE QuotePayment(p)
  <2>1. proc[p].pc = "quote" /\ UNCHANGED <<events, lease, published>> /\ Silent
        /\ (Goto(p, "reserve") \/ RespondWithError(p))
    BY <1>2 DEF QuotePayment, ledgerVars, claimVars, Silent
  <2>2. proc[p].pc \in WorkPcs /\ "reserve" \in WorkPcs /\ proc[p] \in Calls
    BY <2>1, RunningCall DEF WorkPcs
  <2>3. CASE Goto(p, "reserve")
    <3>1. Moves(p, "reserve")
      BY <2>1 DEF Moves
    <3>2. Proceeds(p)
      BY <2>1, <2>2, <2>3, <3>1, GotoSteps DEF Proceeds
    <3> QED BY <2>1, <2>2, <3>2 DEF Work
  <2>4. CASE RespondWithError(p)
    <3>1. Stepped(p, "error", NoSnapshot, "unknown", "error")
      BY <1>0, <2>2, <2>4, LeaveSteps DEF RespondWithError
    <3>2. Refuses(p)
      BY <2>1, <3>1 DEF Refuses, NothingOwed
    <3> QED BY <2>1, <2>2, <3>2 DEF Work
  <2> QED BY <2>1, <2>3, <2>4
<1>3. CASE ReserveStep(p)
  <2> DEFINE w == proc[p]
             r == Request(p)
             outcome == ReserveOutcome(w.event, r.hash, w.conn, w.revision,
                                       r.principal, now)
  <2>1. w.pc = "reserve" /\ UNCHANGED <<events, lease, published>>
        /\ UNCHANGED <<wallet, started, sent>>
    BY <1>3 DEF ReserveStep, claimVars
  <2>2. w.pc \in WorkPcs
    BY <2>1 DEF WorkPcs
  <2>3. w \in Calls /\ w.event \in EventIds
    BY <2>1, RunningCall
  <2>4. CASE /\ ReservePayment(w.event, r.hash, w.conn, w.revision, r.principal, now)
             /\ ContinuePayment(p, Snapshot(attempts'[w.event]))
    <3>1. RowReserved(w.event)
      BY <2>1, <2>4, ReserveReserves
    <3>2. attempts'[w.event] \in AttemptRow
      BY <3>1 DEF RowReserved
    <3>3. Resumes(p) \/ Refuses(p)
      BY <2>1, <2>4, <3>1, <3>2, ResumesBy
    <3> QED BY <2>1, <2>2, <3>3 DEF Work
  <2>5. CASE /\ outcome = "existing" /\ ContinuePayment(p, Snapshot(attempts[w.event]))
             /\ UNCHANGED attempts
    <3>1. Exists(w.event)
      BY <2>5 DEF ReserveOutcome
    <3>2. attempts[w.event] \in AttemptRow
      BY <1>0, <2>3, <3>1, StoredRow
    <3>3. attempts' = attempts
      BY <2>5
    <3>4. attempts'[w.event] \in AttemptRow
          /\ ContinuePayment(p, Snapshot(attempts'[w.event]))
      BY <2>5, <3>2, <3>3
    <3>5. Resumes(p) \/ Refuses(p)
      BY <2>1, <3>1, <3>3, <3>4, ResumesBy
    <3> QED BY <2>1, <2>2, <3>5 DEF Work
  <2>6. CASE Leave(p, "reject", "none") /\ UNCHANGED attempts
    BY <2>1, <2>2, <2>6, GivesUpBy DEF Work
  <2>7. CASE RespondWithError(p) /\ UNCHANGED attempts
    <3>1. Stepped(p, "error", NoSnapshot, "unknown", "error")
      BY <1>0, <2>3, <2>7, LeaveSteps DEF RespondWithError
    <3>2. Refuses(p)
      BY <2>1, <2>7, <3>1 DEF Refuses, NothingOwed, Silent
    <3> QED BY <2>1, <2>2, <3>2 DEF Work
  <2> QED BY <1>3, <2>4, <2>5, <2>6, <2>7 DEF ReserveStep
<1> QED BY <1>1, <1>2, <1>3

LEMMA StatusWork ==
    ASSUME EngineTypes, NEW p \in Processes,
           \/ PaymentStatusStep(p) \/ ReleaseStep(p) \/ InitiateStep(p)
    PROVE  Work(p)
<1>0. /\ AccountingTypeOK /\ RowsOK /\ now = 0
      /\ proc \in [Processes -> Calls \cup {Idle}]
  BY DEF EngineTypes, EstablishedOnce, CallsTypeOK
<1>1. CASE PaymentStatusStep(p)
  <2>1. proc[p].pc = "status" /\ UNCHANGED <<events, lease, published>> /\ Silent
    BY <1>1 DEF PaymentStatusStep, ledgerVars, claimVars, Silent
  <2>2. proc[p].pc \in WorkPcs /\ {"check_start", "release"} \subseteq WorkPcs
    BY <2>1 DEF WorkPcs, PayPcs
  <2>3. proc[p] \in Calls /\ wallet[HashOf(p)].status \in Statuses
    BY <2>1, RunningCall DEF EngineTypes, HostsTypeOK
  <2>4. PICK report \in Reports(wallet[HashOf(p)].status) :
            LET answer == BridgePaymentStatus(report) IN
            IF ~answer.ok THEN Leave(p, "retry", "none")
            ELSE IF answer.value.status = "unknown" THEN Goto(p, "check_start")
            ELSE IF MayDiscloseSettlement(proc[p].seen)
            THEN FinishWith(p, answer.value.status)
            ELSE Goto(p, "release")
    BY <1>1 DEF PaymentStatusStep
  <2> DEFINE answer == BridgePaymentStatus(report)
             told == wallet[HashOf(p)].status
  <2>5. answer.ok => answer.value.status = told
    BY <2>3, <2>4, ReportOutcome
  <2>6. \/ Leave(p, "retry", "none")
        \/ told = "unknown" /\ Goto(p, "check_start")
        \/ MayDiscloseSettlement(proc[p].seen) /\ FinishWith(p, told)
        \/ /\ told # "unknown" /\ ~MayDiscloseSettlement(proc[p].seen)
           /\ Goto(p, "release")
    BY <2>4, <2>5
  <2> HIDE DEF answer
  <2>7. CASE Leave(p, "retry", "none")
    BY <2>1, <2>2, <2>7, GivesUpBy DEF Work, Silent
  <2>8. CASE told = "unknown" /\ Goto(p, "check_start")
    <3>1. Moves(p, "check_start")
      BY <2>1, <2>8 DEF Moves
    <3>2. Proceeds(p)
      BY <2>1, <2>2, <2>3, <2>8, <3>1, GotoSteps DEF Proceeds
    <3> QED BY <2>1, <2>2, <3>2 DEF Work
  <2>9. CASE MayDiscloseSettlement(proc[p].seen) /\ FinishWith(p, told)
    <3>1. Learns(p, told)
      BY <2>1, <2>9 DEF Learns, Silent
    <3>2. Stepped(p, "finish", proc[p].seen, told, proc[p].response)
      BY <1>0, <2>3, <2>9, FinishSteps
    <3>3. Told(p)
      BY <2>1, <2>3, <3>1, <3>2 DEF Told, Silent
    <3> QED BY <2>1, <2>2, <3>3 DEF Work
  <2>10. CASE /\ told # "unknown" /\ ~MayDiscloseSettlement(proc[p].seen)
              /\ Goto(p, "release")
    <3>1. Moves(p, "release")
      BY <2>1, <2>10 DEF Moves
    <3>2. Proceeds(p)
      BY <2>1, <2>2, <2>3, <2>10, <3>1, GotoSteps DEF Proceeds
    <3> QED BY <2>1, <2>2, <3>2 DEF Work
  <2> QED BY <2>6, <2>7, <2>8, <2>9, <2>10
<1>2. CASE ReleaseStep(p)
  <2>1. /\ proc[p].pc = "release" /\ UNCHANGED <<events, lease, published>>
        /\ UNCHANGED <<wallet, started, sent>>
    BY <1>2 DEF ReleaseStep, claimVars
  <2>2. proc[p].pc \in WorkPcs /\ proc[p] \in Calls
    BY <2>1, RunningCall DEF WorkPcs, PayPcs
  <2>3. CASE Leave(p, "retry", "none") /\ UNCHANGED attempts
    BY <2>1, <2>2, <2>3, GivesUpBy DEF Work
  <2>4. ASSUME NEW f \in TrackedBy(HashOf(p)), ReleaseUninitiatedPayment(f, now),
               RespondWithError(p)
        PROVE  Work(p)
    <3>1. f \in EventIds
      BY DEF TrackedBy
    <3>2. RowReleased(f)
      BY <1>0, <2>4, <3>1, ReleaseReleases
    <3>3. Stepped(p, "error", NoSnapshot, "unknown", "error")
      BY <1>0, <2>2, <2>4, LeaveSteps DEF RespondWithError
    <3>4. Releases(p)
      BY <2>1, <3>2, <3>3 DEF Releases
    <3> QED BY <2>1, <2>2, <3>4 DEF Work
  <2> QED BY <1>2, <2>3, <2>4 DEF ReleaseStep
<1>3. CASE InitiateStep(p)
  <2>1. /\ proc[p].pc = "initiate" /\ UNCHANGED <<events, lease, published>>
        /\ UNCHANGED <<wallet, started, sent>>
    BY <1>3 DEF InitiateStep, claimVars
  <2>2. proc[p].pc \in WorkPcs /\ proc[p] \in Calls
    BY <2>1, RunningCall DEF WorkPcs, PayPcs
  <2>3. CASE Leave(p, "retry", "none") /\ UNCHANGED attempts
    BY <2>1, <2>2, <2>3, GivesUpBy DEF Work
  <2>4. ASSUME NEW f \in TrackedBy(HashOf(p)), MarkPaymentInitiated(f, now),
               Goto(p, "start")
        PROVE  Work(p)
    <3>1. f \in EventIds
      BY DEF TrackedBy
    <3>2. /\ RowMarked(f) /\ attempts'[f].initiated /\ attempts'[f].state = attempts[f].state
          /\ attempts'[f] = attempts[f] \/ attempts[f].state = "reserved"
      BY <1>0, <2>4, <3>1, InitiatedMarks
    <3>3. Stepped(p, "start", proc[p].seen, proc[p].status, proc[p].response)
      BY <2>2, <2>4, GotoSteps
    <3>4. Initiates(p)
      BY <2>1, <3>2, <3>3 DEF Initiates
    <3> QED BY <2>1, <2>2, <3>4 DEF Work
  <2> QED BY <1>3, <2>3, <2>4 DEF InitiateStep
<1> QED BY <1>1, <1>2, <1>3

LEMMA StartWork ==
    ASSUME EngineTypes, NEW p \in Processes,
           \/ StartPayment(p) \/ AwaitPayment(p) \/ FinishPaymentStatus(p)
           \/ RecordNwcSentPayment(p)
    PROVE  Work(p)
<1>0. proc \in [Processes -> Calls \cup {Idle}] /\ {"failed", "pending"} \subseteq Statuses
  BY DEF EngineTypes, CallsTypeOK, Statuses
<1>1. CASE StartPayment(p)
  <2>1. /\ proc[p].pc = "start" /\ UNCHANGED <<events, lease, published>>
        /\ UNCHANGED <<attempts, sent>> /\ started' = started \cup {proc[p].event}
    BY <1>1 DEF StartPayment, ledgerVars, claimVars
  <2>2. proc[p].pc \in WorkPcs /\ proc[p] \in Calls
    BY <2>1, RunningCall DEF WorkPcs, PayPcs
  <2>3. CASE /\ \/ MaySubmit(proc[p].event, HashOf(p)) /\ Submit(proc[p].event, HashOf(p))
                \/ wallet[HashOf(p)].key = proc[p].event /\ UNCHANGED wallet
             /\ Goto(p, "await")
    <3>1. Stepped(p, "await", proc[p].seen, proc[p].status, proc[p].response)
      BY <2>2, <2>3, GotoSteps
    <3>2. Starts(p)
      BY <2>1, <2>3, <3>1 DEF Starts
    <3> QED BY <2>1, <2>2, <3>2 DEF Work
  <2>4. ASSUME MayReject(proc[p].event, HashOf(p)), UNCHANGED wallet,
               NEW kind \in {"Rejected", "NotFound"},
               FinishWith(p, StartOutcome(BridgeStartPayment(Err(kind))))
        PROVE  Work(p)
    <3>1. FinishWith(p, "failed")
      BY <2>4, RefusalOutcome DEF HostErrorKind
    <3>2. Stepped(p, "finish", proc[p].seen, "failed", proc[p].response)
      BY <1>0, <2>2, <3>1, FinishSteps
    <3>3. Learns(p, "failed")
      BY <2>1, <2>4 DEF Learns, MayReject
    <3>4. Told(p)
      BY <1>0, <2>1, <2>4, <3>2, <3>3 DEF Told
    <3> QED BY <2>1, <2>2, <3>4 DEF Work
  <2> QED BY <1>1, <2>3, <2>4 DEF StartPayment
<1>2. CASE AwaitPayment(p)
  <2>1. proc[p].pc = "await" /\ UNCHANGED <<events, lease, published>> /\ Silent
    BY <1>2 DEF AwaitPayment, ledgerVars, claimVars, Silent
  <2>2. /\ proc[p].pc \in WorkPcs /\ proc[p] \in Calls
        /\ wallet[HashOf(p)].status \in Statuses
    BY <2>1, RunningCall DEF WorkPcs, PayPcs, EngineTypes, HostsTypeOK
  <2>3. PICK report \in Reports(wallet[HashOf(p)].status) :
            FinishWith(p, StartOutcome(BridgeStartPayment(report)))
    BY <1>2 DEF AwaitPayment
  <2> DEFINE status == StartOutcome(BridgeStartPayment(report))
  <2>4. /\ status \in {wallet[HashOf(p)].status, "failed"}
        /\ ~Cast.undecodable => status = wallet[HashOf(p)].status
    BY <2>2, <2>3, ReportOutcome
  <2>5. FinishWith(p, status)
    BY <2>3
  <2> HIDE DEF status
  <2>6. Stepped(p, "finish", proc[p].seen, status, proc[p].response)
    BY <1>0, <2>2, <2>5, FinishSteps
  <2>7. Learns(p, status) /\ status \in Statuses
    BY <1>0, <2>1, <2>2, <2>4 DEF Learns, Silent
  <2>8. Told(p)
    BY <2>1, <2>6, <2>7 DEF Told, Silent
  <2> QED BY <2>1, <2>2, <2>8 DEF Work
<1>3. CASE FinishPaymentStatus(p)
  <2> DEFINE status == proc[p].status
             tracked == TrackedBy(HashOf(p))
             amount == SettledAmount(HashOf(p))
  <2>1. /\ proc[p].pc = "finish" /\ UNCHANGED <<events, lease, published>>
        /\ UNCHANGED <<wallet, started, sent>>
    BY <1>3 DEF FinishPaymentStatus, claimVars
  <2>2. proc[p].pc \in WorkPcs /\ proc[p].pc \in PayPcs /\ proc[p] \in Calls
    BY <2>1, RunningCall DEF WorkPcs, PayPcs
  <2>3. CASE Leave(p, "retry", "none") /\ UNCHANGED attempts
    BY <2>1, <2>2, <2>3, GivesUpBy DEF Work
  <2>4. CASE /\ \E f \in tracked : MarkPaymentPending(f, now)
             /\ Leave(p, "retry", "none")
    <3>1. StoredAs(p, "pending")
      BY <2>2, <2>4, StoredBy
    <3> QED BY <2>1, <2>2, <2>4, <3>1, GivesUpBy DEF Work
  <2>5. CASE /\ status = "succeeded"
             /\ \E f \in tracked : MarkPaymentSucceeded(f, amount, SettledFee, now)
             /\ Goto(p, "record")
    <3>1. StoredAs(p, "succeeded")
      BY <2>2, <2>5, StoredBy
    <3>2. Stepped(p, "record", proc[p].seen, proc[p].status, proc[p].response)
      BY <2>2, <2>5, GotoSteps
    <3>3. Settles(p)
      BY <2>1, <2>5, <3>1, <3>2 DEF Settles
    <3> QED BY <2>1, <2>2, <3>3 DEF Work
  <2>6. CASE /\ status = "failed"
             /\ \E f \in tracked : MarkPaymentFailed(f, now)
             /\ RespondWithError(p)
    <3>1. StoredAs(p, "failed")
      BY <2>2, <2>6, StoredBy
    <3>2. Stepped(p, "error", NoSnapshot, "unknown", "error")
      BY <1>0, <2>2, <2>6, LeaveSteps DEF RespondWithError
    <3>3. Fails(p)
      BY <2>1, <2>6, <3>1, <3>2 DEF Fails
    <3> QED BY <2>1, <2>2, <3>3 DEF Work
  <2> QED BY <1>3, <2>3, <2>4, <2>5, <2>6 DEF FinishPaymentStatus
<1>4. CASE RecordNwcSentPayment(p)
  <2>1. /\ proc[p].pc = "record" /\ UNCHANGED <<events, lease, published>>
        /\ UNCHANGED <<attempts, wallet, started>> /\ sent' = sent \cup {proc[p].event}
        /\ Leave(p, "check_commit", "result")
    BY <1>4 DEF RecordNwcSentPayment, ledgerVars, claimVars
  <2>2. proc[p].pc \in WorkPcs /\ proc[p] \in Calls
    BY <2>1, RunningCall DEF WorkPcs, PayPcs
  <2>3. Stepped(p, "check_commit", NoSnapshot, "unknown", "result")
    BY <1>0, <2>1, <2>2, LeaveSteps
  <2>4. Records(p)
    BY <2>1, <2>3 DEF Records
  <2> QED BY <2>1, <2>2, <2>4 DEF Work
<1> QED BY <1>1, <1>2, <1>3, <1>4

LEMMA FaultWork ==
    ASSUME EngineTypes, NEW p \in Processes,
           Interrupted(p) \/ ResponseRefused(p) \/ LedgerBusy(p) \/ Crash(p)
    PROVE  Work(p) \/ Frame(p)
<1>0. /\ proc \in [Processes -> Calls \cup {Idle}] /\ "pending" \in Statuses
      /\ Idle.pc = "idle" /\ "idle" \notin WorkPcs
  BY DEF EngineTypes, CallsTypeOK, Statuses, Idle, WorkPcs, PayPcs
<1>1. CallStep(p)
  BY FaultCallStep
<1>2. UNCHANGED <<attempts, wallet, sent, published>>
  BY DEF Interrupted, ResponseRefused, LedgerBusy, Crash, ledgerVars
<1>3. ASSUME proc' = [proc EXCEPT ![p] = Idle], UNCHANGED started
      PROVE  Frame(p)
  <2>1. proc'[p].pc \notin WorkPcs
    BY <1>0, <1>3
  <2>2. Silent
    BY <1>2, <1>3 DEF Silent
  <2> QED BY <1>1, <2>1, <2>2, FrameStep
<1>4. ASSUME proc[p].pc \in WorkPcs, NEW pc \in {"reject", "retry"}, Leave(p, pc, "none"),
             UNCHANGED <<started, events, lease>>
      PROVE  Work(p)
  <2>1. GivesUp(p)
    BY <1>2, <1>4, GivesUpBy
  <2> QED BY <1>2, <1>4, <2>1 DEF Work
<1>5. CASE Interrupted(p)
  <2>0. UNCHANGED <<events, lease>>
    BY <1>5 DEF Interrupted, ledgerVars, claimVars
  <2>1. CASE /\ proc[p].pc \in {"secret", "direct", "quote", "status",
                                "initiate", "start", "commit"}
             /\ Leave(p, "retry", "none") /\ UNCHANGED started
    <3>1. proc[p].pc \in WorkPcs
      BY <2>1 DEF WorkPcs, PayPcs
    <3> QED BY <1>4, <2>0, <2>1, <3>1
  <2>2. CASE /\ proc[p].pc \in {"start", "await"}
             /\ \E kind \in HostErrorKind \ {"Rejected", "NotFound"} :
                 FinishWith(p, StartOutcome(BridgeStartPayment(Err(kind))))
             /\ started' = started \cup {proc[p].event}
    <3>1. proc[p].pc \in WorkPcs /\ proc[p] \in Calls
      BY <2>2, RunningCall DEF WorkPcs, PayPcs
    <3>2. FinishWith(p, "pending")
      BY <2>2, RefusalOutcome
    <3>3. Stepped(p, "finish", proc[p].seen, "pending", proc[p].response)
      BY <1>0, <3>1, <3>2, FinishSteps
    <3>4. Learns(p, "pending")
      BY <2>2 DEF Learns
    <3>5. Told(p)
      BY <1>0, <1>2, <3>3, <3>4 DEF Told
    <3> QED BY <1>2, <2>0, <3>1, <3>5 DEF Work
  <2>3. CASE proc' = [proc EXCEPT ![p] = Idle] /\ UNCHANGED started
    BY <1>3, <2>3
  <2> QED BY <1>5, <2>1, <2>2, <2>3 DEF Interrupted
<1>6. CASE ResponseRefused(p)
  <2>1. proc[p].pc = "commit" /\ proc[p].pc \in WorkPcs /\ UNCHANGED <<events, started>>
    BY <1>6 DEF ResponseRefused, WorkPcs
  <2>2. CASE Goto(p, "reject") /\ UNCHANGED lease
    <3>1. GivesUp(p)
      BY <1>2, <2>1, <2>2, GivesUpBy
    <3> QED BY <1>2, <2>1, <2>2, <3>1 DEF Work
  <2>3. CASE proc' = [proc EXCEPT ![p] = Idle] /\ DropLease(p)
    BY <1>3, <2>1, <2>3
  <2> QED BY <1>6, <2>2, <2>3 DEF ResponseRefused
<1>7. CASE LedgerBusy(p)
  <2>1. UNCHANGED <<events, started>>
    BY <1>7 DEF LedgerBusy
  <2>2. CASE /\ proc[p].pc \in {"freshness", "check_direct", "check_start",
                                "check_commit", "error", "load_attempt",
                                "reserve", "release", "initiate", "finish",
                                "record", "commit"}
             /\ Leave(p, "retry", "none") /\ UNCHANGED lease
    <3>1. proc[p].pc \in WorkPcs
      BY <2>2 DEF WorkPcs, PayPcs
    <3> QED BY <1>4, <2>1, <2>2, <3>1
  <2>3. CASE proc' = [proc EXCEPT ![p] = Idle]
    BY <1>3, <2>1, <2>3
  <2> QED BY <1>7, <2>2, <2>3 DEF LedgerBusy
<1>8. CASE Crash(p)
  BY <1>3, <1>8 DEF Crash
<1> QED BY <1>5, <1>6, <1>7, <1>8

\* Every step of a call is one of these shapes.
LEMMA CallWorks ==
    ASSUME EngineTypes, NEW p \in Processes, StepOf(p)
    PROVE  Work(p) \/ Frame(p)
BY FramedActions, DispatchWork, PaymentWork, StatusWork, StartWork, FaultWork
DEF StepOf, Execute, Fault

LEMMA SteppedTo ==
    ASSUME EngineTypes, NEW p \in Processes, NEW pc, NEW seen, NEW status, NEW response,
           Stepped(p, pc, seen, status, response)
    PROVE  /\ proc'[p].pc = pc /\ proc'[p].event = proc[p].event
           /\ proc'[p].conn = proc[p].conn /\ proc'[p].revision = proc[p].revision
           /\ proc'[p].seen = seen /\ proc'[p].status = status
           /\ proc'[p].response = response
           /\ \A q \in Processes : q # p => proc'[q] = proc[q]
BY DEF Stepped, Call, EngineTypes, CallsTypeOK

\* What the steps that begin or end a call leave of it.
LEMMA FrameAfter ==
    ASSUME EngineTypes, NEW p \in Processes, Frame(p)
    PROVE  /\ \A q \in Processes : q # p => proc'[q] = proc[q]
           /\ \/ proc'[p] = Idle
              \/ proc'[p].pc = "claim" /\ proc'[p].response = "none"
              \/ /\ proc'[p].pc \in {"secret", "freshness", "publish", "send"}
                 /\ proc'[p].event = proc[p].event
                 /\ proc'[p].revision = proc[p].revision
                 /\ \/ proc'[p].response = proc[p].response
                    \/ Replays(p) /\ proc'[p].response = events[proc[p].event].response
<1>0. proc \in [Processes -> Calls \cup {Idle}]
  BY DEF EngineTypes, CallsTypeOK
<1>1. CASE Begins(p)
  BY <1>0, <1>1 DEF Begins
<1>2. CASE Rejects(p) \/ Retries(p) \/ Ends(p) \/ Publishes(p)
  BY <1>0, <1>2 DEF Rejects, Retries, Ends, Publishes
<1>3. CASE Acquires(p)
  BY <1>3, SteppedTo DEF Acquires
<1>4. CASE Replays(p)
  BY <1>4, SteppedTo DEF Replays
<1>5. CASE Accepts(p) \/ Commits(p) \/ Sends(p)
  BY <1>5, SteppedTo DEF Accepts, Commits, Sends
<1> QED BY <1>1, <1>2, <1>3, <1>4, <1>5 DEF Frame

\* The answers new with a step of a call's work.
Gives(p, r) ==
    \/ r = "error" /\ (Refuses(p) \/ Releases(p) \/ Fails(p))
    \/ r = "result" /\ (AnswersDirectly(p) \/ Records(p))

LEMMA WorkAfter ==
    ASSUME EngineTypes, NEW p \in Processes, Work(p)
    PROVE  /\ \A q \in Processes : q # p => proc'[q] = proc[q]
           /\ proc'[p].event = proc[p].event /\ proc'[p].revision = proc[p].revision
           /\ \/ proc'[p].response \in {"none", proc[p].response}
              \/ Gives(p, proc'[p].response)
           /\ proc'[p].pc \in WorkPcs
           /\ proc'[p].pc \in PayPcs => proc[p].pc \in PayPcs \/ Resumes(p)
<1>0. /\ {"reject", "retry", "error", "check_start", "status", "check_commit", "start",
          "await", "finish", "record"} \subseteq WorkPcs
      /\ {"reject", "retry", "error", "check_commit"} \cap PayPcs = {}
  BY DEF WorkPcs, PayPcs
<1>1. CASE GivesUp(p)
  BY <1>0, <1>1, SteppedTo DEF GivesUp
<1>2. CASE Refuses(p)
  BY <1>0, <1>2, SteppedTo DEF Refuses, Gives
<1>3. CASE Proceeds(p)
  <2>1. PICK pc \in WorkPcs :
            /\ Moves(p, pc)
            /\ Stepped(p, pc, proc[p].seen, proc[p].status, proc[p].response)
    BY <1>3 DEF Proceeds
  <2>2. pc \in PayPcs => proc[p].pc \in PayPcs
    BY <2>1 DEF Moves, PayPcs
  <2> QED BY <2>1, <2>2, SteppedTo
<1>4. CASE Resumes(p)
  <2>1. PICK pc \in {"check_start", "status"} :
            Stepped(p, pc, Snapshot(attempts'[proc[p].event]), proc[p].status,
                    proc[p].response)
    BY <1>4 DEF Resumes
  <2> QED BY <1>0, <1>4, <2>1, SteppedTo
<1>5. CASE AnswersDirectly(p)
  BY <1>0, <1>5, SteppedTo DEF AnswersDirectly, Gives
<1>6. CASE Releases(p)
  BY <1>0, <1>6, SteppedTo DEF Releases, Gives
<1>7. CASE Initiates(p)
  <2>1. proc[p].pc \in PayPcs
    BY <1>7 DEF Initiates, PayPcs
  <2> QED BY <1>0, <1>7, <2>1, SteppedTo DEF Initiates
<1>8. CASE Starts(p)
  <2>1. proc[p].pc \in PayPcs
    BY <1>8 DEF Starts, PayPcs
  <2> QED BY <1>0, <1>8, <2>1, SteppedTo DEF Starts
<1>9. CASE Told(p)
  <2>1. PICK status \in Statuses :
            /\ Learns(p, status)
            /\ Stepped(p, "finish", proc[p].seen, status, proc[p].response)
    BY <1>9 DEF Told
  <2>2. proc[p].pc \in PayPcs
    BY <2>1 DEF Learns, PayPcs
  <2> QED BY <1>0, <2>1, <2>2, SteppedTo
<1>10. CASE Settles(p)
  <2>1. proc[p].pc \in PayPcs
    BY <1>10 DEF Settles, PayPcs
  <2> QED BY <1>0, <1>10, <2>1, SteppedTo DEF Settles
<1>11. CASE Fails(p)
  BY <1>0, <1>11, SteppedTo DEF Fails, Gives
<1>12. CASE Records(p)
  BY <1>0, <1>12, SteppedTo DEF Records, Gives
<1> QED BY <1>1, <1>2, <1>3, <1>4, <1>5, <1>6, <1>7, <1>8, <1>9, <1>10, <1>11, <1>12
    DEF Work

-----------------------------------------------------------------------------
(* Where an answer can be found: in a row, at a relay, or with a call that *)
(* may still commit or publish it.                                         *)

CarriedBy(p, e, r) ==
    /\ proc[p] # Idle /\ proc[p].event = e /\ proc[p].response = r
    /\ proc[p].pc \in {"publish", "send"} \/ proc[p].revision = 0

Given(e, r) ==
    \/ events[e] # NoEvent /\ events[e].response = r
    \/ [event |-> e, response |-> r] \in published
    \/ \E p \in Processes : CarriedBy(p, e, r)

\* The rows a step of a call writes.
LEMMA RowsAfter ==
    ASSUME EngineTypes, NEW p \in Processes, Work(p) \/ Frame(p), NEW e \in EventIds,
           events'[e] # NoEvent
    PROVE  \/ events[e] # NoEvent /\ events'[e].response = events[e].response
           \/ events'[e].response = "none"
           \/ /\ Commits(p) /\ e = proc[p].event /\ proc[p].revision = 0
              /\ events'[e].response = proc[p].response /\ proc[p] # Idle
<1>0. /\ events \in [EventIds -> EventRow \cup {NoEvent}]
      /\ \A q \in Processes : Holds(q) => lease[q].event = proc[q].event
      /\ \A q \in Processes : Holds(q) => proc[q].pc \in WorkPcs
      /\ EstablishedOnce
  BY DEF EngineTypes, ClaimsTypeOK, CallsTypeOK
<1>1. CASE events' = events
  BY <1>1
<1>2. CASE Acquires(p)
  <2>1. PICK d \in Leases :
            ClaimEvent(p, proc[p].event, proc[p].conn, proc[p].revision, now, d)
    BY <1>2 DEF Acquires
  <2>2. /\ events'[proc[p].event].response = "none"
        /\ \A f \in EventIds : f # proc[p].event => events'[f] = events[f]
    <3>1. proc[p].event \in EventIds
      BY <1>2, RunningCall DEF Acquires
    <3> QED BY <1>0, <2>1, <3>1 DEF ClaimEvent
  <2> QED BY <2>2
<1>3. CASE Accepts(p) \/ Retries(p)
  <2>1. OwnsLease(p, now) /\ lease[p].event \in EventIds
    <3>1. OwnsLease(p, now)
      BY <1>3 DEF Accepts, Retries, AcceptEventFreshness, RetryLater
    <3> QED BY <3>1 DEF OwnsLease, Holds, EngineTypes, ClaimsTypeOK, LeaseRecord
  <2> DEFINE f == lease[p].event
             x == events[f]
  <2>2. x \in EventRow
    BY <1>0, <2>1 DEF OwnsLease, NoEvent
  <2>3. \/ events' = [events EXCEPT ![f] = [x EXCEPT !.fresh = TRUE, !.updated_at = now]]
        \/ events' = [events EXCEPT ![f] =
               [x EXCEPT !.state = "retryable", !.token = Nobody,
                         !.available_at = now + RetryDelay, !.updated_at = now]]
    BY <1>3 DEF Accepts, Retries, AcceptEventFreshness, RetryLater
  <2>4. /\ events'[f].response = x.response
        /\ \A g \in EventIds : g # f => events'[g] = events[g]
    <3>1. CASE events' = [events EXCEPT ![f] = [x EXCEPT !.fresh = TRUE,
                                                        !.updated_at = now]]
      BY <1>0, <2>1, <2>2, <3>1 DEF EventRow
    <3>2. CASE events' = [events EXCEPT ![f] =
                   [x EXCEPT !.state = "retryable", !.token = Nobody,
                             !.available_at = now + RetryDelay, !.updated_at = now]]
      BY <1>0, <2>1, <2>2, <3>2 DEF EventRow
    <3> QED BY <2>3, <3>1, <3>2
  <2>5. x # NoEvent
    BY <2>1 DEF OwnsLease, NoEvent
  <2> QED BY <1>0, <2>1, <2>4, <2>5
<1>4. ASSUME NEW response, NEW kind, CompleteEvent(p, kind, response, now)
      PROVE  \/ events[e] # NoEvent /\ events'[e].response = events[e].response
             \/ e = proc[p].event /\ events'[e].response = response
  <2>1. OwnsLease(p, now)
    BY <1>4 DEF CompleteEvent
  <2> DEFINE f == lease[p].event
             x == events[f]
  <2>2. f \in EventIds /\ f = proc[p].event
    BY <1>0, <2>1 DEF OwnsLease, Holds, EngineTypes, ClaimsTypeOK, LeaseRecord
  <2>3. x \in EventRow
    BY <1>0, <2>1, <2>2 DEF OwnsLease, NoEvent
  <2>4. events' = [events EXCEPT ![f] =
           [x EXCEPT !.state = "terminal", !.token = Nobody,
                     !.available_at = 0, !.kind = kind,
                     !.response = response, !.updated_at = now]]
    BY <1>4 DEF CompleteEvent
  <2>5. /\ events'[f].response = response
        /\ \A g \in EventIds : g # f => events'[g] = events[g]
    BY <1>0, <2>2, <2>3, <2>4 DEF EventRow
  <2> QED BY <1>0, <2>2, <2>5
<1>5. CASE Rejects(p)
  BY <1>4, <1>5 DEF Rejects
<1>6. CASE Commits(p)
  <2>1. /\ CompleteEvent(p, "completed", proc[p].response, now)
        /\ RevisionActive(proc[p].conn, proc[p].revision) /\ proc[p].pc = "commit"
    BY <1>6 DEF Commits, CompleteEventForActiveConnection
  <2>2. proc[p].revision = 0 /\ proc[p] # Idle
    <3>1. proc[p].conn \in ConnectionIds /\ proc[p] # Idle
      BY <2>1, RunningCall DEF Calls, Idle
    <3> QED BY <1>0, <2>1, <3>1 DEF RevisionActive, EstablishedOnce
  <2> QED BY <1>4, <1>6, <2>1, <2>2
<1> QED BY <1>1, <1>2, <1>3, <1>5, <1>6
    DEF Work, Frame, Begins, Replays, Ends, Sends, Publishes

\* A committed response is one of the connection's first revision, the only one
\* that is ever active here.
LEMMA CommitsFirst ==
    ASSUME EngineTypes, NEW p \in Processes, Commits(p)
    PROVE  proc[p].revision = 0 /\ proc[p] # Idle
<1>1. /\ RevisionActive(proc[p].conn, proc[p].revision) /\ proc[p].pc = "commit"
      /\ EstablishedOnce
  BY DEF Commits, CompleteEventForActiveConnection, EngineTypes
<1>2. proc[p].conn \in ConnectionIds /\ proc[p] # Idle
  BY <1>1, RunningCall DEF Calls, Idle
<1> QED BY <1>1, <1>2 DEF RevisionActive, EstablishedOnce

LEMMA GivenAfter ==
    ASSUME EngineTypes, NEW p \in Processes, StepOf(p), NEW e \in EventIds,
           NEW r \in Responses, Given(e, r)'
    PROVE  \/ Given(e, r)
           \/ e = proc[p].event /\ proc[p].revision = 0 /\ Work(p) /\ Gives(p, r)
<1>0. Work(p) \/ Frame(p)
  BY CallWorks
<1>1. r # "none" /\ Idle.pc = "idle" /\ "idle" \notin WorkPcs /\ "publish" \notin WorkPcs
      /\ "send" \notin WorkPcs
  BY EngineAssumption DEF Idle, WorkPcs, PayPcs
<1>2. CASE events'[e] # NoEvent /\ events'[e].response = r
  <2>1. \/ events[e] # NoEvent /\ events[e].response = r
        \/ Commits(p) /\ e = proc[p].event /\ r = proc[p].response
    BY <1>0, <1>1, <1>2, RowsAfter
  <2>2. Commits(p) => proc[p].revision = 0 /\ proc[p] # Idle
    BY CommitsFirst
  <2> QED BY <2>1, <2>2 DEF Given, CarriedBy
<1>3. CASE [event |-> e, response |-> r] \in published'
  <2>1. CASE published' = published
    BY <1>3, <2>1 DEF Given
  <2>2. CASE Publishes(p)
    <3>1. /\ published' = published \cup
                 {[event |-> proc[p].event, response |-> proc[p].response]}
          /\ proc[p].pc = "send" /\ proc[p] # Idle
      BY <1>1, <2>2 DEF Publishes
    <3>2. \/ [event |-> e, response |-> r] \in published
          \/ e = proc[p].event /\ r = proc[p].response
      BY <1>3, <3>1
    <3> QED BY <3>1, <3>2 DEF Given, CarriedBy
  <2> QED BY <1>0, <2>1, <2>2 DEF Work, Frame, Begins, Acquires, Replays, Accepts,
      Commits, Rejects, Retries, Ends, Sends
<1>4. ASSUME NEW q \in Processes, CarriedBy(q, e, r)', q # p
      PROVE  Given(e, r)
  <2>1. proc'[q] = proc[q]
    BY <1>0, <1>4, WorkAfter, FrameAfter
  <2>2. CarriedBy(q, e, r)
    BY <1>4, <2>1 DEF CarriedBy
  <2> QED BY <2>2 DEF Given
<1>5. CASE CarriedBy(p, e, r)' /\ Work(p)
  <2>1. /\ e = proc[p].event /\ proc'[p].response = r /\ proc[p].revision = 0
        /\ r = proc[p].response \/ Gives(p, r)
    BY <1>1, <1>5, WorkAfter DEF CarriedBy
  <2>2. proc[p] # Idle
    BY <1>1, <1>5 DEF Work
  <2> QED BY <1>5, <2>1, <2>2 DEF Given, CarriedBy
<1>6. CASE CarriedBy(p, e, r)' /\ Frame(p)
  <2>1. /\ proc'[p] # Idle /\ proc'[p].event = e /\ proc'[p].response = r
        /\ proc'[p].pc \in {"publish", "send"} \/ proc'[p].revision = 0
    BY <1>6 DEF CarriedBy
  <2>2. /\ proc'[p].pc \in {"secret", "freshness", "publish", "send"}
        /\ proc'[p].event = proc[p].event
        /\ proc'[p].revision = proc[p].revision
        /\ \/ proc'[p].response = proc[p].response
           \/ Replays(p) /\ proc'[p].response = events[proc[p].event].response
    BY <1>1, <1>6, <2>1, FrameAfter
  <2>3. CASE Replays(p)
    <3>1. events[proc[p].event] # NoEvent
          /\ proc'[p].response = events[proc[p].event].response
      BY <2>3, SteppedTo DEF Replays
    <3> QED BY <2>1, <2>2, <3>1 DEF Given
  <2>4. CASE ~Replays(p)
    <3>1. proc[p] # Idle
      <4>1. CASE Begins(p)
        BY <2>2, <4>1, <1>1 DEF Begins, EngineTypes, CallsTypeOK
      <4>2. CASE ~Begins(p)
        <5>1. \/ Ends(p)
              \/ proc[p].pc \in {"claim", "freshness", "commit", "reject", "retry",
                                 "publish", "send"}
          BY <1>6, <2>4, <4>2 DEF Frame, Acquires, Accepts, Commits, Rejects, Retries,
             Sends, Publishes
        <5> QED BY <1>1, <5>1 DEF Ends
      <4> QED BY <4>1, <4>2
    <3>2. proc[p].pc \in {"publish", "send"} \/ proc[p].revision = 0
      <4>1. CASE Sends(p)
        BY <4>1 DEF Sends
      <4>2. CASE Commits(p)
        BY <4>2, CommitsFirst
      <4>3. CASE proc'[p].pc \in {"secret", "freshness"}
        BY <2>1, <2>2, <4>3
      <4>4. CASE Acquires(p)
        BY <2>1, <2>2, <4>4, SteppedTo DEF Acquires
      <4>5. CASE Accepts(p)
        BY <2>1, <2>2, <4>5, SteppedTo DEF Accepts
      <4>6. CASE Begins(p) \/ Rejects(p) \/ Retries(p) \/ Ends(p) \/ Publishes(p)
        BY <1>1, <2>1, <2>2, <4>6
           DEF Begins, Rejects, Retries, Ends, Publishes, EngineTypes, CallsTypeOK
      <4> QED BY <1>6, <2>4, <4>1, <4>2, <4>4, <4>5, <4>6 DEF Frame
    <3>3. CarriedBy(p, e, r)
      BY <2>1, <2>2, <2>4, <3>1, <3>2 DEF CarriedBy
    <3> QED BY <3>3 DEF Given
  <2> QED BY <2>3, <2>4
<1> QED BY <1>0, <1>2, <1>3, <1>4, <1>5, <1>6 DEF Given

\* No other step gives an answer.
LEMMA GivenStays ==
    ASSUME EngineTypes, [EngineNext]_engineVars, ~ \E p \in Processes : StepOf(p),
           NEW e \in EventIds, NEW r \in Responses, Given(e, r)'
    PROVE  Given(e, r)
<1>1. UNCHANGED <<proc, published>>
  BY EngineSteps DEF Reconcile, StopReconciler, WalletSettles, PayOutside, Second,
     LeaveFreshnessWindow, PruneTerminalRows, Revoke, engineVars, hostVars
<1>2. events'[e] # NoEvent => events[e] # NoEvent /\ events'[e].response = events[e].response
  <2>1. CASE events' = events
    BY <2>1
  <2>2. CASE Second
    BY <2>2, SecondMoves
  <2>3. CASE PruneTerminalRows
    <3>1. PICK f \in stale : events' = [events EXCEPT ![f] = NoEvent]
      BY <2>3 DEF PruneTerminalRows
    <3> QED BY <3>1 DEF EngineTypes, ClaimsTypeOK
  <2> QED BY EngineSteps, <2>1, <2>2, <2>3
      DEF Reconcile, StopReconciler, WalletSettles, PayOutside, LoadUnresolved,
          QueryStatus, ApplyStatus, LeaveFreshnessWindow, Revoke, engineVars,
          ledgerVars, claimVars
<1>3. \A p \in Processes : CarriedBy(p, e, r)' => CarriedBy(p, e, r)
  BY <1>1 DEF CarriedBy
<1> QED BY <1>1, <1>2, <1>3 DEF Given

-----------------------------------------------------------------------------
(* Attempts of a pre-marker ledger.  No call and no pass works on one of   *)
(* their payment hashes, so nobody can move their rows.                    *)

\* No older attempt holds this payment hash.
NotLegacy(h) == \A e \in LegacyEvents : RequestOf[e].hash # h

LegacyKept ==
    \A e \in LegacyEvents : attempts[e] = LeftAttempt(e) /\ e \notin started

LegacyUnworked == \A p \in Processes : proc[p].pc \in PayPcs => NotLegacy(HashOf(p))

LegacyUnwatched ==
    /\ \A s \in reconciler.todo : NotLegacy(s.hash)
    /\ reconciler.pc = "apply" => NotLegacy(reconciler.seen.hash)

LegacyUnanswered ==
    \A e \in LegacyEvents, r \in Responses : Given(e, r) => r = "error"

\* Only what needs no payment is executed directly.
DirectlyOnly ==
    \A p \in Processes :
        proc[p].pc \in {"check_direct", "direct"} => Request(p).kind = "direct"

LegacyInv ==
    /\ LegacyKept /\ LegacyUnworked /\ LegacyUnwatched /\ LegacyUnanswered
    /\ DirectlyOnly

\* A row that is not legacy shares its payment hash with no legacy row.
LEMMA LegacyHashes ==
    ASSUME EngineTypes, NEW e \in EventIds, Exists(e), ~attempts[e].legacy
    PROVE  NotLegacy(attempts[e].hash) /\ attempts[e].hash = RequestOf[e].hash
<1>1. RowsOK /\ OneAttemptPerHash /\ LegacyEvents \subseteq EventIds
  BY RequestTypes DEF EngineTypes, HostsTypeOK
<1>2. attempts[e].hash = RequestOf[e].hash /\ e \notin LegacyEvents
  BY <1>1 DEF RowsOK, RowOK
<1>3. ASSUME NEW f \in LegacyEvents, RequestOf[f].hash = attempts[e].hash
      PROVE  FALSE
  <2>1. f \in EventIds /\ Exists(f) /\ attempts[f].hash = RequestOf[f].hash
    BY <1>1, <1>3 DEF RowsOK, RowOK
  <2> QED BY <1>1, <1>2, <1>3, <2>1 DEF OneAttemptPerHash
<1> QED BY <1>2, <1>3 DEF NotLegacy

LegacyApart ==
    \A e \in EventIds : Exists(e) /\ ~attempts[e].legacy =>
        NotLegacy(attempts[e].hash) /\ attempts[e].hash = RequestOf[e].hash

LEMMA LegacyApartHolds == EngineTypes => LegacyApart
BY LegacyHashes DEF LegacyApart

\* Rows of other hashes may move, the legacy rows stay.
LEMMA LegacyRowsStay ==
    ASSUME EngineTypes, LegacyKept, cast' = cast,
           \/ attempts' = attempts
           \/ \E h : NotLegacy(h) /\ \E f \in TrackedBy(h) : RowMarked(f) \/ RowReleased(f)
           \/ \E e \in EventIds : RowReserved(e),
           \A e \in LegacyEvents : e \notin started'
    PROVE  LegacyKept'
<1>1. /\ RowsOK /\ LegacyEvents \subseteq EventIds
      /\ attempts \in [EventIds -> AttemptRow \cup {NoAttempt}]
  BY RequestTypes DEF EngineTypes, HostsTypeOK, AccountingTypeOK
<1>2. LegacyEvents' = LegacyEvents /\ \A e : LeftAttempt(e)' = LeftAttempt(e)
  BY DEF LegacyEvents, LeftAttempt, RequestOf, Cast
<1>3. \A e \in LegacyEvents : attempts'[e] = attempts[e]
  <2> SUFFICES ASSUME NEW e \in LegacyEvents PROVE attempts'[e] = attempts[e]
    OBVIOUS
  <2>1. e \in EventIds /\ Exists(e) /\ attempts[e].hash = RequestOf[e].hash
    BY <1>1 DEF RowsOK, RowOK
  <2>2. ASSUME NEW h, NotLegacy(h), NEW f \in TrackedBy(h), RowMarked(f) \/ RowReleased(f)
        PROVE  attempts'[e] = attempts[e]
    <3>1. attempts[f].hash = h /\ f \in EventIds
      BY <2>2 DEF TrackedBy
    <3>2. f # e
      BY <2>1, <2>2, <3>1 DEF NotLegacy
    <3> QED BY <1>1, <2>1, <2>2, <3>1, <3>2 DEF RowMarked, RowReleased
  <2>3. ASSUME NEW f \in EventIds, RowReserved(f)
        PROVE  attempts'[e] = attempts[e]
    BY <1>1, <2>1, <2>3 DEF RowReserved
  <2> QED BY <2>2, <2>3
<1> QED BY <1>2, <1>3 DEF LegacyKept

LEMMA CallKeepsLegacy ==
    ASSUME EngineTypes, EngineTypes', LegacyInv, NEW p \in Processes, StepOf(p)
    PROVE  LegacyInv'
<1>0. /\ CallAccounts(p) /\ CallHosts(p) /\ cast' = cast /\ reconciler' = reconciler
      /\ Work(p) \/ Frame(p)
      /\ LegacyKept /\ LegacyUnworked /\ LegacyUnwatched /\ LegacyUnanswered
      /\ DirectlyOnly
  BY StepOfCall, CallWorks DEF LegacyInv
<1>1. /\ LegacyEvents' = LegacyEvents /\ RequestOf' = RequestOf
      /\ \A h : NotLegacy(h)' <=> NotLegacy(h)
  BY <1>0 DEF LegacyEvents, RequestOf, Cast, NotLegacy
<1>2. /\ LegacyEvents \subseteq EventIds /\ cast \in DOMAIN Casts
      /\ \A e \in LegacyEvents : RequestOf[e].kind = "pay_invoice"
  BY RequestTypes, LeftTypes DEF EngineTypes, HostsTypeOK
<1>3. /\ {"secret", "freshness", "publish", "send", "claim", "idle"} \cap
            (PayPcs \cup {"check_direct", "direct"}) = {}
      /\ Idle.pc = "idle" /\ "idle" \notin WorkPcs
  BY DEF PayPcs, WorkPcs, Idle
<1>4. proc[p].pc \in PayPcs => proc[p].event \notin LegacyEvents
  <2> SUFFICES ASSUME proc[p].pc \in PayPcs, proc[p].event \in LegacyEvents PROVE FALSE
    OBVIOUS
  <2>1. HashOf(p) = RequestOf[proc[p].event].hash
    BY DEF HashOf, Request
  <2> QED BY <1>0, <2>1 DEF LegacyUnworked, NotLegacy
<1>5. LegacyKept'
  <2>1. \A e \in LegacyEvents : e \notin started'
    BY <1>0, <1>4 DEF CallHosts, LegacyKept, PayPcs
  <2>2. \/ attempts' = attempts
        \/ \E h : NotLegacy(h) /\ \E f \in TrackedBy(h) : RowMarked(f) \/ RowReleased(f)
        \/ \E e \in EventIds : RowReserved(e)
    BY <1>0 DEF CallAccounts, LegacyUnworked, RowReserved
  <2> QED BY <1>0, <2>1, <2>2, LegacyRowsStay
<1>6. LegacyUnworked'
  <2> SUFFICES ASSUME NEW q \in Processes, proc'[q].pc \in PayPcs
               PROVE  NotLegacy(RequestOf[proc'[q].event].hash)
    BY <1>1 DEF LegacyUnworked, HashOf, Request
  <2>1. CASE q # p
    <3>1. proc'[q] = proc[q]
      BY <1>0, <2>1, WorkAfter, FrameAfter
    <3> QED BY <1>0, <3>1 DEF LegacyUnworked, HashOf, Request
  <2>2. CASE q = p
    <3>1. Work(p)
      BY <1>0, <1>3, <2>2, FrameAfter
    <3>2. proc'[p].event = proc[p].event /\ (proc[p].pc \in PayPcs \/ Resumes(p))
      BY <2>2, <3>1, WorkAfter
    <3>3. CASE proc[p].pc \in PayPcs
      BY <1>0, <2>2, <3>2, <3>3 DEF LegacyUnworked, HashOf, Request
    <3>4. CASE Resumes(p)
      <4> DEFINE e == proc[p].event
      <4>1. e \in EventIds
        BY <3>4, RunningCall DEF Resumes
      <4>2. attempts'[e].state # "none" /\ ~attempts'[e].legacy
        BY <3>4 DEF Resumes, AttemptRow
      <4>3. LegacyApart'
        BY LegacyApartHolds, PTL
      <4>4. NotLegacy(attempts'[e].hash) /\ attempts'[e].hash = RequestOf[e].hash
        <5>1. \A f \in EventIds : attempts'[f].state # "none" /\ ~attempts'[f].legacy =>
                  NotLegacy(attempts'[f].hash) /\ attempts'[f].hash = RequestOf[f].hash
          BY <1>1, <4>3 DEF LegacyApart, NotLegacy, Exists
        <5> QED BY <4>1, <4>2, <5>1
      <4> QED BY <2>2, <3>2, <4>4
    <3> QED BY <3>2, <3>3, <3>4
  <2> QED BY <2>1, <2>2
<1>7. LegacyUnwatched'
  BY <1>0, <1>1 DEF LegacyUnwatched
<1>8. DirectlyOnly'
  <2> SUFFICES ASSUME NEW q \in Processes, proc'[q].pc \in {"check_direct", "direct"}
               PROVE  RequestOf[proc'[q].event].kind = "direct"
    BY <1>1 DEF DirectlyOnly, Request
  <2>1. CASE q # p
    <3>1. proc'[q] = proc[q]
      BY <1>0, <2>1, WorkAfter, FrameAfter
    <3> QED BY <1>0, <3>1 DEF DirectlyOnly, Request
  <2>2. CASE q = p
    <3>1. Work(p)
      BY <1>0, <1>3, <2>2, FrameAfter
    <3>2. proc'[p].event = proc[p].event
      BY <3>1, WorkAfter
    <3>3. Proceeds(p)
      BY <2>2, <3>1, SteppedTo DEF Work, GivesUp, Refuses, Resumes, AnswersDirectly,
         Releases, Initiates, Starts, Told, Settles, Fails, Records
    <3>4. PICK pc \in WorkPcs :
              /\ Moves(p, pc)
              /\ Stepped(p, pc, proc[p].seen, proc[p].status, proc[p].response)
      BY <3>3 DEF Proceeds
    <3>5. Request(p).kind = "direct"
      BY <1>0, <2>2, <3>4, SteppedTo DEF Moves, DirectlyOnly
    <3> QED BY <2>2, <3>2, <3>5 DEF Request
  <2> QED BY <2>1, <2>2
<1>9. LegacyUnanswered'
  <2> SUFFICES ASSUME NEW e \in LegacyEvents, NEW r \in Responses, Given(e, r)'
               PROVE  r = "error"
    BY <1>1 DEF LegacyUnanswered
  <2>1. e \in EventIds
    BY <1>2
  <2>2. CASE Given(e, r)
    BY <1>0, <2>2 DEF LegacyUnanswered
  <2>3. CASE e = proc[p].event /\ Gives(p, r)
    <3>1. CASE AnswersDirectly(p)
      <4>1. RequestOf[e].kind = "direct"
        BY <1>0, <2>3, <3>1 DEF AnswersDirectly, DirectlyOnly, Request
      <4> QED BY <1>2, <4>1
    <3>2. CASE Records(p)
      BY <1>4, <2>3, <3>2 DEF Records, PayPcs
    <3> QED BY <2>3, <3>1, <3>2 DEF Gives
  <2> QED BY <2>1, <2>2, <2>3, GivenAfter
<1> QED BY <1>5, <1>6, <1>7, <1>8, <1>9 DEF LegacyInv

LEMMA PassKeepsLegacy ==
    ASSUME EngineTypes, LegacyInv, Reconcile \/ StopReconciler
    PROVE  LegacyKept' /\ LegacyUnwatched'
<1>0. /\ PassMoves /\ PassAccounts /\ cast' = cast /\ started' = started
      /\ LegacyKept /\ LegacyUnwatched
  BY ReconcileMoves, PassAccountsStep DEF LegacyInv, Reconcile, StopReconciler, hostVars
<1>1. \A h : NotLegacy(h)' <=> NotLegacy(h)
  BY <1>0 DEF LegacyEvents, RequestOf, Cast, NotLegacy
<1>2. LegacyKept'
  <2>1. \/ attempts' = attempts
        \/ \E h : NotLegacy(h) /\ \E f \in TrackedBy(h) : RowMarked(f) \/ RowReleased(f)
    BY <1>0 DEF PassAccounts, LegacyUnwatched
  <2>2. \A e \in LegacyEvents : e \notin started'
    BY <1>0 DEF LegacyKept
  <2> QED BY <1>0, <2>1, <2>2, LegacyRowsStay
<1>3. LegacyUnwatched'
  <2>1. CASE PassRests
    BY <2>1 DEF PassRests, RestingReconciler, LegacyUnwatched
  <2>2. CASE PassLoads
    <3>1. PICK batch \in SUBSET Due :
              reconciler' = Pass("next", {Snapshot(attempts[e]) : e \in batch},
                                 NoSnapshot, "unknown")
      BY <2>2 DEF PassLoads
    <3>2. /\ reconciler'.todo = {Snapshot(attempts[e]) : e \in batch}
          /\ reconciler'.pc = "next"
      BY <3>1 DEF Pass
    <3>3. \A e \in batch : NotLegacy(Snapshot(attempts[e]).hash)
      <4> SUFFICES ASSUME NEW e \in batch PROVE NotLegacy(Snapshot(attempts[e]).hash)
        OBVIOUS
      <4>1. e \in EventIds /\ Exists(e) /\ ~attempts[e].legacy
        BY DEF Due, Unresolved, Exists
      <4>2. Snapshot(attempts[e]).hash = attempts[e].hash
        BY DEF Snapshot
      <4> QED BY <4>1, <4>2, LegacyHashes
    <3>4. \A s \in reconciler'.todo : NotLegacy(s.hash)
      BY <3>2, <3>3
    <3> QED BY <1>1, <3>2, <3>4 DEF LegacyUnwatched
  <2>3. CASE PassSkips
    <3>1. reconciler'.pc = "next" /\ reconciler'.todo \subseteq reconciler.todo
      BY <2>3 DEF PassSkips, Pass
    <3> QED BY <1>0, <1>1, <3>1 DEF LegacyUnwatched
  <2>4. CASE PassAsks
    <3>1. PICK s \in reconciler.todo :
              reconciler' = Pass("apply", reconciler.todo \ {s}, s, wallet[s.hash].status)
      BY <2>4 DEF PassAsks
    <3>2. reconciler'.seen = s /\ reconciler'.todo \subseteq reconciler.todo
      BY <3>1 DEF Pass
    <3> QED BY <1>0, <1>1, <3>2 DEF LegacyUnwatched
  <2>5. CASE PassGoesOn
    <3>1. reconciler'.pc = "next" /\ reconciler'.todo = reconciler.todo
      BY <2>5 DEF PassGoesOn, Pass
    <3> QED BY <1>0, <1>1, <3>1 DEF LegacyUnwatched
  <2> QED BY <1>0, <2>1, <2>2, <2>3, <2>4, <2>5 DEF PassMoves
<1> QED BY <1>2, <1>3

LEMMA LegacyInvStep ==
    ASSUME EngineTypes, EngineTypes', LegacyInv, [EngineNext]_engineVars
    PROVE  LegacyInv'
<1>1. CASE \E p \in Processes : StepOf(p)
  BY <1>1, CallKeepsLegacy
<1>2. CASE ~ \E p \in Processes : StepOf(p)
  <2>1. UNCHANGED <<proc, cast>>
    BY <1>2, EngineSteps DEF Reconcile, StopReconciler, WalletSettles, PayOutside, Second,
       LeaveFreshnessWindow, PruneTerminalRows, Revoke, engineVars, hostVars
  <2>2. /\ LegacyEvents' = LegacyEvents /\ RequestOf' = RequestOf
        /\ \A h : NotLegacy(h)' <=> NotLegacy(h)
    BY <2>1 DEF LegacyEvents, RequestOf, Cast, NotLegacy
  <2>3. LegacyUnworked' /\ DirectlyOnly'
    BY <2>1, <2>2 DEF LegacyInv, LegacyUnworked, DirectlyOnly, HashOf, Request
  <2>4. LegacyUnanswered'
    <3>1. LegacyEvents \subseteq EventIds
      BY RequestTypes DEF EngineTypes, HostsTypeOK
    <3> QED BY <1>2, <2>2, <3>1, GivenStays DEF LegacyInv, LegacyUnanswered
  <2>5. LegacyKept' /\ LegacyUnwatched'
    <3>1. CASE Reconcile \/ StopReconciler
      BY <3>1, PassKeepsLegacy
    <3>2. CASE ~(Reconcile \/ StopReconciler)
      <4>1. UNCHANGED <<attempts, started, reconciler>>
        BY <1>2, <3>2, EngineSteps DEF WalletSettles, PayOutside, Second,
           LeaveFreshnessWindow, PruneTerminalRows, Revoke, engineVars, ledgerVars,
           hostVars
      <4>2. \A e : LeftAttempt(e)' = LeftAttempt(e)
        BY <2>2 DEF LeftAttempt
      <4> QED BY <2>2, <4>1, <4>2 DEF LegacyInv, LegacyKept, LegacyUnwatched
    <3> QED BY <3>1, <3>2
  <2> QED BY <2>3, <2>4, <2>5 DEF LegacyInv
<1> QED BY <1>1, <1>2

LEMMA LegacyInvInit == EngineInit => LegacyInv
<1> SUFFICES ASSUME EngineInit PROVE LegacyInv
  OBVIOUS
<1>1. /\ cast \in DOMAIN Casts /\ published = {} /\ started = LeftEvents
      /\ reconciler = RestingReconciler /\ proc = [p \in Processes |-> Idle]
      /\ events = [e \in EventIds |-> NoEvent]
      /\ attempts = [e \in EventIds |->
             IF e \in LegacyEvents \cup LeftEvents THEN LeftAttempt(e) ELSE NoAttempt]
  BY DEF EngineInit
<1>2. LegacyEvents \subseteq EventIds /\ LegacyEvents \cap LeftEvents = {}
  BY <1>1, RequestTypes
<1>3. Idle.pc = "idle"
  BY DEF Idle
<1>4. LegacyKept
  BY <1>1, <1>2 DEF LegacyKept
<1>5. LegacyUnworked /\ DirectlyOnly
  BY <1>1, <1>3 DEF LegacyUnworked, DirectlyOnly, PayPcs
<1>6. LegacyUnwatched
  BY <1>1 DEF LegacyUnwatched, RestingReconciler
<1>7. \A e \in EventIds, r \in Responses : ~Given(e, r)
  BY <1>1 DEF Given, CarriedBy
<1> QED BY <1>2, <1>4, <1>5, <1>6, <1>7 DEF LegacyInv, LegacyUnanswered

(***************************************************************************)
(* For every cast, whatever is paid outside, outlives its lease or comes   *)
(* back undecodable: an attempt an older ledger left in flight is never    *)
(* started again, its row and its debit never move, and its settlement is  *)
(* never disclosed.                                                        *)
(***************************************************************************)
THEOREM OlderAttemptsStayClosed == EngineSafety => []LegacyStaysClosed
<1>1. EngineInit => EngineTypes /\ LegacyInv
  BY EngineTypesInit, LegacyInvInit
<1>2. EngineTypes /\ LegacyInv /\ [EngineNext]_engineVars => (EngineTypes /\ LegacyInv)'
  BY EngineTypesStep, LegacyInvStep
<1>3. EngineTypes /\ LegacyInv => LegacyStaysClosed
  <2> SUFFICES ASSUME EngineTypes, LegacyInv, NEW e \in LegacyEvents,
                      NEW m \in published, m.event = e
               PROVE  m.response = "error"
    BY DEF LegacyStaysClosed, LegacyInv, LegacyKept
  <2>1. m \in [event: EventIds, response: Responses]
    BY DEF EngineTypes, HostsTypeOK
  <2>2. m = [event |-> e, response |-> m.response] /\ m.response \in Responses
    BY <2>1
  <2>3. Given(e, m.response)
    BY <2>2 DEF Given
  <2> QED BY <2>2, <2>3 DEF LegacyInv, LegacyUnanswered
<1> QED BY <1>1, <1>2, <1>3, PTL DEF EngineSafety

-----------------------------------------------------------------------------
(* Whose payment it is.  Rows are updated by payment hash and wallet       *)
(* payments are kept by event, so the two may belong to different requests *)
(* when a row is released and another request takes its hash.  A row is    *)
(* released only for a payment nobody here has made: that takes a payment  *)
(* from outside, and a second request of the same invoice.                 *)

Inside == ~Cast.outside

Unshared ==
    \A e, f \in EventIds : RequestOf[e].hash = RequestOf[f].hash =>
        e = f \/ ~NotLegacy(RequestOf[e].hash)

Attributed == Inside \/ Unshared

Initiated(e) == Exists(e) /\ attempts[e].initiated

Disclosable(e) == Exists(e) /\ MayDiscloseSettlement(attempts[e])

\* The wallet's payments belong to initiated rows of their own hash.
PaidRows ==
    \A h \in Hashes : wallet[h].key \in EventIds =>
        RequestOf[wallet[h].key].hash = h /\ Initiated(wallet[h].key)

\* What a call in the payment code may rely on.
CallAttributed(p) ==
    proc[p].pc \in PayPcs =>
        /\ proc[p].seen.initiated \/ proc[p].pc \in {"start", "await", "finish", "record"}
               => Initiated(proc[p].event)
        /\ (MayDiscloseSettlement(proc[p].seen)
               \/ proc[p].pc \in {"await", "finish", "record"})
               => proc[p].event \in started
        /\ Inside => Exists(proc[p].event)
        /\ Inside /\ proc[p].pc = "release" => wallet[HashOf(p)].key # Nobody

CallsAttributed == \A p \in Processes : CallAttributed(p)

StartedRows == \A e \in EventIds : Disclosable(e) => e \in started

\* A settlement the pass may attribute is one of a row that still may.
Watches(s) ==
    MayDiscloseSettlement(s) =>
        \E e \in EventIds : Disclosable(e) /\ attempts[e].hash = s.hash

WatchedRows ==
    /\ \A s \in reconciler.todo : Watches(s)
    /\ reconciler.pc = "apply" =>
        /\ Watches(reconciler.seen)
        /\ Inside /\ reconciler.status # "unknown" =>
               wallet[reconciler.seen.hash].key # Nobody

ResultsStarted ==
    \A e \in EventIds :
        RequestOf[e].kind = "pay_invoice" /\ Given(e, "result") => e \in started

WalletKeys ==
    \A h \in Hashes : /\ wallet[h].status # "unknown" => wallet[h].key # Nobody
                      /\ Inside => wallet[h].key # External

AttributedInv ==
    Attributed => /\ PaidRows /\ CallsAttributed /\ StartedRows /\ WatchedRows
                  /\ ResultsStarted /\ WalletKeys

\* The row of a call's payment hash is the call's own.
LEMMA OwnRows ==
    ASSUME EngineTypes, LegacyInv, AttributedInv, Attributed, NEW p \in Processes,
           proc[p].pc \in PayPcs, NEW f \in TrackedBy(HashOf(p))
    PROVE  f = proc[p].event
<1>0. /\ RowsOK /\ OneAttemptPerHash /\ NotLegacy(HashOf(p)) /\ CallAttributed(p)
  BY DEF EngineTypes, LegacyInv, LegacyUnworked, AttributedInv, CallsAttributed
<1>1. proc[p].event \in EventIds /\ HashOf(p) = RequestOf[proc[p].event].hash
  BY RunningCall DEF PayPcs
<1>2. f \in EventIds /\ Exists(f) /\ attempts[f].hash = HashOf(p)
  BY DEF TrackedBy
<1>3. RequestOf[f].hash = HashOf(p)
  BY <1>0, <1>2 DEF RowsOK, RowOK
<1>4. CASE Unshared
  BY <1>0, <1>1, <1>2, <1>3, <1>4 DEF Unshared
<1>5. CASE Inside
  <2>1. Exists(proc[p].event)
    BY <1>0, <1>5 DEF CallAttributed
  <2>2. attempts[proc[p].event].hash = HashOf(p)
    BY <1>0, <1>1, <2>1 DEF RowsOK, RowOK
  <2> QED BY <1>0, <1>1, <1>2, <2>1, <2>2 DEF OneAttemptPerHash
<1> QED BY <1>4, <1>5 DEF Attributed

\* Inside, a payment the wallet knows is one of an initiated row.
LEMMA NothingToRelease ==
    ASSUME EngineTypes, AttributedInv, Inside, NEW h \in Hashes,
           wallet[h].key # Nobody, NEW f \in TrackedBy(h)
    PROVE  attempts[f].initiated
<1>0. /\ RowsOK /\ OneAttemptPerHash /\ PaidRows /\ WalletKeys
      /\ wallet \in [Hashes -> [status: Statuses, key: EventIds \cup {External, Nobody}]]
  BY DEF EngineTypes, HostsTypeOK, AttributedInv, Attributed
<1>1. wallet[h].key \in EventIds
  BY <1>0 DEF WalletKeys
<1> DEFINE e == wallet[h].key
<1>2. Exists(e) /\ attempts[e].initiated /\ attempts[e].hash = h
  BY <1>0, <1>1 DEF PaidRows, RowsOK, RowOK, Initiated
<1>3. f \in EventIds /\ Exists(f) /\ attempts[f].hash = h
  BY DEF TrackedBy
<1>4. f = e
  BY <1>0, <1>1, <1>2, <1>3 DEF OneAttemptPerHash
<1> QED BY <1>2, <1>4

\* Initiated rows stay, with their hash, and stay disclosable.
LEMMA RowsLast ==
    ASSUME EngineTypes, AccountStep, NEW e \in EventIds
    PROVE  /\ Initiated(e) => Initiated(e)' /\ attempts'[e].hash = attempts[e].hash
           /\ Disclosable(e) => Disclosable(e)' /\ attempts'[e].hash = attempts[e].hash
           /\ Exists(e) => Exists(e)' \/ RowReleased(e)
<1>0. attempts \in [EventIds -> AttemptRow \cup {NoAttempt}]
  BY DEF EngineTypes, AccountingTypeOK
<1>1. CASE attempts' = attempts
  BY <1>1 DEF Initiated, Disclosable, Exists
<1>2. ASSUME NEW f \in EventIds, RowMarked(f)
      PROVE  /\ Initiated(e) => Initiated(e)' /\ attempts'[e].hash = attempts[e].hash
             /\ Disclosable(e) => Disclosable(e)' /\ attempts'[e].hash = attempts[e].hash
             /\ Exists(e) => Exists(e)'
  <2>1. CASE e # f
    <3>1. attempts'[e] = attempts[e]
      BY <1>0, <1>2, <2>1 DEF RowMarked
    <3> QED BY <3>1 DEF Initiated, Disclosable, Exists
  <2>2. CASE e = f
    BY <1>2, <2>2 DEF RowMarked, Kept, Initiated, Disclosable, Exists, AttemptRow,
       MayDiscloseSettlement
  <2> QED BY <2>1, <2>2
<1>3. ASSUME NEW f \in EventIds, RowReleased(f) \/ RowReserved(f)
      PROVE  /\ Initiated(e) => Initiated(e)' /\ attempts'[e].hash = attempts[e].hash
             /\ Disclosable(e) => Disclosable(e)' /\ attempts'[e].hash = attempts[e].hash
             /\ Exists(e) => Exists(e)' \/ RowReleased(e)
  <2>1. CASE e # f
    <3>1. attempts'[e] = attempts[e]
      BY <1>0, <1>3, <2>1 DEF RowReleased, RowReserved
    <3> QED BY <3>1 DEF Initiated, Disclosable, Exists
  <2>2. CASE e = f
    BY <1>3, <2>2 DEF RowReleased, RowReserved, Initiated, Disclosable, Exists,
       MayDiscloseSettlement
  <2> QED BY <2>1, <2>2
<1> QED BY <1>1, <1>2, <1>3 DEF AccountStep

\* A row becomes disclosable only when a call stores the status it finished with.
LEMMA WorkRows ==
    ASSUME EngineTypes, NEW p \in Processes, Work(p) \/ Frame(p), NEW e \in EventIds,
           Disclosable(e)'
    PROVE  \/ Disclosable(e)
           \/ proc[p].pc = "finish" /\ e \in TrackedBy(HashOf(p))
<1>0. /\ attempts \in [EventIds -> AttemptRow \cup {NoAttempt}] /\ RowsOK
  BY DEF EngineTypes, AccountingTypeOK
<1>1. CASE attempts' = attempts
  BY <1>1 DEF Disclosable, Exists
<1>2. ASSUME NEW f \in TrackedBy(HashOf(p)), RowMarked(f),
             proc[p].pc = "finish" \/ attempts'[f].state = attempts[f].state
      PROVE  \/ Disclosable(e)
             \/ proc[p].pc = "finish" /\ e \in TrackedBy(HashOf(p))
  <2>1. CASE e # f
    <3>1. attempts'[e] = attempts[e]
      BY <1>0, <1>2, <2>1 DEF RowMarked
    <3> QED BY <3>1 DEF Disclosable, Exists
  <2>2. CASE e = f /\ proc[p].pc # "finish"
    <3>1. /\ Exists(f) /\ attempts[f].state # "reserved" /\ attempts[f].initiated
          /\ ~attempts[f].legacy
      BY <1>0, <1>2, <2>2 DEF RowMarked, Kept, Disclosable, MayDiscloseSettlement, RowsOK,
         RowOK, Exists
    <3> QED BY <2>2, <3>1 DEF Disclosable, MayDiscloseSettlement
  <2>3. CASE e = f /\ proc[p].pc = "finish"
    BY <1>2, <2>3
  <2> QED BY <2>1, <2>2, <2>3
<1>3. ASSUME NEW f \in EventIds, RowReleased(f) \/ RowReserved(f)
      PROVE  Disclosable(e)
  <2>1. CASE e # f
    <3>1. attempts'[e] = attempts[e]
      BY <1>0, <1>3, <2>1 DEF RowReleased, RowReserved
    <3> QED BY <3>1 DEF Disclosable, Exists
  <2>2. CASE e = f
    BY <1>0, <1>3, <2>2 DEF RowReleased, RowReserved, Disclosable, MayDiscloseSettlement,
       Exists, NoAttempt
  <2> QED BY <2>1, <2>2
<1>4. CASE GivesUp(p) \/ Settles(p) \/ Fails(p)
  BY <1>1, <1>2, <1>4 DEF GivesUp, Settles, Fails, StoredAs
<1>5. CASE Initiates(p)
  BY <1>2, <1>5 DEF Initiates
<1>6. CASE Releases(p) \/ Resumes(p)
  BY <1>1, <1>3, <1>6 DEF Releases, Resumes, RowReleased, RowReserved
<1>7. CASE \/ Refuses(p) \/ Proceeds(p) \/ AnswersDirectly(p) \/ Starts(p) \/ Told(p)
           \/ Records(p) \/ Frame(p)
  <2>1. attempts' = attempts
    BY <1>7 DEF Refuses, Proceeds, AnswersDirectly, Starts, Told, Records, Frame, Silent
  <2> QED BY <1>1, <2>1
<1> QED BY <1>4, <1>5, <1>6, <1>7 DEF Work

\* What a step never takes away from the other calls.
StillAttributed ==
    /\ \A e \in EventIds : Initiated(e) => Initiated(e)'
    /\ started \subseteq started'
    /\ Inside => \A e \in EventIds : Exists(e) => Exists(e)'
    /\ \A h \in Hashes : wallet[h].key # Nobody => wallet'[h].key # Nobody
    /\ cast' = cast

LEMMA CallStaysAttributed ==
    ASSUME EngineTypes, StillAttributed, NEW q \in Processes, CallAttributed(q),
           proc'[q] = proc[q]
    PROVE  CallAttributed(q)'
<1>0. (Inside <=> Inside') /\ RequestOf' = RequestOf
  BY DEF StillAttributed, Inside, RequestOf, Cast
<1>1. CASE proc[q].pc \notin PayPcs
  BY <1>1 DEF CallAttributed
<1>2. CASE proc[q].pc \in PayPcs
  <2>1. proc[q].event \in EventIds /\ HashOf(q) \in Hashes
    BY <1>2, RunningCall DEF PayPcs
  <2>2. HashOf(q)' = HashOf(q)
    BY <1>0 DEF HashOf, Request
  <2> DEFINE e == proc[q].event
             h == HashOf(q)
  <2>3. /\ Initiated(e) => attempts'[e].state # "none" /\ attempts'[e].initiated
        /\ e \in started => e \in started'
        /\ Inside /\ Exists(e) => attempts'[e].state # "none"
        /\ wallet[h].key # Nobody => wallet'[h].key # Nobody
    BY <2>1 DEF StillAttributed, Initiated, Exists
  <2> QED BY <1>0, <1>2, <2>1, <2>2, <2>3 DEF CallAttributed, Initiated, Exists
<1> QED BY <1>1, <1>2

LEMMA CallStill ==
    ASSUME EngineTypes, LegacyInv, AttributedInv, Attributed, NEW p \in Processes, StepOf(p)
    PROVE  StillAttributed
<1>0. /\ CallAccounts(p) /\ CallHosts(p) /\ cast' = cast /\ (Work(p) \/ Frame(p))
      /\ wallet \in [Hashes -> [status: Statuses, key: EventIds \cup {External, Nobody}]]
      /\ CallAttributed(p)
  BY StepOfCall, CallWorks DEF EngineTypes, HostsTypeOK, AttributedInv, CallsAttributed
<1>1. AccountStep
  <2>1. TrackedBy(HashOf(p)) \subseteq EventIds
    BY DEF TrackedBy
  <2> QED BY <1>0, <2>1 DEF CallAccounts, AccountStep, RowReserved
<1>2. \A e \in EventIds : Initiated(e) => Initiated(e)'
  BY <1>1, RowsLast
<1>3. started \subseteq started'
  BY <1>0 DEF CallHosts
<1>4. ASSUME Inside, NEW e \in EventIds, Exists(e)
      PROVE  Exists(e)'
  <2> SUFFICES ASSUME RowReleased(e), ~Exists(e)' PROVE FALSE
    BY <1>1, <1>4, RowsLast
  <2>1. attempts' # attempts
    BY <1>4 DEF Exists
  <2>2. Releases(p)
    <3>1. attempts'[e] = NoAttempt
      BY DEF RowReleased, EngineTypes, AccountingTypeOK
    <3>2. ~ \E f \in EventIds : RowMarked(f)
      <4> SUFFICES ASSUME NEW f \in EventIds, RowMarked(f) PROVE FALSE
        OBVIOUS
      <4>1. attempts'[f] \in AttemptRow /\ \A g \in EventIds : g # f => attempts'[g] = attempts[g]
        BY DEF RowMarked, EngineTypes, AccountingTypeOK
      <4> QED BY <1>4, <3>1, <4>1 DEF Exists, NoAttempt, AttemptRow
    <3>3. ~ \E f \in EventIds : RowReserved(f)
      <4> SUFFICES ASSUME NEW f \in EventIds, RowReserved(f) PROVE FALSE
        OBVIOUS
      <4>1. attempts'[f] \in AttemptRow /\ \A g \in EventIds : g # f => attempts'[g] = attempts[g]
        BY DEF RowReserved, EngineTypes, AccountingTypeOK
      <4> QED BY <1>4, <3>1, <4>1 DEF Exists, NoAttempt, AttemptRow
    <3>4. TrackedBy(HashOf(p)) \subseteq EventIds
      BY DEF TrackedBy
    <3>5. CASE GivesUp(p) \/ Settles(p) \/ Fails(p) \/ Initiates(p)
      BY <2>1, <3>2, <3>4, <3>5 DEF GivesUp, Settles, Fails, Initiates, StoredAs
    <3>6. CASE Resumes(p)
      BY <2>1, <3>3, <3>6 DEF Resumes, RowReserved
    <3>7. CASE \/ Refuses(p) \/ Proceeds(p) \/ AnswersDirectly(p) \/ Starts(p)
               \/ Told(p) \/ Records(p) \/ Frame(p)
      BY <2>1, <3>7 DEF Refuses, Proceeds, AnswersDirectly, Starts, Told, Records, Frame,
         Silent
    <3> QED BY <1>0, <3>5, <3>6, <3>7 DEF Work
  <2>3. PICK f \in TrackedBy(HashOf(p)) : RowReleased(f)
    BY <2>2 DEF Releases
  <2>4. proc[p].pc = "release" /\ proc[p].pc \in PayPcs
    BY <2>2 DEF Releases, PayPcs
  <2>5. HashOf(p) \in Hashes
    BY <2>4, RunningCall
  <2>6. wallet[HashOf(p)].key # Nobody
    BY <1>0, <1>4, <2>4 DEF CallAttributed
  <2> QED BY <1>4, <2>3, <2>5, <2>6, NothingToRelease DEF RowReleased
<1>5. ASSUME NEW h \in Hashes, wallet[h].key # Nobody
      PROVE  wallet'[h].key # Nobody
  <2>1. CASE wallet' = wallet
    BY <1>5, <2>1
  <2>2. CASE proc[p].pc = "start" /\ Submit(proc[p].event, HashOf(p))
    <3>1. proc[p].event \in EventIds /\ HashOf(p) \in Hashes
      BY <2>2, RunningCall
    <3>2. wallet' = [wallet EXCEPT ![HashOf(p)] = [status |-> "pending",
                                                   key |-> proc[p].event]]
      BY <2>2 DEF Submit
    <3>3. wallet'[h].key \in {wallet[h].key, proc[p].event}
      BY <1>0, <3>1, <3>2
    <3> QED BY <1>5, <3>1, <3>3, EngineAssumption
  <2> QED BY <1>0, <2>1, <2>2 DEF CallHosts
<1> QED BY <1>0, <1>2, <1>3, <1>4, <1>5 DEF StillAttributed

LEMMA OwnCallAttributed ==
    ASSUME EngineTypes, LegacyInv, AttributedInv, Attributed, NEW p \in Processes,
           StepOf(p), Work(p), StillAttributed
    PROVE  CallAttributed(p)'
<1>0. /\ CallAttributed(p) /\ PaidRows /\ StartedRows /\ WalletKeys
  BY DEF AttributedInv, CallsAttributed
<1>1. /\ proc[p].pc \in WorkPcs /\ "idle" \notin WorkPcs
      /\ proc'[p].event = proc[p].event /\ proc'[p].pc \in WorkPcs
      /\ proc'[p].pc \in PayPcs => proc[p].pc \in PayPcs \/ Resumes(p)
  BY WorkAfter DEF Work, WorkPcs, PayPcs
<1>2. proc[p].event \in EventIds /\ HashOf(p) \in Hashes
  BY <1>1, RunningCall
<1>a. PICK e \in EventIds : e = proc[p].event
  BY <1>2
<1>b. PICK h \in Hashes : h = HashOf(p)
  BY <1>2
<1>c. PICK w : w = proc'[p]
  OBVIOUS
<1>3. /\ (Inside' <=> Inside) /\ cast' = cast
      /\ HashOf(p)' = h
  BY <1>1, <1>b DEF StillAttributed, Inside, HashOf, Request, RequestOf, Cast
<1>4. /\ Initiated(e) => Initiated(e)'
      /\ e \in started => e \in started'
      /\ Inside /\ Exists(e) => Exists(e)'
      /\ wallet[h].key # Nobody => wallet'[h].key # Nobody
  BY DEF StillAttributed
<1>d. proc[p].pc \in PayPcs =>
          /\ proc[p].seen.initiated \/ proc[p].pc \in {"start", "await", "finish", "record"}
                 => Initiated(e)
          /\ MayDiscloseSettlement(proc[p].seen)
                 \/ proc[p].pc \in {"await", "finish", "record"}
                 => e \in started
          /\ Inside => Exists(e)
          /\ Inside /\ proc[p].pc = "release" => wallet[h].key # Nobody
  <2>1. Initiated(proc[p].event) <=> Initiated(e)
    BY <1>a DEF Initiated, Exists
  <2>2. Exists(proc[p].event) <=> Exists(e)
    BY <1>a DEF Exists
  <2>3. proc[p].event \in started <=> e \in started
    BY <1>a
  <2>4. wallet[HashOf(p)].key = wallet[h].key
    BY <1>b
  <2> QED BY <1>0, <2>1, <2>2, <2>3, <2>4 DEF CallAttributed
<1>5. SUFFICES ASSUME w.pc \in PayPcs
               PROVE  /\ w.seen.initiated \/ w.pc \in {"start", "await", "finish", "record"}
                             => Initiated(e)'
                      /\ MayDiscloseSettlement(w.seen)
                             \/ w.pc \in {"await", "finish", "record"}
                             => e \in started'
                      /\ Inside => Exists(e)'
                      /\ Inside /\ w.pc = "release" => wallet'[h].key # Nobody
  BY <1>1, <1>3, <1>a, <1>c DEF CallAttributed, Initiated, Exists, MayDiscloseSettlement
<1>6. CASE Proceeds(p)
  <2>1. PICK pc \in WorkPcs :
            /\ Moves(p, pc)
            /\ Stepped(p, pc, proc[p].seen, proc[p].status, proc[p].response)
    BY <1>6 DEF Proceeds
  <2>2. w.pc = pc /\ w.seen = proc[p].seen
    BY <1>c, <2>1, SteppedTo
  <2>3. /\ proc[p].pc \in PayPcs /\ pc \notin {"await", "finish", "record"}
        /\ pc = "start" => proc[p].seen.initiated
        /\ pc = "release" => wallet[h].status # "unknown"
    BY <1>5, <1>b, <2>1, <2>2 DEF Moves, PayPcs
  <2> QED BY <1>0, <1>d, <1>4, <2>2, <2>3 DEF WalletKeys
<1>7. CASE Resumes(p)
  <2>0. /\ attempts'[e] \in AttemptRow
        /\ \E pc \in {"check_start", "status"} :
            Stepped(p, pc, Snapshot(attempts'[e]), proc[p].status, proc[p].response)
    BY <1>7, <1>a DEF Resumes
  <2>1. PICK pc \in {"check_start", "status"} :
            Stepped(p, pc, Snapshot(attempts'[e]), proc[p].status, proc[p].response)
    BY <2>0
  <2>2. w.pc = pc /\ w.seen = Snapshot(attempts'[e])
    BY <1>c, <2>1, SteppedTo
  <2>3. /\ w.seen.state = attempts'[e].state /\ attempts'[e].state # "none"
        /\ w.seen.initiated <=> attempts'[e].initiated
        /\ w.seen.legacy <=> attempts'[e].legacy
    BY <2>0, <2>2, SnapshotOf DEF AttemptRow
  <2>4. MayDiscloseSettlement(w.seen) => e \in started
    <3>1. SUFFICES ASSUME MayDiscloseSettlement(w.seen) PROVE e \in started
      OBVIOUS
    <3>2. Disclosable(e)'
      BY <2>3, <3>1 DEF Disclosable, Exists, MayDiscloseSettlement
    <3>3. Disclosable(e)
      BY <1>7, <3>2, WorkRows DEF Resumes
    <3> QED BY <1>0, <3>3 DEF StartedRows
  <2>5. Exists(e)' /\ (w.seen.initiated => Initiated(e)')
    BY <2>3 DEF Exists, Initiated
  <2> QED BY <1>4, <2>2, <2>4, <2>5
<1>8. CASE Initiates(p)
  <2>1. proc[p].pc \in PayPcs /\ w.pc = "start" /\ w.seen = proc[p].seen
    BY <1>8, <1>c, SteppedTo DEF Initiates, PayPcs
  <2>2. PICK f \in TrackedBy(HashOf(p)) : RowMarked(f) /\ attempts'[f].initiated
    BY <1>8 DEF Initiates
  <2>3. f = e
    BY <2>1, <1>a, OwnRows
  <2>4. Initiated(e)' /\ Exists(e)'
    BY <2>2, <2>3 DEF RowMarked, AttemptRow, Initiated, Exists
  <2> QED BY <1>4, <1>d, <2>1, <2>4
<1>9. CASE Starts(p)
  <2>1. /\ proc[p].pc \in PayPcs /\ proc[p].pc = "start" /\ w.pc = "await"
        /\ w.seen = proc[p].seen /\ e \in started'
    BY <1>9, <1>a, <1>c, SteppedTo DEF Starts, PayPcs
  <2> QED BY <1>4, <1>d, <2>1
<1>10. CASE Told(p)
  <2>1. PICK status \in Statuses :
            /\ Learns(p, status)
            /\ Stepped(p, "finish", proc[p].seen, status, proc[p].response)
    BY <1>10 DEF Told
  <2>2. w.pc = "finish" /\ w.seen = proc[p].seen
    BY <1>c, <2>1, SteppedTo
  <2>3. /\ proc[p].pc \in PayPcs
        /\ \/ proc[p].pc = "status" /\ MayDiscloseSettlement(proc[p].seen)
           \/ proc[p].pc = "await"
           \/ proc[p].pc = "start" /\ e \in started'
    BY <1>a, <2>1 DEF Learns, PayPcs
  <2>4. Initiated(e)
    BY <1>d, <2>3 DEF MayDiscloseSettlement
  <2>5. e \in started'
    BY <1>4, <1>d, <2>3
  <2> QED BY <1>4, <1>d, <2>2, <2>3, <2>4, <2>5
<1>11. CASE Settles(p)
  <2>1. /\ proc[p].pc \in PayPcs /\ proc[p].pc = "finish" /\ w.pc = "record"
        /\ w.seen = proc[p].seen
    BY <1>11, <1>c, SteppedTo DEF Settles, PayPcs
  <2> QED BY <1>4, <1>d, <2>1
<1>12. CASE \/ GivesUp(p) \/ Refuses(p) \/ AnswersDirectly(p) \/ Releases(p)
            \/ Fails(p) \/ Records(p)
  <2>1. w.pc \in {"reject", "retry", "error", "check_commit"}
    BY <1>12, <1>c, SteppedTo DEF GivesUp, Refuses, AnswersDirectly, Releases, Fails, Records
  <2> QED BY <1>5, <2>1 DEF PayPcs
<1> QED BY <1>6, <1>7, <1>8, <1>9, <1>10, <1>11, <1>12 DEF Work

\* An attribution the pass relies on stays.
LEMMA WatchesStay ==
    ASSUME EngineTypes, AccountStep, NEW s, Watches(s)
    PROVE  Watches(s)'
BY RowsLast DEF Watches

LEMMA CallKeepsAttributed ==
    ASSUME EngineTypes, EngineTypes', LegacyInv, AttributedInv, Attributed,
           NEW p \in Processes, StepOf(p)
    PROVE  AttributedInv'
<1>0. /\ PaidRows /\ CallsAttributed /\ StartedRows /\ WatchedRows /\ ResultsStarted
      /\ WalletKeys /\ StillAttributed /\ (Work(p) \/ Frame(p)) /\ CallHosts(p)
      /\ CallAccounts(p) /\ reconciler' = reconciler /\ CallAttributed(p)
      /\ wallet \in [Hashes -> [status: Statuses, key: EventIds \cup {External, Nobody}]]
      /\ cast \in DOMAIN Casts
  BY CallStill, CallWorks, StepOfCall
  DEF AttributedInv, CallsAttributed, EngineTypes, HostsTypeOK
<1>1. cast' = cast /\ RequestOf' = RequestOf /\ (Inside' <=> Inside)
  BY <1>0 DEF StillAttributed, RequestOf, Cast, Inside
<1>2. AccountStep
  <2>1. TrackedBy(HashOf(p)) \subseteq EventIds
    BY DEF TrackedBy
  <2> QED BY <1>0, <2>1 DEF CallAccounts, AccountStep, RowReserved
<1>3. proc[p].pc = "start" => /\ proc[p].event \in EventIds /\ HashOf(p) \in Hashes
                              /\ HashOf(p) = RequestOf[proc[p].event].hash
                              /\ Initiated(proc[p].event)
  <2> SUFFICES ASSUME proc[p].pc = "start"
               PROVE  /\ proc[p].event \in EventIds /\ HashOf(p) \in Hashes
                      /\ HashOf(p) = RequestOf[proc[p].event].hash
                      /\ Initiated(proc[p].event)
    OBVIOUS
  <2>1. Initiated(proc[p].event)
    BY <1>0 DEF CallAttributed, PayPcs
  <2> QED BY <2>1, RunningCall
<1>4. \A k \in Hashes :
          \/ wallet'[k] = wallet[k]
          \/ /\ proc[p].pc = "start" /\ k = HashOf(p)
             /\ wallet'[k].key = proc[p].event /\ wallet'[k].status = "pending"
  <2>1. CASE wallet' = wallet
    BY <2>1
  <2>2. CASE proc[p].pc = "start" /\ Submit(proc[p].event, HashOf(p))
    BY <1>0, <1>3, <2>2 DEF Submit
  <2> QED BY <1>0, <2>1, <2>2 DEF CallHosts
<1>5. PaidRows'
  <2> SUFFICES ASSUME NEW k \in Hashes, wallet'[k].key \in EventIds
               PROVE  /\ RequestOf[wallet'[k].key].hash = k
                      /\ attempts'[wallet'[k].key].state # "none"
                      /\ attempts'[wallet'[k].key].initiated
    BY <1>1 DEF PaidRows, Initiated, Exists
  <2>1. RequestOf[wallet'[k].key].hash = k /\ Initiated(wallet'[k].key)
    BY <1>0, <1>3, <1>4 DEF PaidRows
  <2>2. \A e \in EventIds : Initiated(e) =>
            attempts'[e].state # "none" /\ attempts'[e].initiated
    BY <1>0 DEF StillAttributed, Initiated, Exists
  <2> QED BY <2>1, <2>2
<1>6. CallsAttributed'
  <2> SUFFICES ASSUME NEW q \in Processes PROVE CallAttributed(q)'
    BY DEF CallsAttributed
  <2>1. CASE q # p
    <3>1. proc'[q] = proc[q]
      BY <1>0, <2>1, WorkAfter, FrameAfter
    <3> QED BY <1>0, <3>1, CallStaysAttributed DEF CallsAttributed
  <2>2. CASE q = p /\ Work(p)
    BY <1>0, <2>2, OwnCallAttributed
  <2>3. CASE q = p /\ Frame(p)
    <3>1. proc'[p].pc \notin PayPcs
      BY <2>3, FrameAfter DEF PayPcs, Idle
    <3> QED BY <2>3, <3>1 DEF CallAttributed
  <2> QED BY <1>0, <2>1, <2>2, <2>3
<1>7. StartedRows'
  <2> SUFFICES ASSUME NEW e \in EventIds, Disclosable(e)' PROVE e \in started'
    BY DEF StartedRows
  <2>1. CASE Disclosable(e)
    BY <1>0, <2>1 DEF StartedRows, StillAttributed
  <2>2. CASE proc[p].pc = "finish" /\ e \in TrackedBy(HashOf(p))
    <3>1. proc[p].pc \in PayPcs
      BY <2>2 DEF PayPcs
    <3>2. e = proc[p].event
      BY <2>2, <3>1, OwnRows
    <3>3. proc[p].event \in started
      BY <1>0, <2>2, <3>1 DEF CallAttributed
    <3> QED BY <1>0, <3>2, <3>3 DEF StillAttributed
  <2> QED BY <1>0, <2>1, <2>2, WorkRows
<1>8. WatchedRows'
  <2>1. \A s : Watches(s) => Watches(s)'
    BY <1>2, WatchesStay
  <2>2. reconciler.pc = "apply" => reconciler.seen.hash \in Hashes
    BY DEF EngineTypes, PassTypeOK, Snapshots
  <2>3. \A s \in reconciler'.todo : Watches(s)'
    BY <1>0, <2>1 DEF WatchedRows
  <2>4. ASSUME reconciler'.pc = "apply"
        PROVE  /\ Watches(reconciler.seen)'
               /\ Inside /\ reconciler'.status # "unknown" =>
                      wallet'[reconciler'.seen.hash].key # Nobody
    <3>1. PICK s \in Snapshots : s = reconciler.seen
      BY <1>0, <2>4 DEF EngineTypes, PassTypeOK
    <3>2. Watches(s) /\ (Inside /\ reconciler.status # "unknown" =>
                            wallet[s.hash].key # Nobody)
      BY <1>0, <2>4, <3>1 DEF WatchedRows, Watches
    <3>3. Watches(s)' /\ s = reconciler'.seen
      BY <1>0, <2>1, <3>1, <3>2
    <3>4. Watches(reconciler.seen)'
      BY <3>3 DEF Watches
    <3>5. s.hash \in Hashes
      BY DEF Snapshots
    <3> QED BY <1>0, <3>2, <3>3, <3>4, <3>5 DEF StillAttributed
  <2> QED BY <1>1, <2>3, <2>4 DEF WatchedRows
<1>9. ResultsStarted'
  <2> SUFFICES ASSUME NEW e \in EventIds, RequestOf[e].kind = "pay_invoice",
                      Given(e, "result")'
               PROVE  e \in started'
    BY <1>1 DEF ResultsStarted
  <2>0. "result" \in Responses
    BY EngineAssumption
  <2>1. CASE Given(e, "result")
    BY <1>0, <2>1 DEF ResultsStarted, StillAttributed
  <2>2. CASE e = proc[p].event /\ Gives(p, "result")
    <3>1. CASE AnswersDirectly(p)
      <4>1. Request(p).kind = "direct"
        BY <3>1 DEF AnswersDirectly, LegacyInv, DirectlyOnly
      <4>2. Request(p) = RequestOf[e]
        BY <2>2 DEF Request
      <4> QED BY <4>1, <4>2
    <3>2. CASE Records(p)
      <4>1. proc[p].pc = "record" /\ proc[p].pc \in PayPcs
        BY <3>2 DEF Records, PayPcs
      <4>2. proc[p].event \in started
        BY <1>0, <4>1 DEF CallAttributed
      <4> QED BY <1>0, <2>2, <4>2 DEF StillAttributed
    <3> QED BY <2>2, <3>1, <3>2 DEF Gives
  <2> QED BY <2>0, <2>1, <2>2, GivenAfter
<1>10. WalletKeys'
  <2> SUFFICES ASSUME NEW k \in Hashes
               PROVE  /\ wallet'[k].status # "unknown" => wallet'[k].key # Nobody
                      /\ Inside => wallet'[k].key # External
    BY <1>1 DEF WalletKeys
  <2> QED BY <1>0, <1>3, <1>4, EngineAssumption DEF WalletKeys
<1> QED BY <1>5, <1>6, <1>7, <1>8, <1>9, <1>10 DEF AttributedInv

\* What the pass writes: it releases what was not started here, and stores a
\* settlement it may attribute.
PassWorks ==
    \/ UNCHANGED attempts
    \/ /\ reconciler.pc = "apply"
       /\ \E f \in TrackedBy(reconciler.seen.hash) :
           \/ RowReleased(f) /\ reconciler.status # "unknown"
           \/ /\ RowMarked(f) /\ attempts[f].initiated
              /\ MayDiscloseSettlement(reconciler.seen)
              /\ reconciler.status \in {"succeeded", "failed"}
              /\ attempts'[f].state = reconciler.status
              /\ reconciler.status = "failed" => attempts[f].state # "succeeded"
              /\ reconciler.status = "succeeded" =>
                     \/ attempts'[f] = attempts[f]
                     \/ attempts'[f].charged =
                            Charged(attempts[f].conn,
                                    SettledAmount(reconciler.seen.hash), SettledFee)

LEMMA PassWorksStep ==
    ASSUME EngineTypes, Reconcile \/ StopReconciler
    PROVE  PassWorks
<1>0. AccountingTypeOK /\ RowsOK /\ now = 0 /\ cast \in DOMAIN Casts /\ SettledFee \in Nat
  BY EngineAssumption DEF EngineTypes, EstablishedOnce, HostsTypeOK
<1>1. CASE LoadUnresolved \/ QueryStatus \/ StopReconciler
  BY <1>1 DEF LoadUnresolved, QueryStatus, StopReconciler, PassWorks, ledgerVars
<1>2. CASE ApplyStatus
  <2>0. PICK h : h = reconciler.seen.hash
    OBVIOUS
  <2>1. ASSUME NEW f \in TrackedBy(h)
        PROVE  f \in EventIds /\ SettledAmount(h) \in Nat
    <3>1. f \in EventIds /\ Exists(f) /\ attempts[f].hash = h
      BY DEF TrackedBy
    <3>2. h = RequestOf[f].hash
      BY <1>0, <3>1 DEF RowsOK, RowOK
    <3> QED BY <1>0, <3>1, <3>2, SettledAmountOf
  <2>2. \/ UNCHANGED attempts
        \/ /\ reconciler.pc = "apply"
           /\ \E f \in TrackedBy(h) :
               \/ /\ ReleaseUninitiatedPayment(f, now)
                  /\ reconciler.status # "unknown"
               \/ /\ MarkPaymentSucceeded(f, SettledAmount(h), SettledFee, now)
                  /\ reconciler.status = "succeeded"
                  /\ MayDiscloseSettlement(reconciler.seen)
               \/ /\ MarkPaymentFailed(f, now) /\ reconciler.status = "failed"
                  /\ MayDiscloseSettlement(reconciler.seen)
    BY <1>2, <2>0 DEF ApplyStatus
  <2>3. ASSUME NEW f \in TrackedBy(h)
        PROVE  /\ ReleaseUninitiatedPayment(f, now) => RowReleased(f)
               /\ MarkPaymentSucceeded(f, SettledAmount(h), SettledFee, now) =>
                      /\ RowMarked(f) /\ attempts[f].initiated
                      /\ attempts'[f].state = "succeeded"
                      /\ \/ attempts'[f] = attempts[f]
                         \/ attempts'[f].charged =
                                Charged(attempts[f].conn, SettledAmount(h), SettledFee)
               /\ MarkPaymentFailed(f, now) =>
                      /\ RowMarked(f) /\ attempts[f].initiated
                      /\ attempts'[f].state = "failed" /\ attempts[f].state # "succeeded"
    BY <1>0, <2>1, ReleaseReleases, FailedMarks, SucceededMarks
  <2> QED BY <2>0, <2>2, <2>3 DEF PassWorks
<1> QED BY <1>1, <1>2 DEF Reconcile

\* The pass makes no row disclosable, and inside it releases none.
LEMMA PassRows ==
    ASSUME EngineTypes, AttributedInv, Attributed, Reconcile \/ StopReconciler
    PROVE  /\ StillAttributed
           /\ \A e \in EventIds : Disclosable(e)' => Disclosable(e)
<1>0. /\ PassWorks /\ WatchedRows /\ OneAttemptPerHash
      /\ attempts \in [EventIds -> AttemptRow \cup {NoAttempt}]
      /\ UNCHANGED <<wallet, started, cast>>
  BY PassWorksStep DEF EngineTypes, AccountingTypeOK, AttributedInv, Reconcile,
     StopReconciler, hostVars
<1>1. AccountStep
  <2>1. TrackedBy(reconciler.seen.hash) \subseteq EventIds
    BY DEF TrackedBy
  <2> QED BY <2>1, PassAccountsStep DEF PassAccounts, AccountStep
<1>2. \A e \in EventIds : Initiated(e) => Initiated(e)'
  BY <1>1, RowsLast
<1>3. CASE attempts' = attempts
  BY <1>0, <1>2, <1>3 DEF StillAttributed, Disclosable, Exists
<1>4. ASSUME NEW f \in TrackedBy(reconciler.seen.hash), RowReleased(f),
             reconciler.status # "unknown", reconciler.pc = "apply"
      PROVE  StillAttributed /\ \A e \in EventIds : Disclosable(e)' => Disclosable(e)
  <2>1. ~Inside
    <3>1. SUFFICES ASSUME Inside PROVE FALSE
      OBVIOUS
    <3>2. wallet[reconciler.seen.hash].key # Nobody /\ reconciler.seen.hash \in Hashes
      BY <1>0, <1>4, <3>1 DEF WatchedRows, EngineTypes, PassTypeOK, Snapshots
    <3> QED BY <1>4, <3>1, <3>2, NothingToRelease DEF RowReleased
  <2>2. ASSUME NEW e \in EventIds, Disclosable(e)'
        PROVE  Disclosable(e)
    <3>1. f # e
      BY <1>0, <1>4, <2>2 DEF RowReleased, Disclosable, Exists, NoAttempt
    <3>2. attempts'[e] = attempts[e]
      BY <1>0, <1>4, <3>1 DEF RowReleased
    <3> QED BY <2>2, <3>2 DEF Disclosable, Exists
  <2> QED BY <1>0, <1>2, <2>1, <2>2 DEF StillAttributed
<1>5. ASSUME NEW f \in TrackedBy(reconciler.seen.hash), RowMarked(f),
             MayDiscloseSettlement(reconciler.seen), reconciler.pc = "apply"
      PROVE  StillAttributed /\ \A e \in EventIds : Disclosable(e)' => Disclosable(e)
  <2>1. PICK g \in EventIds : Disclosable(g) /\ attempts[g].hash = reconciler.seen.hash
    BY <1>0, <1>5 DEF WatchedRows, Watches
  <2>2. f \in EventIds /\ Exists(f) /\ attempts[f].hash = reconciler.seen.hash
    BY DEF TrackedBy
  <2>3. f = g
    BY <1>0, <2>1, <2>2 DEF OneAttemptPerHash, Disclosable
  <2>4. \A e \in EventIds : e # f => attempts'[e] = attempts[e]
    BY <1>0, <1>5 DEF RowMarked
  <2>5. \A e \in EventIds : Disclosable(e)' => Disclosable(e)
    BY <2>1, <2>3, <2>4 DEF Disclosable, Exists
  <2>6. \A e \in EventIds : Exists(e) => Exists(e)'
    BY <1>5, <2>4 DEF Exists, RowMarked, AttemptRow
  <2> QED BY <1>0, <1>2, <2>5, <2>6 DEF StillAttributed
<1> QED BY <1>0, <1>3, <1>4, <1>5 DEF PassWorks

\* What a step that moves no call has to keep.
LEMMA AttributedKept ==
    ASSUME EngineTypes, AttributedInv, Attributed, [EngineNext]_engineVars,
           ~ \E p \in Processes : StepOf(p), StillAttributed,
           \A e \in EventIds : Disclosable(e)' => Disclosable(e),
           PaidRows', WatchedRows', WalletKeys'
    PROVE  AttributedInv'
<1>0. /\ CallsAttributed /\ StartedRows /\ ResultsStarted
      /\ cast' = cast /\ started \subseteq started' /\ "result" \in Responses
  BY EngineAssumption DEF AttributedInv, StillAttributed
<1>1. proc' = proc
  BY EngineSteps DEF Reconcile, StopReconciler, WalletSettles, PayOutside, Second,
     LeaveFreshnessWindow, PruneTerminalRows, Revoke, engineVars
<1>2. CallsAttributed'
  BY <1>0, <1>1, CallStaysAttributed DEF CallsAttributed
<1>3. StartedRows'
  BY <1>0 DEF StartedRows
<1>4. ResultsStarted'
  <2>1. RequestOf' = RequestOf
    BY <1>0 DEF RequestOf, Cast
  <2> QED BY <1>0, <2>1, GivenStays DEF ResultsStarted
<1> QED BY <1>2, <1>3, <1>4 DEF AttributedInv

LEMMA PassKeepsAttributed ==
    ASSUME EngineTypes, AttributedInv, Attributed, Reconcile \/ StopReconciler
    PROVE  PaidRows' /\ WatchedRows' /\ WalletKeys'
<1>0. /\ StillAttributed /\ PassMoves /\ PaidRows /\ WatchedRows /\ WalletKeys
      /\ UNCHANGED <<wallet, cast>> /\ (Inside' <=> Inside) /\ RequestOf' = RequestOf
      /\ reconciler.todo \subseteq Snapshots
  BY PassRows, ReconcileMoves
  DEF AttributedInv, Reconcile, StopReconciler, hostVars, Inside, RequestOf, Cast,
      EngineTypes, PassTypeOK
<1>1. PaidRows'
  BY <1>0 DEF PaidRows, StillAttributed
<1>2. WalletKeys'
  BY <1>0 DEF WalletKeys
<1>3. \A s : Watches(s) => Watches(s)'
  <2>1. AccountStep
    <3>1. TrackedBy(reconciler.seen.hash) \subseteq EventIds
      BY DEF TrackedBy
    <3> QED BY <3>1, PassAccountsStep DEF PassAccounts, AccountStep
  <2> QED BY <2>1, WatchesStay
<1>4. WatchedRows'
  <2>1. CASE PassRests
    BY <2>1 DEF PassRests, RestingReconciler, WatchedRows
  <2>2. CASE PassLoads
    <3>1. PICK batch \in SUBSET Due :
              reconciler' = Pass("next", {Snapshot(attempts[e]) : e \in batch},
                                 NoSnapshot, "unknown")
      BY <2>2 DEF PassLoads
    <3>2. /\ reconciler'.todo = {Snapshot(attempts[e]) : e \in batch}
          /\ reconciler'.pc = "next"
      BY <3>1 DEF Pass
    <3>3. \A e \in batch : Watches(Snapshot(attempts[e]))
      <4> SUFFICES ASSUME NEW e \in batch, MayDiscloseSettlement(Snapshot(attempts[e]))
                   PROVE  /\ e \in EventIds /\ Disclosable(e)
                          /\ attempts[e].hash = Snapshot(attempts[e]).hash
        BY DEF Watches
      <4>1. e \in EventIds /\ Exists(e)
        BY DEF Due, Unresolved, Exists
      <4> QED BY <4>1 DEF Snapshot, Disclosable, MayDiscloseSettlement
    <3>4. \A s \in reconciler'.todo : Watches(s)
      BY <3>2, <3>3
    <3> QED BY <1>3, <3>2, <3>4 DEF WatchedRows
  <2>3. CASE PassSkips \/ PassGoesOn
    <3>1. reconciler'.pc = "next" /\ reconciler'.todo \subseteq reconciler.todo
      BY <2>3 DEF PassSkips, PassGoesOn, Pass
    <3> QED BY <1>0, <1>3, <3>1 DEF WatchedRows
  <2>4. CASE PassAsks
    <3>1. PICK s \in reconciler.todo :
              reconciler' = Pass("apply", reconciler.todo \ {s}, s, wallet[s.hash].status)
      BY <2>4 DEF PassAsks
    <3>2. /\ reconciler'.seen = s /\ reconciler'.todo \subseteq reconciler.todo
          /\ reconciler'.status = wallet[s.hash].status
      BY <3>1 DEF Pass
    <3>3. Watches(s)' /\ s.hash \in Hashes
      BY <1>0, <1>3, <3>1 DEF WatchedRows, Snapshots
    <3>4. Watches(reconciler.seen)'
      BY <3>2, <3>3 DEF Watches
    <3>5. \A t \in reconciler'.todo : Watches(t)'
      BY <1>0, <1>3, <3>2 DEF WatchedRows
    <3>6. reconciler'.status # "unknown" => wallet'[reconciler'.seen.hash].key # Nobody
      BY <1>0, <3>2, <3>3 DEF WalletKeys
    <3> QED BY <3>4, <3>5, <3>6 DEF WatchedRows
  <2> QED BY <1>0, <2>1, <2>2, <2>3, <2>4 DEF PassMoves
<1> QED BY <1>1, <1>2, <1>4

LEMMA WalletKeepsAttributed ==
    ASSUME EngineTypes, AttributedInv, Attributed,
           (\E h \in Hashes : WalletSettles(h)) \/ PayOutside
    PROVE  /\ StillAttributed /\ PaidRows' /\ WatchedRows' /\ WalletKeys'
           /\ \A e \in EventIds : Disclosable(e)' => Disclosable(e)
<1>0. /\ PaidRows /\ WatchedRows /\ WalletKeys
      /\ UNCHANGED <<attempts, started, cast, reconciler>>
      /\ wallet \in [Hashes -> [status: Statuses, key: EventIds \cup {External, Nobody}]]
      /\ External \notin EventIds /\ Nobody \notin EventIds /\ External # Nobody
  BY EngineAssumption DEF AttributedInv, WalletSettles, PayOutside, ledgerVars, EngineTypes,
     HostsTypeOK
<1>1. (Inside' <=> Inside) /\ RequestOf' = RequestOf
  BY <1>0 DEF Inside, RequestOf, Cast
<1>2. \A h \in Hashes :
          \/ wallet'[h].key = wallet[h].key
             /\ (wallet'[h].status # "unknown" => wallet[h].status # "unknown")
          \/ wallet'[h].key = External /\ ~Inside
  <2>1. CASE PayOutside
    <3>1. PICK k \in Hashes : Submit(External, k) /\ ~Inside
      BY <2>1 DEF PayOutside, Inside
    <3> QED BY <1>0, <3>1 DEF Submit
  <2>2. CASE \E h \in Hashes : WalletSettles(h)
    <3>1. PICK k \in Hashes : /\ wallet[k].status = "pending"
                              /\ \E status \in {"succeeded", "failed"} :
                                     wallet' = [wallet EXCEPT ![k].status = status]
      BY <2>2 DEF WalletSettles
    <3> QED BY <1>0, <3>1
  <2> QED BY <2>1, <2>2
<1>3. /\ \A e : (Initiated(e)' <=> Initiated(e)) /\ (Exists(e)' <=> Exists(e))
      /\ \A e : Disclosable(e)' <=> Disclosable(e)
  BY <1>0 DEF Initiated, Exists, Disclosable
<1>4. StillAttributed
  BY <1>0, <1>2, <1>3 DEF StillAttributed
<1>5. PaidRows'
  <2> SUFFICES ASSUME NEW h \in Hashes, wallet'[h].key \in EventIds
               PROVE  /\ RequestOf[wallet'[h].key].hash = h
                      /\ attempts[wallet'[h].key].initiated /\ Exists(wallet'[h].key)
    BY <1>0, <1>1 DEF PaidRows, Initiated, Exists
  <2>1. wallet'[h].key = wallet[h].key
    BY <1>0, <1>2
  <2> QED BY <1>0, <2>1 DEF PaidRows, Initiated
<1>6. WalletKeys'
  BY <1>0, <1>1, <1>2 DEF WalletKeys
<1>7. WatchedRows'
  <2>1. \A s : Watches(s)' <=> Watches(s)
    BY <1>0, <1>3 DEF Watches
  <2>2. reconciler.pc = "apply" => reconciler.seen.hash \in Hashes
    BY DEF EngineTypes, PassTypeOK, Snapshots
  <2>3. Watches(reconciler.seen)' <=> Watches(reconciler.seen)
    BY <1>0, <1>3 DEF Watches
  <2> QED BY <1>0, <1>1, <1>4, <2>1, <2>2, <2>3 DEF WatchedRows, StillAttributed
<1> QED BY <1>3, <1>4, <1>5, <1>6, <1>7

LEMMA AttributedInvStep ==
    ASSUME EngineTypes, EngineTypes', LegacyInv, AttributedInv, [EngineNext]_engineVars
    PROVE  AttributedInv'
<1>1. cast' = cast
  BY EngineSteps, StepOfCall DEF Reconcile, StopReconciler, WalletSettles, PayOutside, Second,
     LeaveFreshnessWindow, PruneTerminalRows, Revoke, engineVars, hostVars
<1>2. Attributed' <=> Attributed
  BY <1>1 DEF Attributed, Inside, Unshared, NotLegacy, LegacyEvents, RequestOf, Cast
<1>3. SUFFICES ASSUME Attributed PROVE AttributedInv'
  BY <1>2 DEF AttributedInv
<1>4. CASE \E p \in Processes : StepOf(p)
  BY <1>3, <1>4, CallKeepsAttributed
<1>5. CASE ~ \E p \in Processes : StepOf(p)
  <2>1. CASE Reconcile \/ StopReconciler
    BY <1>3, <1>5, <2>1, PassRows, PassKeepsAttributed, AttributedKept
  <2>2. CASE (\E h \in Hashes : WalletSettles(h)) \/ PayOutside
    BY <1>3, <1>5, <2>2, WalletKeepsAttributed, AttributedKept
  <2>3. CASE \/ Second \/ LeaveFreshnessWindow \/ PruneTerminalRows \/ Revoke
             \/ UNCHANGED engineVars
    <3>1. UNCHANGED <<attempts, wallet, started, reconciler, cast>>
      BY <2>3 DEF Second, LeaveFreshnessWindow, PruneTerminalRows, Revoke, engineVars,
         ledgerVars, hostVars
    <3>2. /\ \A e : (Initiated(e)' <=> Initiated(e)) /\ (Exists(e)' <=> Exists(e))
          /\ \A e : Disclosable(e)' <=> Disclosable(e)
          /\ \A s : Watches(s)' <=> Watches(s)
          /\ Watches(reconciler.seen)' <=> Watches(reconciler.seen)
      BY <3>1 DEF Initiated, Exists, Disclosable, Watches
    <3>3. (Inside' <=> Inside) /\ RequestOf' = RequestOf
      BY <3>1 DEF Inside, RequestOf, Cast
    <3>4. StillAttributed
      BY <3>1, <3>2 DEF StillAttributed
    <3>5. PaidRows' /\ WalletKeys'
      BY <1>3, <3>1, <3>2, <3>3 DEF AttributedInv, PaidRows, WalletKeys, Initiated, Exists
    <3>6. WatchedRows'
      BY <1>3, <3>1, <3>2, <3>3 DEF AttributedInv, WatchedRows
    <3> QED BY <1>3, <1>5, <3>2, <3>4, <3>5, <3>6, AttributedKept
  <2> QED BY <1>5, <2>1, <2>2, <2>3, EngineSteps
<1> QED BY <1>4, <1>5

LEMMA AttributedInvInit == EngineInit => AttributedInv
<1> SUFFICES ASSUME EngineInit PROVE AttributedInv
  OBVIOUS
<1>1. /\ cast \in DOMAIN Casts /\ published = {} /\ started = LeftEvents
      /\ reconciler = RestingReconciler /\ proc = [p \in Processes |-> Idle]
      /\ events = [e \in EventIds |-> NoEvent]
      /\ attempts = [e \in EventIds |->
             IF e \in LegacyEvents \cup LeftEvents THEN LeftAttempt(e) ELSE NoAttempt]
      /\ wallet \in [Hashes -> {NoPayment}
             \cup [status: {"pending", "succeeded", "failed"}, key: LegacyEvents]
             \cup [status: {"pending"}, key: LeftEvents]]
      /\ \A h \in Hashes : wallet[h].key \in EventIds => RequestOf[wallet[h].key].hash = h
  BY DEF EngineInit
<1>2. LegacyEvents \subseteq EventIds /\ LeftEvents \subseteq EventIds
  BY <1>1, RequestTypes
<1>3. /\ Idle.pc = "idle" /\ NoPayment.key = Nobody /\ NoPayment.status = "unknown"
      /\ Nobody \notin EventIds /\ External \notin EventIds /\ External # Nobody
  BY EngineAssumption DEF Idle, NoPayment
<1>4. \A e \in EventIds :
          /\ Exists(e) <=> e \in LegacyEvents \cup LeftEvents
          /\ Exists(e) => /\ attempts[e].initiated
                          /\ attempts[e].legacy <=> e \in LegacyEvents
  BY <1>1 DEF Exists, LeftAttempt, NoAttempt
<1>5. \A h \in Hashes :
          \/ wallet[h].key = Nobody /\ wallet[h].status = "unknown"
          \/ wallet[h].key \in LegacyEvents \cup LeftEvents
  BY <1>1, <1>3
<1>6. PaidRows
  BY <1>1, <1>2, <1>3, <1>4, <1>5 DEF PaidRows, Initiated
<1>7. WalletKeys
  BY <1>2, <1>3, <1>5 DEF WalletKeys
<1>8. CallsAttributed
  BY <1>1, <1>3 DEF CallsAttributed, CallAttributed, PayPcs
<1>9. StartedRows
  BY <1>1, <1>4 DEF StartedRows, Disclosable, MayDiscloseSettlement
<1>10. WatchedRows
  BY <1>1 DEF WatchedRows, RestingReconciler
<1>11. ResultsStarted
  BY <1>1 DEF ResultsStarted, Given, CarriedBy
<1> QED BY <1>6, <1>7, <1>8, <1>9, <1>10, <1>11 DEF AttributedInv

LEMMA AttributedInvHolds ==
    EngineSafety => [](EngineTypes /\ LegacyInv /\ AttributedInv)
<1>1. EngineInit => EngineTypes /\ LegacyInv /\ AttributedInv
  BY EngineTypesInit, LegacyInvInit, AttributedInvInit
<1>2. EngineTypes /\ LegacyInv /\ AttributedInv /\ [EngineNext]_engineVars =>
          (EngineTypes /\ LegacyInv /\ AttributedInv)'
  BY EngineTypesStep, LegacyInvStep, AttributedInvStep
<1> QED BY <1>1, <1>2, PTL DEF EngineSafety

(***************************************************************************)
(* Where nobody pays the same invoices outside the library, or no two      *)
(* requests share an invoice, a result is answered only for a request      *)
(* whose own start_payment call was made, whatever process died between    *)
(* the durable initiation marker and that call, and whoever settled the    *)
(* attempt, the call or the reconciler.  With both, a payment may count    *)
(* for a request that did not make it: see run engine_misattributed.       *)
(***************************************************************************)
THEOREM ResultsOnlyAfterStart == EngineSafety => [](Attributed => DisclosedOnlyAfterStart)
<1>1. EngineTypes /\ AttributedInv => (Attributed => DisclosedOnlyAfterStart)
  <2> SUFFICES ASSUME EngineTypes, AttributedInv, Attributed, NEW m \in published,
                      RequestOf[m.event].kind = "pay_invoice", m.response = "result"
               PROVE  m.event \in started
    BY DEF DisclosedOnlyAfterStart
  <2>1. m \in [event: EventIds, response: Responses]
    BY DEF EngineTypes, HostsTypeOK
  <2>2. m = [event |-> m.event, response |-> "result"] /\ m.event \in EventIds
    BY <2>1
  <2>3. Given(m.event, "result")
    BY <2>2 DEF Given
  <2> QED BY <2>2, <2>3 DEF AttributedInv, ResultsStarted
<1> QED BY <1>1, AttributedInvHolds, PTL

(***************************************************************************)
(* Under the same condition the debit of a payment under way is the one of *)
(* the request that made it: the only row of its payment hash is that      *)
(* request's, through every release, refund and retry.                     *)
(***************************************************************************)
THEOREM DebitsBelongToRequester == EngineSafety => [](Attributed => DebitedToRequester)
<1>1. EngineTypes /\ AttributedInv => (Attributed => DebitedToRequester)
  <2> SUFFICES ASSUME EngineTypes, AttributedInv, Attributed, NEW h \in Hashes,
                      wallet[h].key \in EventIds
               PROVE  TrackedBy(h) = {wallet[h].key}
    BY DEF DebitedToRequester
  <2>1. PICK e \in EventIds : e = wallet[h].key
    OBVIOUS
  <2>2. RequestOf[e].hash = h /\ Exists(e)
    BY <2>1 DEF AttributedInv, PaidRows, Initiated
  <2>3. attempts[e].hash = h
    BY <2>2 DEF EngineTypes, RowsOK, RowOK
  <2>4. e \in TrackedBy(h)
    BY <2>2, <2>3 DEF TrackedBy
  <2>5. \A f \in TrackedBy(h) : f = e
    BY <2>2, <2>3 DEF TrackedBy, EngineTypes, OneAttemptPerHash
  <2> QED BY <2>1, <2>4, <2>5
<1> QED BY <1>1, AttributedInvHolds, PTL

-----------------------------------------------------------------------------
(* One worker per event.  Where a process's deadline ends it before its    *)
(* lease does, every call at work still holds the claim of its event's row.*)

LeasesLast == ~Cast.outlive => \A p \in Processes : Holds(p) => lease[p].until > 0

\* Only a terminal row has a response.
ResponsesTerminal ==
    \A e \in EventIds :
        events[e] # NoEvent /\ events[e].state # "terminal" => events[e].response = "none"

LeasesInv == LeasesLast /\ ResponsesTerminal

LEMMA CallKeepsLeases ==
    ASSUME EngineTypes, LeasesInv, NEW p \in Processes, StepOf(p)
    PROVE  LeasesInv'
<1>0. /\ CallStep(p) /\ cast' = cast /\ now = 0 /\ LeasesLast /\ ResponsesTerminal
      /\ events \in [EventIds -> EventRow \cup {NoEvent}]
      /\ lease \in [Processes -> LeaseRecord \cup {NoLease}]
      /\ NoEvent \notin EventRow
  BY StepOfCall DEF EngineTypes, EstablishedOnce, ClaimsTypeOK, LeasesInv, EventRow, NoEvent
<1>1. CASE UNCHANGED <<events, lease>>
  BY <1>0, <1>1 DEF LeasesInv, LeasesLast, ResponsesTerminal, Holds, Cast
<1>2. ASSUME NEW e \in EventIds, events' = [events EXCEPT ![e] = events'[e]],
             events'[e].state = "terminal" \/ events'[e].response = "none",
             \A q \in Processes : q # p => lease'[q] = lease[q],
             lease'[p] = NoLease \/ lease'[p] = lease[p] \/ lease'[p].until > 0
      PROVE  LeasesInv'
  <2>1. \A f \in EventIds : f # e => events'[f] = events[f]
    BY <1>0, <1>2
  <2>2. ResponsesTerminal'
    BY <1>0, <1>2, <2>1 DEF ResponsesTerminal
  <2>3. LeasesLast'
    BY <1>0, <1>2 DEF LeasesLast, Holds, Cast
  <2> QED BY <2>2, <2>3 DEF LeasesInv
<1>3. CASE Acquires(p)
  <2>1. proc[p].pc = "claim" /\ proc[p].event \in EventIds
    BY <1>3, RunningCall DEF Acquires
  <2> DEFINE fresh == events[proc[p].event] # NoEvent /\ events[proc[p].event].fresh
  <2>2. PICK d \in Leases, token \in FreshTokens :
            /\ events' = [events EXCEPT ![proc[p].event] =
                   [state |-> "claimed", conn |-> proc[p].conn,
                    revision |-> proc[p].revision,
                    token |-> token, available_at |-> now + d,
                    fresh |-> fresh, kind |-> "none",
                    response |-> "none", updated_at |-> now]]
            /\ lease' = [lease EXCEPT ![p] =
                   [event |-> proc[p].event, token |-> token, until |-> now + d,
                    fresh |-> fresh]]
    BY <1>3 DEF Acquires, ClaimEvent
  <2> HIDE DEF fresh
  <2>3. d \in Nat /\ d > 0
    BY ClaimsAssumption
  <2>4. lease'[p].until > 0 /\ \A q \in Processes : q # p => lease'[q] = lease[q]
    BY <1>0, <2>2, <2>3
  <2>5. /\ events' = [events EXCEPT ![proc[p].event] = events'[proc[p].event]]
        /\ events'[proc[p].event].response = "none"
    BY <1>0, <2>1, <2>2
  <2> QED BY <1>2, <2>1, <2>4, <2>5
<1>4. ASSUME OwnsLease(p, now)
      PROVE  /\ lease[p].event \in EventIds /\ events[lease[p].event] \in EventRow
             /\ events[lease[p].event].response = "none"
  <2>1. lease[p].event \in EventIds
    BY <1>4, HolderTypes DEF OwnsLease, EngineTypes
  <2>2. events[lease[p].event].state = "claimed"
    BY <1>4 DEF OwnsLease
  <2> QED BY <1>0, <2>1, <2>2 DEF ResponsesTerminal, NoEvent
<1>5. CASE Accepts(p)
  <2>1. /\ OwnsLease(p, now) /\ lease' = lease
        /\ events' = [events EXCEPT ![lease[p].event] =
               [@ EXCEPT !.fresh = TRUE, !.updated_at = now]]
    BY <1>5 DEF Accepts, AcceptEventFreshness
  <2>2. /\ events' = [events EXCEPT ![lease[p].event] = events'[lease[p].event]]
        /\ events'[lease[p].event].response = "none"
    BY <1>0, <1>4, <2>1 DEF EventRow
  <2> QED BY <1>2, <1>4, <2>1, <2>2
<1>6. CASE Commits(p) \/ Rejects(p)
  <2>1. PICK kind, response : CompleteEvent(p, kind, response, now)
    BY <1>6 DEF Commits, Rejects, CompleteEventForActiveConnection
  <2>2. /\ OwnsLease(p, now) /\ lease' = [lease EXCEPT ![p] = NoLease]
        /\ events' = [events EXCEPT ![lease[p].event] =
               [@ EXCEPT !.state = "terminal", !.token = Nobody,
                     !.available_at = 0, !.kind = kind,
                     !.response = response, !.updated_at = now]]
    BY <2>1 DEF CompleteEvent
  <2>3. /\ events' = [events EXCEPT ![lease[p].event] = events'[lease[p].event]]
        /\ events'[lease[p].event].state = "terminal"
    BY <1>0, <1>4, <2>2 DEF EventRow
  <2> QED BY <1>0, <1>2, <1>4, <2>2, <2>3
<1>7. CASE Retries(p)
  <2>1. /\ OwnsLease(p, now) /\ lease' = [lease EXCEPT ![p] = NoLease]
        /\ events' = [events EXCEPT ![lease[p].event] =
               [@ EXCEPT !.state = "retryable", !.token = Nobody,
                         !.available_at = now + RetryDelay, !.updated_at = now]]
    BY <1>7 DEF Retries, RetryLater
  <2>2. /\ events' = [events EXCEPT ![lease[p].event] = events'[lease[p].event]]
        /\ events'[lease[p].event].response = "none"
    BY <1>0, <1>4, <2>1 DEF EventRow
  <2> QED BY <1>0, <1>2, <1>4, <2>1, <2>2
<1>8. CASE Ends(p)
  BY <1>0, <1>8 DEF Ends, LeasesInv, LeasesLast, ResponsesTerminal, Holds, Cast
<1> QED BY <1>0, <1>1, <1>3, <1>5, <1>6, <1>7, <1>8
        DEF CallStep, Inner, Begins, Replays, Sends, Publishes

LEMMA LeasesInvStep ==
    ASSUME EngineTypes, LeasesInv, [EngineNext]_engineVars
    PROVE  LeasesInv'
<1>1. CASE UNCHANGED <<events, lease, cast>>
  BY <1>1 DEF LeasesInv, LeasesLast, ResponsesTerminal, Holds, Cast
<1>2. CASE Second
  <2>1. ResponsesTerminal'
    BY <1>2, SecondMoves DEF LeasesInv, ResponsesTerminal
  <2>2. ASSUME ~Cast'.outlive, NEW p \in Processes, Holds(p)'
        PROVE  lease'[p].until > 0
    <3>1. ~Cast.outlive
      BY <1>2, <2>2 DEF Second, hostVars, Cast
    <3>2. Holds(p) /\ lease'[p].until = Closer(lease[p].until)
      BY <1>2, <2>2, SecondMoves DEF Holds
    <3>3. lease[p].until > 1 /\ lease[p].until \in Nat
      BY <1>2, <3>1, <3>2, HolderTypes DEF Second, EngineTypes
    <3> QED BY <3>2, <3>3 DEF Closer
  <2> QED BY <2>1, <2>2 DEF LeasesInv, LeasesLast
<1>3. CASE PruneTerminalRows
  <2>1. PICK e \in stale : events' = [events EXCEPT ![e] = NoEvent]
    BY <1>3 DEF PruneTerminalRows
  <2>2. UNCHANGED <<lease, cast>>
    BY <1>3 DEF PruneTerminalRows, hostVars, ledgerVars, claimVars
  <2> QED BY <2>1, <2>2 DEF LeasesInv, LeasesLast, ResponsesTerminal, Holds, Cast,
      EngineTypes, ClaimsTypeOK
<1>4. CASE \/ (\E h \in Hashes : WalletSettles(h)) \/ PayOutside \/ LeaveFreshnessWindow
           \/ Revoke \/ Reconcile \/ StopReconciler \/ UNCHANGED engineVars
  <2>1. UNCHANGED <<events, lease, cast>>
    BY <1>4 DEF WalletSettles, PayOutside, LeaveFreshnessWindow, Revoke, Reconcile,
       StopReconciler, LoadUnresolved, QueryStatus, ApplyStatus, ledgerVars, claimVars,
       hostVars, engineVars
  <2> QED BY <1>1, <2>1
<1> QED BY <1>2, <1>3, <1>4, EngineSteps, CallKeepsLeases

LEMMA LeasesInvInit == EngineInit => LeasesInv
BY DEF EngineInit, LeasesInv, LeasesLast, ResponsesTerminal, Holds

\* A call at work holds the live claim of its event, alone.
LEMMA Alone ==
    ASSUME EngineTypes, ClaimsHold, LeasesInv, ~Cast.outlive,
           NEW p \in Processes, proc[p].pc \in WorkPcs
    PROVE  /\ OwnsLease(p, now) /\ lease[p].event = proc[p].event
           /\ events[proc[p].event] # NoEvent /\ events[proc[p].event].state = "claimed"
           /\ \A q \in Processes :
                  proc[q].pc \in WorkPcs /\ proc[q].event = proc[p].event => q = p
<1>1. ASSUME NEW q \in Processes, proc[q].pc \in WorkPcs
      PROVE  /\ Holds(q) /\ lease[q].event = proc[q].event
             /\ events[proc[q].event] # NoEvent /\ events[proc[q].event].state = "claimed"
             /\ events[proc[q].event].token = lease[q].token
             /\ events[proc[q].event].available_at > 0
  <2>1. Holds(q) /\ lease[q].event = proc[q].event
    BY <1>1 DEF EngineTypes, CallsTypeOK
  <2>2. lease[q].until > 0 /\ lease[q].until \in Nat /\ now = 0
    BY <2>1, HolderTypes DEF LeasesInv, LeasesLast, EngineTypes, EstablishedOnce
  <2> QED BY <2>1, <2>2 DEF ClaimsHold, LeaseMatchesRow
<1>2. now = 0
  BY DEF EngineTypes, EstablishedOnce
<1>3. OwnsLease(p, now)
  BY <1>1, <1>2 DEF OwnsLease
<1>4. ASSUME NEW q \in Processes, proc[q].pc \in WorkPcs, proc[q].event = proc[p].event
      PROVE  q = p
  <2>1. lease[q].token = lease[p].token /\ Holds(q) /\ Holds(p)
    BY <1>1, <1>4
  <2> QED BY <2>1 DEF ClaimsHold, TokensDistinct
<1> QED BY <1>1, <1>3, <1>4

(***************************************************************************)
(* Where a process's deadline ends it before its lease does, a wallet      *)
(* payment is submitted only under the live claim of its event, and no     *)
(* other call is between its checks and its wallet call for that event.    *)
(* The run engine_suspended shows a process that outlives its lease.       *)
(***************************************************************************)
THEOREM PaymentsStartUnderClaim ==
    EngineSafety /\ [](~Cast.outlive) => SubmittedUnderClaim
<1> DEFINE Inv == EngineTypes /\ ClaimsHold /\ LeasesInv
<1>1. EngineInit => Inv
  BY EngineTypesInit, ClaimsHoldInit, LeasesInvInit
<1>2. Inv /\ [EngineNext]_engineVars => Inv'
  BY EngineTypesStep, ClaimsHoldStep, LeasesInvStep
<1> DEFINE Claimed ==
        \A h \in Hashes :
          wallet'[h].key # wallet[h].key /\ wallet'[h].key \in EventIds =>
              /\ \E p \in Processes :
                     OwnsLease(p, now) /\ lease[p].event = wallet'[h].key
              /\ Cardinality({p \in Processes :
                     /\ proc[p].pc \in {"initiate", "start", "await"}
                     /\ proc[p].event = wallet'[h].key}) = 1
<1>3. Inv /\ ~Cast.outlive /\ [EngineNext]_engineVars => [Claimed]_engineVars
  <2> SUFFICES ASSUME Inv, ~Cast.outlive, EngineNext, NEW h \in Hashes,
                      wallet'[h].key # wallet[h].key, wallet'[h].key \in EventIds
               PROVE  /\ \E p \in Processes :
                             OwnsLease(p, now) /\ lease[p].event = wallet'[h].key
                      /\ Cardinality({p \in Processes :
                             /\ proc[p].pc \in {"initiate", "start", "await"}
                             /\ proc[p].event = wallet'[h].key}) = 1
    OBVIOUS
  <2>0. wallet \in [Hashes -> [status: Statuses, key: EventIds \cup {External, Nobody}]]
        /\ External \notin EventIds
    BY EngineAssumption DEF EngineTypes, HostsTypeOK
  <2>1. PICK p \in Processes : StepOf(p)
    <3>1. CASE \E k \in Hashes : WalletSettles(k)
      BY <2>0, <3>1 DEF WalletSettles
    <3>2. CASE PayOutside
      BY <2>0, <3>2 DEF PayOutside, Submit
    <3>3. CASE Reconcile \/ StopReconciler \/ Second \/ LeaveFreshnessWindow
               \/ PruneTerminalRows \/ Revoke
      BY <3>3 DEF Reconcile, StopReconciler, Second, LeaveFreshnessWindow,
         PruneTerminalRows, Revoke, hostVars
    <3> QED BY <3>1, <3>2, <3>3, EngineSteps
  <2>2. proc[p].pc = "start" /\ Submit(proc[p].event, HashOf(p))
    BY <2>1, StepOfCall DEF CallHosts
  <2>3. wallet'[h].key = proc[p].event
    <3>1. HashOf(p) \in Hashes
      BY <2>2, RunningCall
    <3> QED BY <2>0, <2>2, <3>1 DEF Submit
  <2>4. {"initiate", "start", "await"} \subseteq WorkPcs
    BY DEF WorkPcs, PayPcs
  <2>5. /\ OwnsLease(p, now) /\ lease[p].event = proc[p].event
        /\ \A q \in Processes :
               proc[q].pc \in WorkPcs /\ proc[q].event = proc[p].event => q = p
    BY <2>2, <2>4, Alone
  <2>6. {q \in Processes : /\ proc[q].pc \in {"initiate", "start", "await"}
                           /\ proc[q].event = wallet'[h].key} = {p}
    BY <2>2, <2>3, <2>4, <2>5
  <2>7. Cardinality({p}) = 1
    BY FS_Singleton
  <2> QED BY <2>3, <2>5, <2>6, <2>7
<1>4. SubmittedUnderClaim <=> [][Claimed]_engineVars
  BY DEF SubmittedUnderClaim
<1> HIDE DEF Inv, Claimed
<1> QED BY <1>1, <1>2, <1>3, <1>4, PTL DEF EngineSafety

-----------------------------------------------------------------------------
(* What the client is told.  Where nobody pays outside, processes end      *)
(* before their leases and settlements decode, a row's outcome is the      *)
(* wallet's, and so is every answer.                                       *)

Orderly == Inside /\ ~Cast.outlive /\ ~Cast.undecodable

\* What a settled payment is charged is more than nothing.
LEMMA ChargedAmount ==
    ASSUME EngineTypes, NEW f \in EventIds, Exists(f)
    PROVE  Charged(attempts[f].conn, SettledAmount(attempts[f].hash), SettledFee) > 0
<1>1. /\ attempts[f].hash = RequestOf[f].hash /\ RequestOf[f].principal > 0
      /\ cast \in DOMAIN Casts /\ SettledFee \in Nat
  BY EngineAssumption DEF EngineTypes, RowsOK, RowOK, HostsTypeOK
<1>2. RequestOf[f].principal \in Nat
  BY <1>1, RequestTypes
<1>3. SettledAmount(attempts[f].hash) = 1000 * RequestOf[f].principal
  BY <1>1, SettledAmountOf
<1>4. MsatToSatCeil(1000 * RequestOf[f].principal) > 0
  BY <1>1, <1>2 DEF MsatToSatCeil
<1>5. MsatToSatCeil(SettledFee) >= 0
  BY <1>1 DEF MsatToSatCeil
<1>6. MsatToSatCeil(SettledFee) \in Int
      /\ MsatToSatCeil(1000 * RequestOf[f].principal) \in Int
  BY <1>1, <1>2 DEF MsatToSatCeil
<1> QED BY <1>3, <1>4, <1>5, <1>6 DEF Charged

\* The steps of a call that change its row, inside.
RowWork(p) ==
    LET old == attempts[proc[p].event]
        new == attempts'[proc[p].event]
    IN  \/ /\ Resumes(p) /\ proc[p].pc = "reserve" /\ old.state = "none"
           /\ new.state = "reserved"
        \/ /\ Initiates(p) /\ new.state = old.state
           /\ new = old \/ old.state = "reserved"
        \/ GivesUp(p) /\ old.state \in {"reserved", "pending"} /\ new.state = "pending"
        \/ /\ Settles(p) /\ new.state = "succeeded" /\ old.state # "none"
           /\ new = old \/ new.charged > 0
        \/ /\ Fails(p) /\ new.state = "failed"
           /\ old.state \notin {"none", "succeeded"}

\* Inside, a call changes no row but its own.
LEMMA OwnRowOnly ==
    ASSUME EngineTypes, LegacyInv, AttributedInv, Inside, NEW p \in Processes, StepOf(p)
    PROVE  \/ attempts' = attempts
           \/ /\ RowWork(p) /\ Work(p)
              /\ \A e \in EventIds : e # proc[p].event => attempts'[e] = attempts[e]
<1>0. /\ Work(p) \/ Frame(p)
      /\ attempts \in [EventIds -> AttemptRow \cup {NoAttempt}]
      /\ Attributed /\ CallAttributed(p)
      /\ NoAttempt.state = "none"
  BY CallWorks DEF EngineTypes, AccountingTypeOK, Attributed, AttributedInv, CallsAttributed,
     NoAttempt
<1>1. ASSUME NEW f \in TrackedBy(HashOf(p)), RowMarked(f), proc[p].pc \in PayPcs
      PROVE  /\ f = proc[p].event /\ attempts[f].state # "none"
             /\ attempts[f].hash = HashOf(p) /\ f \in EventIds /\ Exists(f)
             /\ \A e \in EventIds : e # proc[p].event => attempts'[e] = attempts[e]
  <2>1. f = proc[p].event
    BY <1>0, <1>1, OwnRows
  <2>2. f \in EventIds /\ Exists(f) /\ attempts[f].hash = HashOf(p)
    BY DEF TrackedBy
  <2> QED BY <1>0, <1>1, <2>1, <2>2 DEF RowMarked, Exists
<1>2. ASSUME proc[p].pc = "finish", NEW state, StoredAs(p, state)
      PROVE  /\ attempts'[proc[p].event].state = state
             /\ attempts[proc[p].event].state # "none"
             /\ state = "pending" =>
                    attempts[proc[p].event].state \in {"reserved", "pending"}
             /\ state = "failed" => attempts[proc[p].event].state # "succeeded"
             /\ state = "succeeded" =>
                    \/ attempts'[proc[p].event] = attempts[proc[p].event]
                    \/ attempts'[proc[p].event].charged > 0
             /\ \A e \in EventIds : e # proc[p].event => attempts'[e] = attempts[e]
  <2>1. PICK f \in TrackedBy(HashOf(p)) :
            /\ RowMarked(f) /\ attempts[f].initiated /\ attempts'[f].state = state
            /\ state = "pending" => attempts[f].state \in {"reserved", "pending"}
            /\ state = "failed" => attempts[f].state # "succeeded"
            /\ state = "succeeded" =>
                   \/ attempts'[f] = attempts[f]
                   \/ attempts'[f].charged =
                          Charged(attempts[f].conn, SettledAmount(HashOf(p)), SettledFee)
    BY <1>2 DEF StoredAs
  <2>2. proc[p].pc \in PayPcs
    BY <1>2 DEF PayPcs
  <2>3. /\ f = proc[p].event /\ attempts[f].state # "none"
        /\ attempts[f].hash = HashOf(p) /\ f \in EventIds /\ Exists(f)
        /\ \A e \in EventIds : e # proc[p].event => attempts'[e] = attempts[e]
    BY <1>1, <2>1, <2>2
  <2>4. Charged(attempts[f].conn, SettledAmount(HashOf(p)), SettledFee) > 0
    BY <2>3, ChargedAmount
  <2> QED BY <2>1, <2>3, <2>4
<1>3. CASE GivesUp(p) /\ Work(p)
  BY <1>2, <1>3 DEF GivesUp, RowWork
<1>4. CASE Settles(p) /\ Work(p)
  BY <1>2, <1>4 DEF Settles, RowWork
<1>5. CASE Fails(p) /\ Work(p)
  BY <1>2, <1>5 DEF Fails, RowWork
<1>6. CASE Initiates(p) /\ Work(p)
  <2>1. PICK f \in TrackedBy(HashOf(p)) :
            /\ RowMarked(f) /\ attempts'[f].initiated
            /\ attempts'[f].state = attempts[f].state
            /\ attempts'[f] = attempts[f] \/ attempts[f].state = "reserved"
    BY <1>6 DEF Initiates
  <2>2. proc[p].pc \in PayPcs
    BY <1>6 DEF Initiates, PayPcs
  <2>3. /\ f = proc[p].event
        /\ \A e \in EventIds : e # proc[p].event => attempts'[e] = attempts[e]
    BY <1>1, <2>1, <2>2
  <2> QED BY <1>6, <2>1, <2>3 DEF RowWork
<1>7. CASE Resumes(p) /\ Work(p)
  <2> SUFFICES ASSUME attempts' # attempts
               PROVE  /\ RowWork(p)
                      /\ \A e \in EventIds : e # proc[p].event => attempts'[e] = attempts[e]
    BY <1>7
  <2>1. proc[p].pc = "reserve" /\ RowReserved(proc[p].event)
    BY <1>7 DEF Resumes
  <2>2. /\ attempts[proc[p].event].state = "none" /\ attempts'[proc[p].event].state = "reserved"
        /\ \A e \in EventIds : e # proc[p].event => attempts'[e] = attempts[e]
    BY <1>0, <2>1 DEF RowReserved, Exists
  <2> QED BY <1>7, <2>1, <2>2 DEF RowWork
<1>8. CASE Releases(p)
  <2>1. PICK f \in TrackedBy(HashOf(p)) : RowReleased(f)
    BY <1>8 DEF Releases
  <2>2. proc[p].pc = "release" /\ proc[p].pc \in PayPcs
    BY <1>8 DEF Releases, PayPcs
  <2>3. HashOf(p) \in Hashes
    BY <2>2, RunningCall
  <2>4. wallet[HashOf(p)].key # Nobody
    BY <1>0, <2>2 DEF CallAttributed
  <2> QED BY <2>1, <2>3, <2>4, NothingToRelease DEF RowReleased
<1>9. CASE \/ Refuses(p) \/ Proceeds(p) \/ AnswersDirectly(p) \/ Starts(p)
           \/ Told(p) \/ Records(p) \/ Frame(p)
  BY <1>9 DEF Refuses, Proceeds, AnswersDirectly, Starts, Told, Records, Frame, Silent
<1> QED BY <1>0, <1>3, <1>4, <1>5, <1>6, <1>7, <1>8, <1>9 DEF Work

\* Inside, the pass changes the row of the payment hash it asked about, to what
\* it was told.
PassRow(e) ==
    /\ reconciler.pc = "apply" /\ Exists(e) /\ attempts[e].hash = reconciler.seen.hash
    /\ reconciler.status \in {"succeeded", "failed"}
    /\ attempts'[e].state = reconciler.status
    /\ reconciler.status = "failed" => attempts[e].state # "succeeded"
    /\ reconciler.status = "succeeded" =>
           attempts'[e] = attempts[e] \/ attempts'[e].charged > 0

LEMMA PassRowOnly ==
    ASSUME EngineTypes, AttributedInv, Inside, Reconcile \/ StopReconciler, NEW e \in EventIds
    PROVE  attempts'[e] = attempts[e] \/ PassRow(e)
<1>0. /\ PassWorks /\ attempts \in [EventIds -> AttemptRow \cup {NoAttempt}]
      /\ Attributed /\ WatchedRows
  BY PassWorksStep DEF EngineTypes, AccountingTypeOK, Attributed, AttributedInv
<1>1. CASE attempts' = attempts
  BY <1>1
<1>2. ASSUME NEW f \in TrackedBy(reconciler.seen.hash), RowReleased(f),
             reconciler.pc = "apply", reconciler.status # "unknown"
      PROVE  FALSE
  <2>1. wallet[reconciler.seen.hash].key # Nobody /\ reconciler.seen.hash \in Hashes
    BY <1>0, <1>2 DEF WatchedRows, EngineTypes, PassTypeOK, Snapshots
  <2> QED BY <1>2, <2>1, NothingToRelease DEF RowReleased
<1>3. ASSUME NEW f \in TrackedBy(reconciler.seen.hash), RowMarked(f), reconciler.pc = "apply",
             reconciler.status \in {"succeeded", "failed"},
             attempts'[f].state = reconciler.status,
             reconciler.status = "failed" => attempts[f].state # "succeeded",
             reconciler.status = "succeeded" =>
                 \/ attempts'[f] = attempts[f]
                 \/ attempts'[f].charged =
                        Charged(attempts[f].conn,
                                SettledAmount(reconciler.seen.hash), SettledFee)
      PROVE  attempts'[e] = attempts[e] \/ PassRow(e)
  <2>1. CASE e # f
    BY <1>0, <1>3, <2>1 DEF RowMarked
  <2>2. CASE e = f
    <3>1. Exists(e) /\ attempts[e].hash = reconciler.seen.hash
      BY <2>2 DEF TrackedBy
    <3>2. Charged(attempts[e].conn, SettledAmount(reconciler.seen.hash), SettledFee) > 0
      BY <3>1, ChargedAmount
    <3> QED BY <1>3, <2>2, <3>1, <3>2 DEF PassRow
  <2> QED BY <2>1, <2>2
<1> QED BY <1>0, <1>1, <1>2, <1>3 DEF PassWorks

\* The wallet has a payment of this request under way or settled.
Paid(e) == Underway(RequestOf[e].hash) /\ wallet[RequestOf[e].hash].key = e

\* What a row says of its payment is so.
OutcomeRows ==
    \A e \in EventIds :
        /\ attempts[e].state = "failed" => ~Paid(e)
        /\ attempts[e].state = "succeeded" =>
               wallet[RequestOf[e].hash].status = "succeeded" /\ attempts[e].charged > 0

\* Where a call may be that has no answer yet.
UnansweredPcs ==
    {"claim", "freshness", "secret", "check_direct", "direct", "load_attempt", "quote",
     "reserve"} \cup PayPcs

\* What a call goes by is so, even if the reconciler was faster.
CallTrue(p) ==
    /\ proc[p].pc \in {"quote", "reserve"} => attempts[proc[p].event].state = "none"
    /\ proc[p].pc \in PayPcs /\ attempts[proc[p].event].state = "failed" =>
           wallet[HashOf(p)].key = proc[p].event
    /\ proc[p].pc = "finish" =>
        /\ proc[p].status = "succeeded" => wallet[HashOf(p)].status = "succeeded"
        /\ proc[p].status = "failed" => ~Paid(proc[p].event)
    /\ proc[p].pc = "record" => /\ wallet[HashOf(p)].status = "succeeded"
                                /\ attempts[proc[p].event].state = "succeeded"
    /\ proc[p].pc \in UnansweredPcs => proc[p].response = "none"

CallsTrue == \A p \in Processes : CallTrue(p)

PassTrue ==
    reconciler.pc = "apply" /\ reconciler.status \in {"succeeded", "failed"} =>
        wallet[reconciler.seen.hash].status = reconciler.status

Truth(e, r) ==
    RequestOf[e].kind = "pay_invoice" /\ e \notin LegacyEvents =>
        /\ r = "result" => /\ wallet[RequestOf[e].hash].status = "succeeded"
                           /\ attempts[e].state = "succeeded" /\ e \in sent
        /\ r = "error" => ~Paid(e)

GivenTrue == \A e \in EventIds, r \in Responses : Given(e, r) => Truth(e, r)

OrderlyInv == Orderly => OutcomeRows /\ CallsTrue /\ PassTrue /\ GivenTrue

EngineInv ==
    EngineTypes /\ AnswersInv /\ LegacyInv /\ AttributedInv /\ LeasesInv /\ OrderlyInv

\* The parts an orderly state has.
LEMMA OrderlyParts ==
    ASSUME EngineInv, Orderly
    PROVE  /\ EngineTypes /\ AnswersInv /\ LegacyInv /\ AttributedInv /\ LeasesInv
           /\ ClaimsHold /\ Inside /\ Attributed /\ ~Cast.outlive /\ ~Cast.undecodable
           /\ PaidRows /\ WalletKeys /\ OutcomeRows /\ CallsTrue /\ PassTrue /\ GivenTrue
           /\ wallet \in [Hashes -> [status: Statuses, key: EventIds \cup {External, Nobody}]]
           /\ \A e \in EventIds : RequestOf[e].hash \in Hashes
           /\ External \notin EventIds /\ Nobody \notin EventIds /\ "none" \notin Responses
           /\ OneAttemptPerHash /\ RowsOK
BY EngineAssumption, RequestTypes
DEF EngineInv, Orderly, AnswersInv, AttributedInv, Attributed, OrderlyInv, EngineTypes,
    HostsTypeOK

\* A payment the wallet has is the one of the row of its hash.
LEMMA PaidByRow ==
    ASSUME EngineInv, Orderly, NEW e \in EventIds, Exists(e),
           wallet[RequestOf[e].hash].key # Nobody
    PROVE  wallet[RequestOf[e].hash].key = e
<1>0. /\ PaidRows /\ WalletKeys /\ Inside /\ OneAttemptPerHash /\ RowsOK
      /\ wallet \in [Hashes -> [status: Statuses, key: EventIds \cup {External, Nobody}]]
      /\ RequestOf[e].hash \in Hashes
  BY OrderlyParts
<1>1. PICK k \in EventIds : k = wallet[RequestOf[e].hash].key
  BY <1>0 DEF WalletKeys
<1>2. RequestOf[k].hash = RequestOf[e].hash /\ Exists(k)
  BY <1>0, <1>1 DEF PaidRows, Initiated
<1>3. attempts[k].hash = attempts[e].hash
  BY <1>0, <1>2 DEF RowsOK, RowOK
<1> QED BY <1>0, <1>1, <1>2, <1>3 DEF OneAttemptPerHash

\* A call submits at most one payment of its hash, the first.
LEMMA CallPays ==
    ASSUME EngineInv, Orderly, NEW p \in Processes, StepOf(p), NEW h \in Hashes
    PROVE  \/ wallet'[h] = wallet[h]
           \/ /\ Starts(p) /\ proc[p].pc = "start" /\ h = HashOf(p)
              /\ wallet[h].key = Nobody /\ wallet[h].status = "unknown"
              /\ wallet'[h].key = proc[p].event /\ wallet'[h].status = "pending"
<1>0. /\ PaidRows /\ WalletKeys /\ Inside /\ EngineTypes /\ LegacyInv /\ AttributedInv
      /\ Attributed /\ RowsOK
      /\ wallet \in [Hashes -> [status: Statuses, key: EventIds \cup {External, Nobody}]]
  BY OrderlyParts
<1>1. CallHosts(p) /\ (Work(p) \/ Frame(p))
  BY <1>0, StepOfCall, CallWorks
<1>2. SUFFICES ASSUME wallet' # wallet, proc[p].pc = "start",
                      MaySubmit(proc[p].event, HashOf(p)),
                      Submit(proc[p].event, HashOf(p))
               PROVE  \/ wallet'[h] = wallet[h]
                      \/ /\ Starts(p) /\ proc[p].pc = "start" /\ h = HashOf(p)
                         /\ wallet[h].key = Nobody /\ wallet[h].status = "unknown"
                         /\ wallet'[h].key = proc[p].event /\ wallet'[h].status = "pending"
  BY <1>1 DEF CallHosts
<1>3. Starts(p)
  BY <1>1, <1>2 DEF Work, Frame, GivesUp, Refuses, Proceeds, Resumes, AnswersDirectly,
     Releases, Initiates, Told, Settles, Fails, Records, Silent
<1>4. proc[p].event \in EventIds /\ HashOf(p) \in Hashes
  BY <1>0, <1>2, RunningCall
<1>5. /\ h # HashOf(p) => wallet'[h] = wallet[h]
      /\ h = HashOf(p) => wallet'[h].key = proc[p].event /\ wallet'[h].status = "pending"
  BY <1>0, <1>2, <1>4 DEF Submit
<1>6. wallet[HashOf(p)].key = Nobody
  <2> SUFFICES ASSUME wallet[HashOf(p)].key # Nobody PROVE FALSE
    OBVIOUS
  <2>1. PICK k \in EventIds : k = wallet[HashOf(p)].key
    BY <1>0, <1>4 DEF WalletKeys
  <2>2. RequestOf[k].hash = HashOf(p) /\ Exists(k)
    BY <1>0, <1>4, <2>1 DEF PaidRows, Initiated
  <2>3. k \in TrackedBy(HashOf(p))
    BY <1>0, <2>2 DEF RowsOK, RowOK, TrackedBy
  <2>4. proc[p].pc \in PayPcs
    BY <1>2 DEF PayPcs
  <2>5. k = proc[p].event
    BY <1>0, <2>3, <2>4, OwnRows
  <2> QED BY <1>2, <2>1, <2>5 DEF MaySubmit
<1>7. wallet[HashOf(p)].status = "unknown"
  BY <1>0, <1>4, <1>6 DEF WalletKeys
<1> QED BY <1>2, <1>3, <1>5, <1>6, <1>7

\* What was answered for an event is answered for good: no call pays for it.
LEMMA AnsweredQuiet ==
    ASSUME EngineInv, Orderly, NEW p \in Processes, proc[p].pc \in PayPcs,
           NEW r \in Responses, Given(proc[p].event, r)
    PROVE  FALSE
<1>0. /\ EngineTypes /\ AnswersInv /\ LeasesInv /\ ClaimsHold /\ ~Cast.outlive /\ CallsTrue
      /\ "none" \notin Responses
  BY OrderlyParts
<1>1. proc[p].pc \in WorkPcs /\ proc[p].pc \notin EarlyPcs /\ proc[p].event \in EventIds
  BY <1>0, RunningCall DEF WorkPcs, PayPcs, EarlyPcs
<1>2. /\ OwnsLease(p, now) /\ lease[p].event = proc[p].event
      /\ events[proc[p].event] # NoEvent /\ events[proc[p].event].state = "claimed"
      /\ \A q \in Processes :
             proc[q].pc \in WorkPcs /\ proc[q].event = proc[p].event => q = p
  BY <1>0, <1>1, Alone
<1>3. events[proc[p].event].response = "none"
  BY <1>0, <1>1, <1>2 DEF LeasesInv, ResponsesTerminal
<1>4. ~Answered(proc[p].event, r)
  <2> SUFFICES ASSUME Answered(proc[p].event, r) PROVE FALSE
    OBVIOUS
  <2>1. \/ Stands(events[proc[p].event], r)
        \/ Closed(events[proc[p].event])
    BY <1>0, <1>1 DEF AnswersInv, AnswerStands
  <2>2. ~events[proc[p].event].fresh
    BY <1>2, <2>1 DEF Stands, Closed
  <2> QED BY <1>0, <1>1, <1>2, <2>2 DEF AnswersInv, Unchecked, OwnRow, OwnsLease
<1>5. ASSUME NEW q \in Processes, CarriedBy(q, proc[p].event, r)
      PROVE  FALSE
  <2>1. proc[q].pc \notin {"publish", "send"}
    BY <1>4, <1>5 DEF CarriedBy, Answered
  <2>2. proc[q] # Idle /\ proc[q].event = proc[p].event /\ proc[q].response = r
    BY <1>5 DEF CarriedBy
  <2>3. proc[q].pc \in WorkPcs \/ proc[q].pc = "claim"
    BY <1>0, <2>1, <2>2 DEF EngineTypes, CallsTypeOK, Calls
  <2>4. proc[q].pc \in UnansweredPcs
    BY <1>2, <2>2, <2>3 DEF UnansweredPcs
  <2> QED BY <1>0, <2>2, <2>4 DEF CallsTrue, CallTrue
<1> QED BY <1>0, <1>3, <1>4, <1>5 DEF Given, Answered

\* What every step leaves as it is, so that what was true stays true.
StillTrue ==
    /\ \A h \in Hashes :
        /\ wallet[h].status \in {"succeeded", "failed"} => wallet'[h] = wallet[h]
        /\ wallet[h].key # Nobody => wallet'[h].key = wallet[h].key
    /\ \A e \in EventIds :
        /\ attempts[e].state = "none" =>
               attempts'[e].state = "none" \/ attempts'[e].state = "reserved"
        /\ attempts[e].state = "succeeded" =>
               /\ attempts'[e].state = "succeeded"
               /\ attempts'[e] = attempts[e] \/ attempts'[e].charged > 0
    /\ sent \subseteq sent' /\ cast' = cast

LEMMA CallStillTrue ==
    ASSUME EngineInv, Orderly, NEW p \in Processes, StepOf(p)
    PROVE  /\ StillTrue
           /\ \A e \in EventIds : Paid(e)' =>
                  Paid(e) \/ (Starts(p) /\ proc[p].pc = "start" /\ e = proc[p].event
                              /\ wallet[HashOf(p)].key = Nobody)
           /\ \A e \in EventIds : attempts'[e].state = "failed" =>
                  attempts[e].state = "failed" \/ (Fails(p) /\ e = proc[p].event)
           /\ \A e \in EventIds : attempts'[e].state = "succeeded" =>
                  \/ attempts[e].state = "succeeded"
                  \/ Settles(p) /\ e = proc[p].event /\ attempts'[e].charged > 0
<1>0. /\ EngineTypes /\ LegacyInv /\ AttributedInv /\ Inside /\ CallHosts(p) /\ cast' = cast
      /\ wallet \in [Hashes -> [status: Statuses, key: EventIds \cup {External, Nobody}]]
      /\ \A e \in EventIds : RequestOf[e].hash \in Hashes
      /\ Nobody \notin EventIds
  BY OrderlyParts, StepOfCall
<1>1. RequestOf' = RequestOf
  BY <1>0 DEF RequestOf, Cast
<1>2. \A h \in Hashes :
          \/ wallet'[h] = wallet[h]
          \/ /\ Starts(p) /\ proc[p].pc = "start" /\ h = HashOf(p)
             /\ wallet[h].key = Nobody /\ wallet[h].status = "unknown"
             /\ wallet'[h].key = proc[p].event /\ wallet'[h].status = "pending"
  BY CallPays
<1>3. \/ attempts' = attempts
      \/ /\ RowWork(p) /\ Work(p)
         /\ \A e \in EventIds : e # proc[p].event => attempts'[e] = attempts[e]
  BY <1>0, OwnRowOnly
<1>4. sent \subseteq sent'
  BY <1>0 DEF CallHosts
<1>5. ASSUME NEW e \in EventIds, Paid(e)', ~Paid(e)
      PROVE  Starts(p) /\ proc[p].pc = "start" /\ e = proc[p].event
             /\ wallet[HashOf(p)].key = Nobody
  <2>1. PICK h \in Hashes : h = RequestOf[e].hash
    BY <1>0
  <2>2. wallet'[h].key = e /\ wallet'[h] # wallet[h]
    BY <1>1, <1>5, <2>1 DEF Paid, Underway
  <2> QED BY <1>2, <2>2
<1>6. ASSUME NEW e \in EventIds
      PROVE  /\ attempts[e].state = "none" =>
                    attempts'[e].state = "none" \/ attempts'[e].state = "reserved"
             /\ attempts[e].state = "succeeded" =>
                    /\ attempts'[e].state = "succeeded"
                    /\ attempts'[e] = attempts[e] \/ attempts'[e].charged > 0
             /\ attempts'[e].state = "failed" =>
                    attempts[e].state = "failed" \/ (Fails(p) /\ e = proc[p].event)
             /\ attempts'[e].state = "succeeded" =>
                  \/ attempts[e].state = "succeeded"
                  \/ Settles(p) /\ e = proc[p].event /\ attempts'[e].charged > 0
  <2>1. CASE attempts'[e] = attempts[e]
    BY <2>1
  <2>2. CASE RowWork(p) /\ e = proc[p].event
    BY <2>2 DEF RowWork
  <2> QED BY <1>3, <2>1, <2>2
<1>7. StillTrue
  BY <1>0, <1>2, <1>4, <1>6 DEF StillTrue
<1> QED BY <1>5, <1>6, <1>7

\* The pass, the wallet and time.
LEMMA OthersStillTrue ==
    ASSUME EngineInv, Orderly, [EngineNext]_engineVars, ~ \E p \in Processes : StepOf(p)
    PROVE  /\ StillTrue /\ proc' = proc /\ sent' = sent
           /\ \A e \in EventIds : Paid(e)' => Paid(e)
           /\ \A e \in EventIds :
                  /\ attempts[e].state = "none" => attempts'[e].state = "none"
                  /\ attempts'[e].state = "failed" =>
                      \/ attempts[e].state = "failed"
                      \/ Exists(e) /\ wallet[RequestOf[e].hash].status = "failed"
                  /\ attempts'[e].state = "succeeded" =>
                      \/ attempts[e].state = "succeeded"
                      \/ /\ wallet[RequestOf[e].hash].status = "succeeded"
                         /\ attempts'[e].charged > 0
<1>0. /\ EngineTypes /\ AttributedInv /\ Inside /\ RowsOK /\ PassTrue
      /\ wallet \in [Hashes -> [status: Statuses, key: EventIds \cup {External, Nobody}]]
      /\ \A e \in EventIds : RequestOf[e].hash \in Hashes
      /\ attempts \in [EventIds -> AttemptRow \cup {NoAttempt}]
  BY OrderlyParts DEF EngineTypes, AccountingTypeOK
<1>1. /\ proc' = proc /\ sent' = sent /\ cast' = cast
  BY EngineSteps DEF Reconcile, StopReconciler, WalletSettles, PayOutside, Second,
     LeaveFreshnessWindow, PruneTerminalRows, Revoke, engineVars, hostVars, LoadUnresolved,
     QueryStatus, ApplyStatus
<1>2. RequestOf' = RequestOf
  BY <1>1 DEF RequestOf, Cast
<1>3. CASE \E h \in Hashes : WalletSettles(h)
  <2>1. PICK k \in Hashes : /\ wallet[k].status = "pending" /\ attempts' = attempts
                            /\ \E status \in {"succeeded", "failed"} :
                                   wallet' = [wallet EXCEPT ![k].status = status]
    BY <1>3 DEF WalletSettles, ledgerVars
  <2>2. \A h \in Hashes :
            /\ wallet'[h].key = wallet[h].key
            /\ wallet'[h] = wallet[h] \/ wallet[h].status = "pending"
    BY <1>0, <2>1
  <2>3. \A e \in EventIds : Paid(e)' => Paid(e)
    BY <1>0, <1>2, <2>2 DEF Paid, Underway
  <2> QED BY <1>1, <2>1, <2>2, <2>3 DEF StillTrue
<1>4. CASE Reconcile \/ StopReconciler
  <2>1. wallet' = wallet
    BY <1>4 DEF Reconcile, StopReconciler, hostVars
  <2>2. \A e \in EventIds : Paid(e)' => Paid(e)
    BY <1>2, <2>1 DEF Paid, Underway
  <2>3. ASSUME NEW e \in EventIds
        PROVE  attempts'[e] = attempts[e] \/ PassRow(e)
    BY <1>0, <1>4, PassRowOnly
  <2>4. ASSUME NEW e \in EventIds, PassRow(e)
        PROVE  /\ Exists(e) /\ wallet[RequestOf[e].hash].status = reconciler.status
               /\ attempts[e].state # "none"
    BY <1>0, <2>4 DEF PassRow, PassTrue, RowsOK, RowOK, Exists
  <2> QED BY <1>1, <2>1, <2>2, <2>3, <2>4 DEF StillTrue, PassRow
<1>5. CASE Second \/ LeaveFreshnessWindow \/ PruneTerminalRows \/ Revoke
           \/ UNCHANGED engineVars
  <2>1. UNCHANGED <<wallet, attempts>>
    BY <1>5 DEF Second, LeaveFreshnessWindow, PruneTerminalRows, Revoke, engineVars,
       ledgerVars, hostVars
  <2>2. \A e \in EventIds : Paid(e)' => Paid(e)
    BY <1>2, <2>1 DEF Paid, Underway
  <2> QED BY <1>1, <2>1, <2>2 DEF StillTrue
<1>6. CASE PayOutside
  BY <1>0, <1>6 DEF PayOutside, Inside
<1> QED BY <1>3, <1>4, <1>5, <1>6, EngineSteps

\* Another call's step leaves what this call goes by.
LEMMA CallStaysTrue ==
    ASSUME EngineInv, Orderly, StillTrue, NEW q \in Processes, proc'[q] = proc[q],
           proc[q].pc \in WorkPcs =>
               /\ Paid(proc[q].event)' => Paid(proc[q].event)
               /\ attempts[proc[q].event].state = "none" =>
                      attempts'[proc[q].event].state = "none"
               /\ attempts'[proc[q].event].state = "failed" =>
                      \/ attempts[proc[q].event].state = "failed"
                      \/ wallet[HashOf(q)].key = proc[q].event
    PROVE  CallTrue(q)'
<1>0. /\ EngineTypes /\ CallTrue(q) /\ cast' = cast /\ Nobody \notin EventIds
  BY OrderlyParts DEF CallsTrue, StillTrue
<1>1. HashOf(q)' = HashOf(q)
  BY <1>0 DEF HashOf, Request, RequestOf, Cast
<1>2. CASE proc[q].pc \notin WorkPcs
  BY <1>0, <1>2 DEF CallTrue, WorkPcs, PayPcs
<1>3. CASE proc[q].pc \in WorkPcs
  <2>1. proc[q].event \in EventIds /\ HashOf(q) \in Hashes
    BY <1>0, <1>3, RunningCall DEF WorkPcs, PayPcs
  <2>2. PICK e \in EventIds, h \in Hashes : e = proc[q].event /\ h = HashOf(q)
    BY <2>1
  <2>3. /\ Paid(e)' => Paid(e)
        /\ attempts[e].state = "none" => attempts'[e].state = "none"
        /\ attempts'[e].state = "failed" =>
               attempts[e].state = "failed" \/ wallet[h].key = e
    BY <1>3, <2>2 DEF Paid, Underway
  <2>4. /\ wallet[h].status = "succeeded" => wallet'[h].status = "succeeded"
        /\ wallet[h].key = e => wallet'[h].key = e
        /\ attempts[e].state = "succeeded" => attempts'[e].state = "succeeded"
    BY <1>0 DEF StillTrue
  <2>5. /\ proc[q].pc \in {"quote", "reserve"} => attempts[e].state = "none"
        /\ proc[q].pc \in PayPcs /\ attempts[e].state = "failed" => wallet[h].key = e
        /\ proc[q].pc = "finish" =>
               /\ proc[q].status = "succeeded" => wallet[h].status = "succeeded"
               /\ proc[q].status = "failed" => ~Paid(e)
        /\ proc[q].pc = "record" => /\ wallet[h].status = "succeeded"
                                    /\ attempts[e].state = "succeeded"
        /\ proc[q].pc \in UnansweredPcs => proc[q].response = "none"
    BY <1>0, <2>2 DEF CallTrue
  <2>6. proc'[q].event = e /\ HashOf(q)' = h
    BY <1>1, <2>2
  <2> QED BY <2>3, <2>4, <2>5, <2>6 DEF CallTrue, Paid, Underway
<1> QED BY <1>2, <1>3

\* What a call learns and does by itself.
LEMMA OwnCallTrue ==
    ASSUME EngineInv, Orderly, NEW p \in Processes, StepOf(p)
    PROVE  CallTrue(p)'
<1>0. /\ EngineTypes /\ CallTrue(p) /\ ~Cast.undecodable /\ cast' = cast
      /\ Work(p) \/ Frame(p)
      /\ wallet \in [Hashes -> [status: Statuses, key: EventIds \cup {External, Nobody}]]
  BY OrderlyParts, StepOfCall, CallWorks DEF CallsTrue
<1>1. CASE Frame(p)
  <2>1. CASE Begins(p)
    BY <1>0, <2>1 DEF Begins, CallTrue, PayPcs, EngineTypes, CallsTypeOK
  <2>2. CASE Acquires(p)
    <3>1. proc'[p].pc \in {"secret", "freshness"} /\ proc'[p].response = proc[p].response
      BY <1>0, <2>2, SteppedTo DEF Acquires
    <3>2. proc[p].response = "none"
      BY <1>0, <2>2 DEF Acquires, CallTrue, UnansweredPcs
    <3> QED BY <3>1, <3>2 DEF CallTrue, PayPcs
  <2>3. CASE Accepts(p)
    <3>1. proc'[p].pc = "secret" /\ proc'[p].response = proc[p].response
      BY <1>0, <2>3, SteppedTo DEF Accepts
    <3>2. proc[p].response = "none"
      BY <1>0, <2>3 DEF Accepts, CallTrue, UnansweredPcs
    <3> QED BY <3>1, <3>2 DEF CallTrue, PayPcs
  <2>4. CASE Replays(p) \/ Commits(p) \/ Sends(p)
    <3>1. proc'[p].pc \in {"publish", "send"}
      BY <1>0, <2>4, SteppedTo DEF Replays, Commits, Sends
    <3> QED BY <3>1 DEF CallTrue, PayPcs, UnansweredPcs
  <2>5. CASE Rejects(p) \/ Retries(p) \/ Ends(p) \/ Publishes(p)
    <3>1. proc'[p].pc = "idle"
      BY <1>0, <2>5 DEF Rejects, Retries, Ends, Publishes, Idle, EngineTypes, CallsTypeOK
    <3> QED BY <3>1 DEF CallTrue, PayPcs, UnansweredPcs
  <2> QED BY <1>1, <2>1, <2>2, <2>3, <2>4, <2>5 DEF Frame
<1>2. CASE Work(p)
  <2>0. proc[p].event \in EventIds /\ HashOf(p) \in Hashes
        /\ HashOf(p) = RequestOf[proc[p].event].hash
    BY <1>0, <1>2, RunningCall DEF Work, WorkPcs, PayPcs
  <2>1. PICK e \in EventIds, h \in Hashes :
            e = proc[p].event /\ h = HashOf(p) /\ h = RequestOf[e].hash
    BY <2>0
  <2>2. PICK w : w = proc'[p]
    OBVIOUS
  <2>3. w.event = e /\ HashOf(p)' = h /\ RequestOf' = RequestOf
    BY <1>0, <1>2, <2>1, <2>2, WorkAfter DEF HashOf, Request, RequestOf, Cast
  <2>4. /\ proc[p].pc \in {"quote", "reserve"} => attempts[e].state = "none"
        /\ proc[p].pc \in PayPcs /\ attempts[e].state = "failed" => wallet[h].key = e
        /\ proc[p].pc = "finish" =>
               /\ proc[p].status = "succeeded" => wallet[h].status = "succeeded"
               /\ proc[p].status = "failed" => ~Paid(e)
        /\ proc[p].pc \in UnansweredPcs => proc[p].response = "none"
    BY <1>0, <2>1 DEF CallTrue
  <2>5. SUFFICES ASSUME w.pc \in UnansweredPcs
                 PROVE  /\ w.pc \in {"quote", "reserve"} => attempts'[e].state = "none"
                        /\ w.pc \in PayPcs /\ attempts'[e].state = "failed" =>
                               wallet'[h].key = e
                        /\ w.pc = "finish" =>
                            /\ w.status = "succeeded" => wallet'[h].status = "succeeded"
                            /\ w.status = "failed" =>
                                   ~(wallet'[h].status \in {"pending", "succeeded"}
                                     /\ wallet'[h].key = e)
                        /\ w.pc = "record" => /\ wallet'[h].status = "succeeded"
                                              /\ attempts'[e].state = "succeeded"
                        /\ w.response = "none"
    BY <2>1, <2>2, <2>3 DEF CallTrue, Paid, Underway, UnansweredPcs, PayPcs
  <2>6. CASE Proceeds(p)
    <3>1. PICK pc \in WorkPcs :
              /\ Moves(p, pc)
              /\ Stepped(p, pc, proc[p].seen, proc[p].status, proc[p].response)
      BY <2>6 DEF Proceeds
    <3>2. w.pc = pc /\ w.response = proc[p].response
      BY <1>0, <2>2, <3>1, SteppedTo
    <3>3. wallet' = wallet /\ attempts' = attempts
      BY <2>6 DEF Proceeds, Silent
    <3>4. /\ proc[p].pc \in UnansweredPcs /\ pc \notin {"finish", "record"}
          /\ pc \in PayPcs => proc[p].pc \in PayPcs
          /\ pc \in {"quote", "reserve"} => proc[p].pc = "quote" \/ ~Exists(proc[p].event)
      BY <2>5, <3>1, <3>2 DEF Moves, UnansweredPcs, PayPcs
    <3> QED BY <2>1, <2>4, <3>2, <3>3, <3>4 DEF Exists
  <2>7. CASE Resumes(p)
    <3>1. PICK pc \in {"check_start", "status"} :
              Stepped(p, pc, Snapshot(attempts'[proc[p].event]), proc[p].status,
                      proc[p].response)
      BY <2>7 DEF Resumes
    <3>2. w.pc = pc /\ w.response = proc[p].response
      BY <1>0, <2>2, <3>1, SteppedTo
    <3>3. attempts'[e].state # "failed" /\ proc[p].pc \in UnansweredPcs
      BY <2>1, <2>7 DEF Resumes, UnansweredPcs
    <3> QED BY <2>4, <3>1, <3>2, <3>3
  <2>8. CASE Initiates(p)
    <3>1. /\ w.pc = "start" /\ w.response = proc[p].response /\ wallet' = wallet
          /\ proc[p].pc \in UnansweredPcs /\ proc[p].pc \in PayPcs
      BY <1>0, <2>2, <2>8, SteppedTo DEF Initiates, UnansweredPcs, PayPcs
    <3>2. attempts'[e].state = "failed" => attempts[e].state = "failed"
      BY <2>8, CallStillTrue DEF Initiates, Fails
    <3> QED BY <2>4, <3>1, <3>2
  <2>9. CASE Starts(p)
    <3>1. /\ w.pc = "await" /\ w.response = proc[p].response /\ attempts' = attempts
          /\ proc[p].pc \in UnansweredPcs /\ proc[p].pc \in PayPcs
      BY <1>0, <2>2, <2>9, SteppedTo DEF Starts, UnansweredPcs, PayPcs
    <3>2. wallet'[h].key = e
      BY <1>0, <2>1, <2>9 DEF Starts, Submit
    <3> QED BY <2>4, <3>1, <3>2
  <2>10. CASE Told(p)
    <3>1. PICK status \in Statuses :
              /\ Learns(p, status)
              /\ Stepped(p, "finish", proc[p].seen, status, proc[p].response)
      BY <2>10 DEF Told
    <3>2. w.pc = "finish" /\ w.status = status /\ w.response = proc[p].response
      BY <1>0, <2>2, <3>1, SteppedTo
    <3>3. wallet' = wallet /\ attempts' = attempts
      BY <2>10 DEF Told
    <3>4. proc[p].pc \in UnansweredPcs /\ proc[p].pc \in PayPcs
      BY <3>1 DEF Learns, UnansweredPcs, PayPcs
    <3>5. /\ status = "succeeded" => wallet[h].status = "succeeded"
          /\ status = "failed" => wallet[h].status = "failed" \/ wallet[h].key # e
      BY <1>0, <2>1, <3>1 DEF Learns
    <3> QED BY <2>4, <3>2, <3>3, <3>4, <3>5
  <2>11. CASE Settles(p)
    <3>1. /\ w.pc = "record" /\ w.response = proc[p].response /\ wallet' = wallet
          /\ proc[p].pc = "finish" /\ proc[p].status = "succeeded"
          /\ proc[p].pc \in UnansweredPcs
      BY <1>0, <2>2, <2>11, SteppedTo DEF Settles, UnansweredPcs, PayPcs
    <3>2. attempts'[e].state = "succeeded"
      <4>1. PICK f \in TrackedBy(HashOf(p)) : attempts'[f].state = "succeeded"
        BY <2>11 DEF Settles, StoredAs
      <4>2. proc[p].pc \in PayPcs
        BY <3>1 DEF PayPcs
      <4>3. f = e
        BY <2>1, <4>2, OwnRows, OrderlyParts
      <4> QED BY <4>1, <4>3
    <3> QED BY <2>4, <3>1, <3>2
  <2>12. CASE \/ GivesUp(p) \/ Refuses(p) \/ AnswersDirectly(p) \/ Releases(p)
              \/ Fails(p) \/ Records(p)
    <3>1. w.pc \in {"reject", "retry", "error", "check_commit"}
      BY <1>0, <2>2, <2>12, SteppedTo
      DEF GivesUp, Refuses, AnswersDirectly, Releases, Fails, Records
    <3> QED BY <2>5, <3>1 DEF UnansweredPcs, PayPcs
  <2> QED BY <1>2, <2>6, <2>7, <2>8, <2>9, <2>10, <2>11, <2>12 DEF Work
<1> QED BY <1>0, <1>1, <1>2

\* An answer that is true stays true, unless its request is paid for afterwards.
LEMMA TruthStays ==
    ASSUME EngineInv, Orderly, StillTrue, NEW e \in EventIds, NEW r, Truth(e, r),
           r = "error" => (Paid(e)' => Paid(e))
    PROVE  Truth(e, r)'
<1>1. RequestOf[e].hash \in Hashes /\ cast' = cast
  BY OrderlyParts DEF StillTrue
<1>2. RequestOf' = RequestOf /\ LegacyEvents' = LegacyEvents
  BY <1>1 DEF RequestOf, LegacyEvents, Cast
<1> QED BY <1>1, <1>2 DEF Truth, StillTrue

LEMMA CallKeepsOrder ==
    ASSUME EngineInv, Orderly, NEW p \in Processes, StepOf(p)
    PROVE  OutcomeRows' /\ CallsTrue' /\ PassTrue' /\ GivenTrue'
<1>0. /\ EngineTypes /\ LegacyInv /\ AttributedInv /\ ClaimsHold /\ LeasesInv /\ ~Cast.outlive
      /\ Attributed /\ PaidRows /\ OutcomeRows /\ CallsTrue /\ PassTrue /\ GivenTrue
      /\ CallTrue(p)
      /\ wallet \in [Hashes -> [status: Statuses, key: EventIds \cup {External, Nobody}]]
      /\ \A e \in EventIds : RequestOf[e].hash \in Hashes
      /\ Nobody \notin EventIds /\ RowsOK
      /\ (Work(p) \/ Frame(p)) /\ UNCHANGED <<cast, reconciler>>
  BY OrderlyParts, CallWorks, StepOfCall DEF CallsTrue
<1>1. RequestOf' = RequestOf /\ LegacyEvents' = LegacyEvents
  BY <1>0 DEF RequestOf, LegacyEvents, Cast
<1>2. /\ StillTrue
      /\ \A e \in EventIds : Paid(e)' =>
             Paid(e) \/ (Starts(p) /\ proc[p].pc = "start" /\ e = proc[p].event
                         /\ wallet[HashOf(p)].key = Nobody)
      /\ \A e \in EventIds : attempts'[e].state = "failed" =>
             attempts[e].state = "failed" \/ (Fails(p) /\ e = proc[p].event)
      /\ \A e \in EventIds : attempts'[e].state = "succeeded" =>
             \/ attempts[e].state = "succeeded"
             \/ Settles(p) /\ e = proc[p].event /\ attempts'[e].charged > 0
  BY CallStillTrue
<1>3. OutcomeRows'
  <2> SUFFICES ASSUME NEW e \in EventIds
               PROVE  /\ attempts'[e].state = "failed" => ~Paid(e)'
                      /\ attempts'[e].state = "succeeded" =>
                             /\ wallet'[RequestOf[e].hash].status = "succeeded"
                             /\ attempts'[e].charged > 0
    BY <1>1 DEF OutcomeRows
  <2>1. ASSUME attempts'[e].state = "failed", Paid(e)'
        PROVE  FALSE
    <3>1. CASE attempts[e].state = "failed"
      <4>1. ~Paid(e)
        BY <1>0, <3>1 DEF OutcomeRows
      <4>2. proc[p].pc = "start" /\ e = proc[p].event /\ wallet[HashOf(p)].key = Nobody
        BY <1>2, <2>1, <4>1
      <4> QED BY <1>0, <3>1, <4>2 DEF CallTrue, PayPcs
    <3>2. CASE Fails(p) /\ e = proc[p].event
      <4>1. ~Paid(e) /\ proc[p].pc = "finish"
        BY <1>0, <3>2 DEF Fails, CallTrue
      <4> QED BY <1>2, <2>1, <4>1
    <3> QED BY <1>2, <2>1, <3>1, <3>2
  <2>2. ASSUME attempts'[e].state = "succeeded"
        PROVE  wallet'[RequestOf[e].hash].status = "succeeded" /\ attempts'[e].charged > 0
    <3>1. CASE attempts[e].state = "succeeded"
      BY <1>0, <1>2, <3>1 DEF OutcomeRows, StillTrue
    <3>2. CASE Settles(p) /\ e = proc[p].event /\ attempts'[e].charged > 0
      <4>1. proc[p].pc = "finish" /\ proc[p].status = "succeeded" /\ wallet' = wallet
        BY <3>2 DEF Settles
      <4>2. wallet[HashOf(p)].status = "succeeded"
        BY <1>0, <4>1 DEF CallTrue
      <4>3. HashOf(p) = RequestOf[e].hash
        BY <3>2 DEF HashOf, Request
      <4> QED BY <3>2, <4>1, <4>2, <4>3
    <3> QED BY <1>2, <2>2, <3>1, <3>2
  <2> QED BY <2>1, <2>2
<1>4. CallsTrue'
  <2> SUFFICES ASSUME NEW q \in Processes PROVE CallTrue(q)'
    BY DEF CallsTrue
  <2>1. CASE q = p
    BY <2>1, OwnCallTrue
  <2>2. CASE q # p
    <3>1. proc'[q] = proc[q]
      BY <1>0, <2>2, WorkAfter, FrameAfter
    <3>2. ASSUME proc[q].pc \in WorkPcs
          PROVE  /\ Paid(proc[q].event)' => Paid(proc[q].event)
                 /\ attempts[proc[q].event].state = "none" =>
                        attempts'[proc[q].event].state = "none"
                 /\ attempts'[proc[q].event].state = "failed" =>
                        \/ attempts[proc[q].event].state = "failed"
                        \/ wallet[HashOf(q)].key = proc[q].event
      <4>1. PICK e \in EventIds : e = proc[q].event
        BY <1>0, <3>2, RunningCall DEF WorkPcs, PayPcs
      <4>2. ASSUME proc[p].pc \in WorkPcs PROVE e # proc[p].event
        BY <1>0, <2>2, <3>2, <4>1, <4>2, Alone
      <4>3. Paid(e)' => Paid(e)
        <5>1. proc[p].pc = "start" => proc[p].pc \in WorkPcs
          BY DEF WorkPcs, PayPcs
        <5> QED BY <1>2, <4>2, <5>1
      <4>4. Paid(proc[q].event)' => Paid(proc[q].event)
        BY <3>1, <4>1, <4>3 DEF Paid, Underway
      <4>5. attempts'[e].state = "failed" => attempts[e].state = "failed"
        <5>1. Fails(p) => proc[p].pc \in WorkPcs
          BY DEF Fails, WorkPcs, PayPcs
        <5> QED BY <1>2, <4>2, <5>1
      <4>6. attempts'[e] = attempts[e]
        <5>1. Work(p) => e # proc[p].event
          BY <4>2 DEF Work
        <5>2. Inside
          BY DEF Orderly
        <5> QED BY <1>0, <5>1, <5>2, OwnRowOnly
      <4> QED BY <4>1, <4>4, <4>5, <4>6
    <3> QED BY <1>2, <3>1, <3>2, CallStaysTrue
  <2> QED BY <2>1, <2>2
<1>5. PassTrue'
  <2>1. reconciler.pc = "apply" => reconciler.seen.hash \in Hashes
    BY <1>0 DEF EngineTypes, PassTypeOK, Snapshots
  <2> QED BY <1>0, <1>2, <2>1 DEF PassTrue, StillTrue
<1>6. GivenTrue'
  <2> SUFFICES ASSUME NEW e \in EventIds, NEW r \in Responses, Given(e, r)'
               PROVE  Truth(e, r)'
    BY DEF GivenTrue
  <2>1. CASE Given(e, r)
    <3>1. Truth(e, r)
      BY <1>0, <2>1 DEF GivenTrue
    <3>2. Paid(e)' => Paid(e)
      <4> SUFFICES ASSUME proc[p].pc = "start", e = proc[p].event PROVE FALSE
        BY <1>2
      <4>1. proc[p].pc \in PayPcs
        BY DEF PayPcs
      <4> QED BY <2>1, <4>1, AnsweredQuiet
    <3> QED BY <1>2, <3>1, <3>2, TruthStays
  <2>2. CASE e = proc[p].event /\ proc[p].revision = 0 /\ Work(p) /\ Gives(p, r)
    <3>0. SUFFICES ASSUME RequestOf[e].kind = "pay_invoice", e \notin LegacyEvents
                   PROVE  /\ r = "result" =>
                              /\ wallet'[RequestOf[e].hash].status = "succeeded"
                              /\ attempts'[e].state = "succeeded" /\ e \in sent'
                          /\ r = "error" => ~Paid(e)'
      BY <1>1 DEF Truth
    <3>1. HashOf(p) = RequestOf[e].hash /\ Request(p) = RequestOf[e]
      BY <2>2 DEF HashOf, Request
    <3>2. CASE Refuses(p)
      <4>1. proc[p].pc # "direct"
        BY <1>0, <3>0, <3>1 DEF LegacyInv, DirectlyOnly
      <4>2. r = "error" /\ wallet' = wallet /\ NothingOwed(p)
        BY <2>2, <3>2, <4>1 DEF Gives, Refuses, AnswersDirectly, Records, Silent
      <4>3. ~Exists(e) \/ attempts[e].legacy \/ attempts[e].state = "failed"
        BY <1>0, <2>2, <4>1, <4>2 DEF NothingOwed, CallTrue, Exists
      <4>4. ~Paid(e)
        <5>1. CASE ~Exists(e)
          BY <1>0, <5>1 DEF Paid, PaidRows, Initiated
        <5>2. CASE Exists(e) /\ attempts[e].legacy
          BY <1>0, <3>0, <5>2 DEF RowsOK, RowOK
        <5>3. CASE attempts[e].state = "failed"
          BY <1>0, <5>3 DEF OutcomeRows
        <5> QED BY <4>3, <5>1, <5>2, <5>3
      <4> QED BY <1>1, <4>2, <4>4 DEF Paid, Underway
    <3>3. CASE Releases(p)
      <4>1. /\ r = "error" /\ wallet' = wallet /\ proc[p].pc \in PayPcs
            /\ \E f \in TrackedBy(HashOf(p)) : RowReleased(f)
        BY <2>2, <3>3 DEF Gives, Releases, AnswersDirectly, Records, PayPcs
      <4>2. ~attempts[e].initiated
        BY <1>0, <2>2, <4>1, OwnRows DEF RowReleased
      <4>3. ~Paid(e)
        BY <1>0, <4>2 DEF Paid, PaidRows, Initiated
      <4> QED BY <1>1, <4>1, <4>3 DEF Paid, Underway
    <3>4. CASE Fails(p)
      <4>1. r = "error" /\ wallet' = wallet
        BY <2>2, <3>4 DEF Gives, Fails, AnswersDirectly, Records
      <4>2. ~Paid(e)
        BY <1>0, <2>2, <3>4 DEF Fails, CallTrue
      <4> QED BY <1>1, <4>1, <4>2 DEF Paid, Underway
    <3>5. CASE AnswersDirectly(p)
      BY <1>0, <3>0, <3>1, <3>5 DEF AnswersDirectly, LegacyInv, DirectlyOnly
    <3>6. CASE Records(p)
      <4>1. /\ r = "result" /\ wallet' = wallet /\ attempts' = attempts
            /\ sent' = sent \cup {e} /\ proc[p].pc = "record"
        BY <2>2, <3>6 DEF Gives, Records, Refuses, Releases, Fails
      <4>2. wallet[HashOf(p)].status = "succeeded" /\ attempts[e].state = "succeeded"
        BY <1>0, <2>2, <4>1 DEF CallTrue
      <4> QED BY <3>1, <4>1, <4>2
    <3> QED BY <2>2, <3>2, <3>3, <3>4, <3>5, <3>6 DEF Gives
  <2> QED BY <1>0, <2>1, <2>2, GivenAfter
<1> QED BY <1>3, <1>4, <1>5, <1>6

LEMMA OthersKeepOrder ==
    ASSUME EngineInv, Orderly, [EngineNext]_engineVars, ~ \E p \in Processes : StepOf(p)
    PROVE  OutcomeRows' /\ CallsTrue' /\ PassTrue' /\ GivenTrue'
<1>0. /\ EngineTypes /\ OutcomeRows /\ CallsTrue /\ PassTrue /\ GivenTrue /\ WalletKeys
      /\ \A e \in EventIds : RequestOf[e].hash \in Hashes
      /\ wallet \in [Hashes -> [status: Statuses, key: EventIds \cup {External, Nobody}]]
  BY OrderlyParts
<1>1. /\ StillTrue /\ proc' = proc /\ sent' = sent
      /\ \A e \in EventIds : Paid(e)' => Paid(e)
      /\ \A e \in EventIds :
             /\ attempts[e].state = "none" => attempts'[e].state = "none"
             /\ attempts'[e].state = "failed" =>
                 \/ attempts[e].state = "failed"
                 \/ Exists(e) /\ wallet[RequestOf[e].hash].status = "failed"
             /\ attempts'[e].state = "succeeded" =>
                 \/ attempts[e].state = "succeeded"
                 \/ /\ wallet[RequestOf[e].hash].status = "succeeded"
                    /\ attempts'[e].charged > 0
  BY OthersStillTrue
<1>2. cast' = cast /\ RequestOf' = RequestOf
  BY <1>1 DEF StillTrue, RequestOf, Cast
<1>3. OutcomeRows'
  <2> SUFFICES ASSUME NEW e \in EventIds
               PROVE  /\ attempts'[e].state = "failed" => ~Paid(e)'
                      /\ attempts'[e].state = "succeeded" =>
                             /\ wallet'[RequestOf[e].hash].status = "succeeded"
                             /\ attempts'[e].charged > 0
    BY <1>2 DEF OutcomeRows
  <2>1. attempts'[e].state = "failed" => ~Paid(e)
    BY <1>0, <1>1 DEF OutcomeRows, Paid, Underway
  <2>2. attempts'[e].state = "succeeded" =>
            /\ wallet[RequestOf[e].hash].status = "succeeded" /\ attempts'[e].charged > 0
    BY <1>0, <1>1 DEF OutcomeRows, StillTrue
  <2>3. wallet[RequestOf[e].hash].status = "succeeded" =>
            wallet'[RequestOf[e].hash].status = "succeeded"
    BY <1>0, <1>1 DEF StillTrue
  <2> QED BY <1>1, <2>1, <2>2, <2>3
<1>4. CallsTrue'
  <2> SUFFICES ASSUME NEW q \in Processes PROVE CallTrue(q)'
    BY DEF CallsTrue
  <2>1. ASSUME proc[q].pc \in WorkPcs
        PROVE  /\ Paid(proc[q].event)' => Paid(proc[q].event)
               /\ attempts[proc[q].event].state = "none" =>
                      attempts'[proc[q].event].state = "none"
               /\ attempts'[proc[q].event].state = "failed" =>
                      \/ attempts[proc[q].event].state = "failed"
                      \/ wallet[HashOf(q)].key = proc[q].event
    <3>1. PICK e \in EventIds : e = proc[q].event /\ HashOf(q) = RequestOf[e].hash
      BY <1>0, <2>1, RunningCall DEF WorkPcs, PayPcs
    <3>2. Paid(proc[q].event)' => Paid(proc[q].event)
      <4>1. Paid(e)' => Paid(e)
        BY <1>1
      <4> QED BY <1>1, <3>1, <4>1 DEF Paid, Underway
    <3>3. Exists(e) /\ wallet[RequestOf[e].hash].status = "failed" =>
              wallet[RequestOf[e].hash].key = e
      BY <1>0, PaidByRow DEF WalletKeys
    <3> QED BY <1>1, <3>1, <3>2, <3>3
  <2> QED BY <1>1, <2>1, CallStaysTrue
<1>5. PassTrue'
  <2>1. CASE Reconcile \/ StopReconciler
    <3>1. PassMoves /\ wallet' = wallet
      BY <1>0, <2>1, ReconcileMoves DEF Reconcile, StopReconciler, hostVars
    <3>2. CASE PassAsks
      <4>1. PICK s \in reconciler.todo :
                reconciler' = Pass("apply", reconciler.todo \ {s}, s, wallet[s.hash].status)
        BY <3>2 DEF PassAsks
      <4>2. reconciler'.seen = s /\ reconciler'.status = wallet[s.hash].status
        BY <4>1 DEF Pass
      <4> QED BY <3>1, <4>2 DEF PassTrue
    <3>3. CASE PassRests \/ PassLoads \/ PassSkips \/ PassGoesOn
      <4>1. reconciler'.pc # "apply"
        BY <3>3 DEF PassRests, PassLoads, PassSkips, PassGoesOn, Pass, RestingReconciler
      <4> QED BY <4>1 DEF PassTrue
    <3> QED BY <3>1, <3>2, <3>3 DEF PassMoves
  <2>2. CASE ~(Reconcile \/ StopReconciler)
    <3>1. reconciler' = reconciler
      BY <2>2, EngineSteps DEF WalletSettles, PayOutside, Second, LeaveFreshnessWindow,
         PruneTerminalRows, Revoke, engineVars
    <3>2. reconciler.pc = "apply" => reconciler.seen.hash \in Hashes
      BY <1>0 DEF EngineTypes, PassTypeOK, Snapshots
    <3> QED BY <1>0, <1>1, <3>1, <3>2 DEF PassTrue, StillTrue
  <2> QED BY <2>1, <2>2
<1>6. GivenTrue'
  <2> SUFFICES ASSUME NEW e \in EventIds, NEW r \in Responses, Given(e, r)'
               PROVE  Truth(e, r)'
    BY DEF GivenTrue
  <2>1. Truth(e, r)
    BY <1>0, GivenStays DEF GivenTrue
  <2> QED BY <1>1, <2>1, TruthStays
<1> QED BY <1>3, <1>4, <1>5, <1>6

LEMMA OrderlyInvInit == EngineInit => OrderlyInv
<1> SUFFICES ASSUME EngineInit PROVE OrderlyInv
  OBVIOUS
<1>1. /\ published = {} /\ proc = [p \in Processes |-> Idle]
      /\ reconciler = RestingReconciler /\ events = [e \in EventIds |-> NoEvent]
      /\ attempts = [e \in EventIds |->
             IF e \in LegacyEvents \cup LeftEvents THEN LeftAttempt(e) ELSE NoAttempt]
  BY DEF EngineInit
<1>2. Idle.pc = "idle"
  BY DEF Idle
<1>3. OutcomeRows
  BY <1>1 DEF OutcomeRows, LeftAttempt, NoAttempt
<1>4. CallsTrue
  BY <1>1, <1>2 DEF CallsTrue, CallTrue, PayPcs, UnansweredPcs
<1>5. PassTrue
  BY <1>1 DEF PassTrue, RestingReconciler
<1>6. GivenTrue
  BY <1>1 DEF GivenTrue, Given, CarriedBy
<1> QED BY <1>3, <1>4, <1>5, <1>6 DEF OrderlyInv

LEMMA EngineInvHolds == EngineSafety => []EngineInv
<1>1. EngineInit => EngineInv
  BY EngineTypesInit, AnswersInvInit, LegacyInvInit, AttributedInvInit, LeasesInvInit,
     OrderlyInvInit DEF EngineInv
<1>2. EngineInv /\ [EngineNext]_engineVars => EngineInv'
  <2> SUFFICES ASSUME EngineInv, [EngineNext]_engineVars PROVE EngineInv'
    OBVIOUS
  <2>1. EngineTypes' /\ AnswersInv' /\ LegacyInv' /\ LeasesInv'
    BY EngineTypesStep, AnswersInvStep, LegacyInvStep, LeasesInvStep DEF EngineInv
  <2>2. AttributedInv'
    BY <2>1, AttributedInvStep DEF EngineInv
  <2>3. Orderly' <=> Orderly
    <3>1. cast' = cast
      BY EngineSteps, StepOfCall DEF EngineInv, Reconcile, StopReconciler, WalletSettles,
         PayOutside, Second, LeaveFreshnessWindow, PruneTerminalRows, Revoke, engineVars,
         hostVars
    <3> QED BY <3>1 DEF Orderly, Inside, Cast
  <2>4. OrderlyInv'
    <3> SUFFICES ASSUME Orderly
                 PROVE  OutcomeRows' /\ CallsTrue' /\ PassTrue' /\ GivenTrue'
      BY <2>3 DEF OrderlyInv
    <3> QED BY CallKeepsOrder, OthersKeepOrder
  <2> QED BY <2>1, <2>2, <2>4 DEF EngineInv
<1> QED BY <1>1, <1>2, PTL DEF EngineSafety

(***************************************************************************)
(* In an orderly engine every payment the wallet has under way or settled  *)
(* for a request is debited to it: reserved before it was started and not  *)
(* refunded, whatever crashed, was retried or was reconciled meanwhile.    *)
(* The runs engine_suspended and engine_undecodable break the property     *)
(* where a process outlives its lease or a settlement does not decode.     *)
(***************************************************************************)
THEOREM PaymentsAreDebited == EngineSafety => [](Orderly => EveryPaymentIsDebited)
<1>1. EngineInv => (Orderly => EveryPaymentIsDebited)
  <2> SUFFICES ASSUME EngineInv, Orderly, NEW h \in Hashes, Underway(h),
                      wallet[h].key \in EventIds
               PROVE  LET row == attempts[wallet[h].key]
                      IN  row.state # "none" /\ row.hash = h /\ row.initiated
                          /\ Contribution(row) > 0
    BY DEF EveryPaymentIsDebited
  <2>0. PaidRows /\ OutcomeRows /\ RowsOK /\ EngineTypes
    BY OrderlyParts
  <2>1. PICK e \in EventIds : e = wallet[h].key
    OBVIOUS
  <2>2. RequestOf[e].hash = h /\ Exists(e) /\ attempts[e].initiated
    BY <2>0, <2>1 DEF PaidRows, Initiated
  <2>3. attempts[e].hash = h /\ attempts[e].principal > 0 /\ attempts[e] \in AttemptRow
    BY <2>0, <2>2, StoredRow DEF RowsOK, RowOK, EngineTypes
  <2>4. attempts[e].state # "failed"
    BY <2>0, <2>1, <2>2 DEF OutcomeRows, Paid
  <2>5. Contribution(attempts[e]) > 0
    <3>1. CASE attempts[e].state \in {"reserved", "pending"}
      BY <2>3, <3>1 DEF Contribution, Reserved, AttemptRow
    <3>2. CASE attempts[e].state = "succeeded"
      BY <2>0, <3>2 DEF Contribution, OutcomeRows
    <3> QED BY <2>3, <2>4, <3>1, <3>2 DEF AttemptRow
  <2> QED BY <2>1, <2>2, <2>3, <2>5 DEF Exists
<1> QED BY <1>1, EngineInvHolds, PTL

(***************************************************************************)
(* In an orderly engine the client is told the truth: a payment result     *)
(* only for a settled payment whose debit and sent-payment record are      *)
(* durable, an error only for a payment that is not under way for this     *)
(* request, then and ever after.                                           *)
(***************************************************************************)
THEOREM ClientsAreToldTheTruth == EngineSafety => [](Orderly => AnswersAreTrue)
<1>1. EngineInv => (Orderly => AnswersAreTrue)
  <2> SUFFICES ASSUME EngineInv, Orderly, NEW m \in published,
                      RequestOf[m.event].kind = "pay_invoice", m.event \notin LegacyEvents
               PROVE  /\ m.response = "result" =>
                             /\ wallet[RequestOf[m.event].hash].status = "succeeded"
                             /\ attempts[m.event].state = "succeeded"
                             /\ m.event \in sent
                      /\ m.response = "error" =>
                             ~(Underway(RequestOf[m.event].hash)
                               /\ wallet[RequestOf[m.event].hash].key = m.event)
    BY DEF AnswersAreTrue
  <2>1. m \in [event: EventIds, response: Responses] /\ GivenTrue
    BY OrderlyParts DEF EngineTypes, HostsTypeOK
  <2>2. m = [event |-> m.event, response |-> m.response] /\ m.event \in EventIds
        /\ m.response \in Responses
    BY <2>1
  <2>3. Given(m.event, m.response)
    BY <2>2 DEF Given
  <2>4. Truth(m.event, m.response)
    BY <2>1, <2>2, <2>3 DEF GivenTrue
  <2> QED BY <2>4 DEF Truth, Paid
<1> QED BY <1>1, EngineInvHolds, PTL

-----------------------------------------------------------------------------
(* The budget.  Every write of the engine to the ledger is one of the      *)
(* accounting's transactions, so what they say of the limit carries over.  *)

\* What the engine and the reconciler do to the row of f.
Transacts(f) ==
    \/ MarkPaymentInitiated(f, now) \/ MarkPaymentPending(f, now)
    \/ MarkPaymentFailed(f, now) \/ ReleaseUninitiatedPayment(f, now)
    \/ MarkPaymentSucceeded(f, SettledAmount(attempts[f].hash), SettledFee, now)
    \/ \E h \in Hashes, c \in ConnectionIds, r \in Nat, principal \in Nat :
           ReservePayment(f, h, c, r, principal, now)

LedgerStep ==
    UNCHANGED <<connections, used, attempts>> \/ Revoke \/ \E f \in EventIds : Transacts(f)

LEMMA CallTransacts ==
    ASSUME EngineTypes, NEW p \in Processes, StepOf(p)
    PROVE  LedgerStep
<1>1. CASE ReserveStep(p)
  <2>1. CASE ReservePayment(proc[p].event, Request(p).hash, proc[p].conn,
                            proc[p].revision, Request(p).principal, now)
    <3>1. /\ proc[p] \in Calls /\ proc[p].event \in EventIds
          /\ Request(p) = RequestOf[proc[p].event]
      BY <1>1, RunningCall DEF ReserveStep
    <3>2. /\ proc[p].conn \in ConnectionIds /\ proc[p].revision \in Nat
          /\ Request(p).hash \in Hashes /\ Request(p).principal \in Nat
      BY <3>1, RequestTypes DEF Calls, EngineTypes, HostsTypeOK
    <3> QED BY <2>1, <3>1, <3>2 DEF LedgerStep, Transacts
  <2> QED BY <1>1, <2>1 DEF ReserveStep, registryVars, LedgerStep
<1>2. CASE ReleaseStep(p) \/ InitiateStep(p) \/ FinishPaymentStatus(p)
  <2>1. ASSUME NEW f \in TrackedBy(HashOf(p)),
               \/ MarkPaymentInitiated(f, now) \/ MarkPaymentPending(f, now)
               \/ MarkPaymentFailed(f, now) \/ ReleaseUninitiatedPayment(f, now)
               \/ MarkPaymentSucceeded(f, SettledAmount(HashOf(p)), SettledFee, now)
        PROVE  LedgerStep
    BY <2>1 DEF TrackedBy, LedgerStep, Transacts
  <2>2. CASE UNCHANGED <<registryVars, attempts>>
    BY <2>2 DEF registryVars, LedgerStep
  <2> QED BY <1>2, <2>1, <2>2 DEF ReleaseStep, InitiateStep, FinishPaymentStatus
<1>3. CASE ~(ReserveStep(p) \/ ReleaseStep(p) \/ InitiateStep(p)
             \/ FinishPaymentStatus(p))
  <2>1. UNCHANGED <<connections, used, attempts>>
    BY <1>3 DEF StepOf, LoadConnection, Execute, ClaimStep, CheckFreshness, Dispatch,
       EnsureClaimConnectionActive, ExecuteRequest, LoadPaymentAttempt, QuotePayment,
       PaymentStatusStep, StartPayment, AwaitPayment, RecordNwcSentPayment, Commit,
       RepublishTerminal, PublishEvent, RejectClaim, RetryClaim, Fault, Interrupted,
       ResponseRefused, LedgerBusy, Crash, ledgerVars, registryVars
  <2> QED BY <2>1 DEF LedgerStep
<1> QED BY <1>1, <1>2, <1>3

LEMMA EngineTransacts ==
    ASSUME EngineTypes, [EngineNext]_engineVars
    PROVE  LedgerStep
<1>1. CASE ApplyStatus
  <2>1. ASSUME NEW f \in TrackedBy(reconciler.seen.hash),
               \/ ReleaseUninitiatedPayment(f, now) \/ MarkPaymentFailed(f, now)
               \/ MarkPaymentSucceeded(f, SettledAmount(reconciler.seen.hash),
                                       SettledFee, now)
        PROVE  LedgerStep
    BY <2>1 DEF TrackedBy, LedgerStep, Transacts
  <2>2. CASE UNCHANGED <<registryVars, attempts>>
    BY <2>2 DEF registryVars, LedgerStep
  <2> QED BY <1>1, <2>1, <2>2 DEF ApplyStatus
<1>2. CASE LoadUnresolved \/ QueryStatus \/ StopReconciler
  BY <1>2 DEF LoadUnresolved, QueryStatus, StopReconciler, ledgerVars, registryVars,
     LedgerStep
<1>3. CASE \/ (\E h \in Hashes : WalletSettles(h)) \/ PayOutside \/ Second
           \/ LeaveFreshnessWindow \/ PruneTerminalRows \/ UNCHANGED engineVars
  BY <1>3 DEF WalletSettles, PayOutside, Second, LeaveFreshnessWindow, PruneTerminalRows,
     engineVars, ledgerVars, registryVars, LedgerStep
<1>4. CASE Revoke
  BY <1>4 DEF LedgerStep
<1> QED BY <1>1, <1>2, <1>3, <1>4, EngineSteps, CallTransacts DEF Reconcile

LEMMA RevokeKeepsPeriods ==
    ASSUME Revoke PROVE used' = used /\ attempts' = attempts
BY DEF Revoke, TombstoneConnection

LEMMA EngineCovered ==
    ASSUME EngineTypes, [EngineNext]_engineVars
    PROVE  CoveredStep
<1>0. /\ AccountingTypeOK /\ AccountingTypeOK' /\ now \in Time /\ SettledFee \in Nat
      /\ cast \in DOMAIN Casts /\ RowsOK
  BY EngineTypesStep, EngineAssumption, RegistryAssumption
  DEF EngineTypes, EstablishedOnce, Time, HostsTypeOK
<1>1. CASE used' = used
  <2>1. \A c \in ConnectionIds, t \in Time : used[c][t] \in Nat
    BY <1>0 DEF AccountingTypeOK, RegistryTypeOK
  <2> QED BY <1>0, <1>1, <2>1, NoExcuseNeeded
<1>2. ASSUME NEW f \in EventIds, Transacts(f), used' # used
      PROVE  CoveredStep
  <2>1. CASE ReleaseUninitiatedPayment(f, now) \/ MarkPaymentFailed(f, now)
    BY <1>0, <1>2, <2>1, RefundCovered
  <2>2. CASE MarkPaymentSucceeded(f, SettledAmount(attempts[f].hash), SettledFee, now)
    <3>1. attempts[f].hash = RequestOf[f].hash
      BY <1>0, <2>2 DEF MarkPaymentSucceeded, SucceededOk, RowsOK, RowOK
    <3>2. SettledAmount(attempts[f].hash) \in Nat
      BY <1>0, <3>1, SettledAmountOf
    <3> QED BY <1>0, <1>2, <2>2, <3>2, SettlementCovered
  <2>3. ASSUME NEW h \in Hashes, NEW c \in ConnectionIds, NEW r \in Nat,
               NEW principal \in Nat, ReservePayment(f, h, c, r, principal, now)
        PROVE  CoveredStep
    BY <1>0, <2>3, ReserveCovered
  <2>4. ~(MarkPaymentInitiated(f, now) \/ MarkPaymentPending(f, now))
    BY <1>2 DEF MarkPaymentInitiated, MarkPaymentPending, registryVars
  <2> QED BY <1>2, <2>1, <2>2, <2>3, <2>4 DEF Transacts
<1> QED BY <1>1, <1>2, EngineTransacts, RevokeKeepsPeriods DEF LedgerStep

(***************************************************************************)
(* In every engine, with outside payers, suspended processes and           *)
(* settlements that do not decode, a step of a call or of the reconciler   *)
(* takes a budget period past its limit only when it records a settlement  *)
(* the reservation did not cover.                                          *)
(***************************************************************************)
THEOREM EngineExceedsOnlyBySettlement == EngineSafety => LimitExceededOnlyBySettlement
<1>1. EngineTypes /\ [EngineNext]_engineVars => [CoveredStep]_accountingVars
  BY EngineCovered
<1>2. EngineInv => EngineTypes
  BY DEF EngineInv
<1> QED BY <1>1, <1>2, EngineInvHolds, PTL DEF EngineSafety, LimitExceededOnlyBySettlement

\* The wallet keeps the fee limit it is given with a payment.
FeesKept ==
    \A c \in ConnectionIds : CountFees[c] => MsatToSatCeil(SettledFee) <= MaximumFee[c]

\* Where the wallet keeps it, a settlement charges what was reserved at most.
LEMMA SettlesWithinReserve ==
    ASSUME EngineTypes, [EngineNext]_engineVars, FeesKept, NEW e \in EventIds, Exists(e),
           attempts[e].state # "succeeded", attempts'[e].state = "succeeded"
    PROVE  ~attempts'[e].exceeded
<1>0. /\ AccountingTypeOK /\ now \in Time /\ now = 0 /\ SettledFee \in Nat
      /\ cast \in DOMAIN Casts /\ RowsOK
      /\ attempts \in [EventIds -> AttemptRow \cup {NoAttempt}]
  BY EngineAssumption, RegistryAssumption
  DEF EngineTypes, EstablishedOnce, Time, HostsTypeOK, AccountingTypeOK
<1>1. PICK f \in EventIds : Transacts(f)
  BY EngineTransacts, RevokeKeepsPeriods DEF LedgerStep
<1>2. CASE MarkPaymentSucceeded(f, SettledAmount(attempts[f].hash), SettledFee, now)
  <2> DEFINE amount == SettledAmount(attempts[f].hash)
             row == attempts[f]
  <2>1. RowOK(RequestOf, LegacyEvents, f, row)
    BY <1>0, <1>2 DEF MarkPaymentSucceeded, SucceededOk, RowsOK
  <2>2. amount = 1000 * row.principal /\ amount \in Nat /\ row.principal \in Nat
    BY <1>0, <2>1, SettledAmountOf, RequestTypes DEF RowOK
  <2>3. row.conn \in ConnectionIds /\ row.fee_reserve = MaximumFee[row.conn]
    BY <1>0, <2>1, RequestTypes DEF RowOK
  <2>4. attempts[f].state # "succeeded" /\ e = f
    BY <1>0, <1>2, <2>2, SucceededCases
  <2>5. attempts'[f].exceeded = (\/ MsatToSatCeil(amount) > row.principal
                                 \/ CountFees[row.conn]
                                    /\ MsatToSatCeil(SettledFee) > row.fee_reserve)
    <3> HIDE DEF amount
    <3>1. MarkPaymentSucceeded(f, amount, SettledFee, now)
      BY <1>2 DEF amount
    <3>2. /\ AccountingTypeOK /\ amount \in Nat /\ SettledFee \in Nat /\ now \in Time
          /\ attempts[f].state # "succeeded"
      BY <1>0, <2>2, <2>4
    <3> QED BY <3>1, <3>2, SettlementStored
  <2> HIDE DEF amount
  <2>6. MsatToSatCeil(amount) = row.principal
    BY <2>2 DEF MsatToSatCeil
  <2>7. CountFees[row.conn] => MsatToSatCeil(SettledFee) <= row.fee_reserve
    BY <2>3 DEF FeesKept
  <2>8. MsatToSatCeil(SettledFee) \in Nat /\ MaximumFee[row.conn] \in Nat
    BY <1>0, <2>3, CeilNat, RegistryAssumption
  <2> QED BY <2>2, <2>3, <2>4, <2>5, <2>6, <2>7, <2>8
<1>3. CASE ~MarkPaymentSucceeded(f, SettledAmount(attempts[f].hash), SettledFee, now)
  <2>1. CASE \/ MarkPaymentInitiated(f, now) \/ MarkPaymentPending(f, now)
             \/ MarkPaymentFailed(f, now)
    <3>1. RowMarked(f) /\ (attempts'[f].state = "succeeded" => attempts[f].state = "succeeded")
      BY <1>0, <2>1, InitiatedMarks, PendingMarks, FailedMarks
    <3> QED BY <1>0, <3>1 DEF RowMarked
  <2>2. CASE ReleaseUninitiatedPayment(f, now)
    BY <1>0, <2>2 DEF ReleaseUninitiatedPayment, NoAttempt
  <2>3. CASE \E h \in Hashes, c \in ConnectionIds, r \in Nat, principal \in Nat :
                 ReservePayment(f, h, c, r, principal, now)
    BY <1>0, <2>3 DEF ReservePayment
  <2> QED BY <1>1, <1>3, <2>1, <2>2, <2>3 DEF Transacts
<1> QED BY <1>2, <1>3

\* In an orderly engine no refunded payment is settled later.
LEMMA RefundsAreFinal ==
    ASSUME EngineInv, [EngineNext]_engineVars, Orderly, NEW e \in EventIds,
           attempts[e].state = "failed"
    PROVE  attempts'[e].state # "succeeded"
<1> SUFFICES ASSUME attempts'[e].state = "succeeded" PROVE FALSE
  OBVIOUS
<1>0. /\ EngineTypes /\ OutcomeRows /\ CallsTrue /\ PassTrue /\ RowsOK /\ Inside
      /\ AttributedInv /\ WalletKeys /\ Exists(e) /\ RequestOf[e].hash \in Hashes
  BY OrderlyParts DEF Exists
<1>1. ~Paid(e)
  BY <1>0 DEF OutcomeRows
<1>2. ASSUME NEW p \in Processes, StepOf(p) PROVE FALSE
  <2>1. Settles(p) /\ e = proc[p].event
    BY <1>2, CallStillTrue
  <2>2. proc[p].pc = "finish" /\ proc[p].status = "succeeded"
    BY <2>1 DEF Settles
  <2>3. wallet[HashOf(p)].status = "succeeded" /\ wallet[HashOf(p)].key = e
    BY <1>0, <2>1, <2>2 DEF CallsTrue, CallTrue, PayPcs
  <2>4. HashOf(p) = RequestOf[e].hash
    BY <2>1 DEF HashOf, Request
  <2> QED BY <1>1, <2>3, <2>4 DEF Paid, Underway
<1>3. ASSUME Reconcile \/ StopReconciler PROVE FALSE
  <2>1. PassRow(e)
    BY <1>0, <1>3, PassRowOnly
  <2>2. wallet[RequestOf[e].hash].status = "succeeded"
    BY <1>0, <2>1 DEF PassRow, PassTrue, RowsOK, RowOK
  <2>3. wallet[RequestOf[e].hash].key # Nobody
    BY <1>0, <2>2 DEF WalletKeys
  <2> QED BY <1>0, <1>1, <2>2, <2>3, PaidByRow DEF Paid, Underway
<1>4. CASE \/ (\E h \in Hashes : WalletSettles(h)) \/ PayOutside \/ Second
           \/ LeaveFreshnessWindow \/ PruneTerminalRows \/ Revoke \/ UNCHANGED engineVars
  BY <1>4 DEF WalletSettles, PayOutside, Second, LeaveFreshnessWindow, PruneTerminalRows,
     Revoke, engineVars, ledgerVars
<1> QED BY <1>2, <1>3, <1>4, EngineSteps

(***************************************************************************)
(* In an orderly engine whose wallet keeps the fee limit, a connection     *)
(* whose budget holds what its earlier processes left there never spends   *)
(* more than its limit: no interleaving of calls, refunds, retries, late   *)
(* settlements and reconciliation does it.  Outside payers, suspension and *)
(* settlements that do not decode are excluded because each lets a         *)
(* refunded payment settle after its budget was given to another.          *)
(***************************************************************************)
THEOREM BudgetIsKept ==
    EngineSafety /\ WithinBudget => [](Orderly /\ FeesKept => WithinBudget)
<1> DEFINE Kept1 == Orderly /\ FeesKept => WithinBudget
<1>1. EngineInv /\ Kept1 /\ [EngineNext]_engineVars => Kept1'
  <2> SUFFICES ASSUME EngineInv, [EngineNext]_engineVars, Kept1, Orderly', FeesKept,
                      NEW c \in ConnectionIds, NEW t \in Time
               PROVE  used'[c][t] <= Limit[c]
    BY DEF WithinBudget, FeesKept
  <2>1. EngineTypes /\ EngineTypes'
    BY EngineTypesStep DEF EngineInv
  <2>2. Orderly
    <3>1. cast' = cast
      BY <2>1, EngineSteps, StepOfCall DEF Reconcile, StopReconciler, WalletSettles,
         PayOutside, Second, LeaveFreshnessWindow, PruneTerminalRows, Revoke, engineVars,
         hostVars
    <3> QED BY <3>1 DEF Orderly, Inside, Cast
  <2>3. used[c][t] <= Limit[c]
    BY <2>2 DEF WithinBudget
  <2>4. used[c][t] \in Nat /\ used'[c][t] \in Nat /\ Limit[c] \in Nat
    BY <2>1, RegistryAssumption DEF EngineTypes, AccountingTypeOK, RegistryTypeOK
  <2>5. ASSUME NEW e \in EventIds, Uncovered(e) PROVE FALSE
    BY <2>1, <2>2, <2>5, SettlesWithinReserve, RefundsAreFinal DEF Uncovered
  <2>6. CoveredStep
    BY <2>1, EngineCovered
  <2> QED BY <2>3, <2>4, <2>5, <2>6 DEF CoveredStep
<1>2. WithinBudget => Kept1
  OBVIOUS
<1> QED BY <1>1, <1>2, EngineInvHolds, PTL DEF EngineSafety

-----------------------------------------------------------------------------
(* The promises of the payment tables, kept through the engine.            *)

LEMMA TransactsIsTransaction ==
    ASSUME EngineTypes, NEW f \in EventIds, Transacts(f)
    PROVE  now \in Time /\ Transaction(f, now)
<1>0. now \in Time /\ SettledFee \in Nat /\ cast \in DOMAIN Casts /\ RowsOK
  BY EngineAssumption, RegistryAssumption DEF EngineTypes, EstablishedOnce, Time, HostsTypeOK
<1>1. CASE MarkPaymentSucceeded(f, SettledAmount(attempts[f].hash), SettledFee, now)
  <2>1. attempts[f].hash = RequestOf[f].hash
    BY <1>0, <1>1 DEF MarkPaymentSucceeded, SucceededOk, RowsOK, RowOK
  <2>2. SettledAmount(attempts[f].hash) \in Nat
    BY <1>0, <2>1, SettledAmountOf
  <2> QED BY <1>0, <1>1, <2>2 DEF Transaction
<1> QED BY <1>0, <1>1 DEF Transacts, Transaction

LEMMA EngineKeepsBudget ==
    ASSUME EngineTypes, BudgetInv, [EngineNext]_engineVars
    PROVE  BudgetInv'
<1>0. AccountingTypeOK /\ now \in Time
  BY RegistryAssumption DEF EngineTypes, EstablishedOnce, Time
<1>1. CASE Revoke
  <2>1. PICK c \in ConnectionIds : TombstoneConnection(c, connections[c].revision, now)
    BY <1>1 DEF Revoke
  <2> QED BY <1>0, <1>1, <2>1, RevokeKeepsPeriods, BudgetTombstone
<1> QED BY <1>0, <1>1, EngineTransacts, TransactsIsTransaction, TransactionKeepsBudget,
           BudgetUnchanged DEF LedgerStep

LEMMA EngineBudgetInit == EngineInit => BudgetInv
<1> SUFFICES ASSUME EngineInit PROVE BudgetInv
  OBVIOUS
<1>0. EngineTypes /\ AccountingTypeOK /\ cast \in DOMAIN Casts
  BY EngineTypesInit DEF EngineTypes, EngineInit
<1>1. \A c \in ConnectionIds :
        connections[c].status = "active" /\ connections[c].imported = 0
  BY DEF EngineInit, AbsentConnection
<1>2. \A e \in EventIds :
        attempts[e] = IF e \in LegacyEvents \cup LeftEvents THEN LeftAttempt(e) ELSE NoAttempt
  BY DEF EngineInit
<1>3. ASSUME NEW c \in ConnectionIds, NEW t \in Time
      PROVE  used[c][t] = Imported(c, t) + SumFunctionOnSet(Debits(c, t), EventIds)
  <2>1. Imported(c, t) = 0
    BY <1>1 DEF Imported
  <2>2. Debits(c, t) \in [EventIds -> Nat] /\ IsFiniteSet(EventIds)
    BY <1>0, DebitsNat, AccountingAssumption
  <2>3. ASSUME NEW e \in LegacyEvents \cup LeftEvents
        PROVE  /\ LeftAttempt(e).conn = RequestOf[e].conn /\ LeftAttempt(e).period = 0
               /\ LeftAttempt(e).state = "pending"
               /\ Contribution(LeftAttempt(e)) = Reserved(LeftAttempt(e))
    BY DEF LeftAttempt, Contribution
  <2>4. CASE t # 0
    <3>1. \A e \in EventIds : Debits(c, t)[e] = 0
      BY <1>2, <2>3, <2>4 DEF Debits, Exists, NoAttempt
    <3>2. SumFunctionOnSet(Debits(c, t), EventIds) = 0
      BY <2>2, <3>1, SumOfNaturals
    <3>3. used[c][t] = 0
      BY <2>4 DEF EngineInit
    <3> QED BY <2>1, <3>2, <3>3
  <2>5. CASE t = 0
    <3>1. Debits(c, t) = [e \in EventIds |->
              IF e \in LegacyEvents \cup LeftEvents /\ RequestOf[e].conn = c
              THEN Reserved(LeftAttempt(e)) ELSE 0]
      BY <1>2, <2>3, <2>5 DEF Debits, Exists, NoAttempt
    <3>2. LeftDebits(c) = SumFunctionOnSet(Debits(c, t), EventIds)
      BY <3>1 DEF LeftDebits
    <3>3. used[c][t] = LeftDebits(c) /\ LeftDebits(c) \in Nat
      BY <1>0, <2>5, LeftDebitsNat DEF EngineInit
    <3> QED BY <2>1, <3>2, <3>3
  <2> QED BY <2>4, <2>5
<1>4. BudgetIsSumOfDebits
  BY <1>3 DEF BudgetIsSumOfDebits
<1>5. AbsentHoldsNothing
  BY <1>1 DEF AbsentHoldsNothing
<1> QED BY <1>4, <1>5 DEF BudgetInv

(***************************************************************************)
(* In every engine, whatever calls, crashes, reconciliation passes and     *)
(* revocations interleave, what a period counts is the sum of the debits   *)
(* of its attempts, those earlier processes left included: no crash point  *)
(* of execute or reconcile loses a debit or counts one twice.              *)
(***************************************************************************)
THEOREM EngineBudgetIsSumOfDebits == EngineSafety => []BudgetIsSumOfDebits
<1>1. BudgetInv => BudgetIsSumOfDebits
  BY DEF BudgetInv
<1>2. EngineInv => EngineTypes
  BY DEF EngineInv
<1> QED BY <1>1, <1>2, EngineBudgetInit, EngineKeepsBudget, EngineInvHolds, PTL
        DEF EngineSafety

LEMMA EngineMovesPayments ==
    ASSUME EngineTypes, [EngineNext]_engineVars
    PROVE  [Lifecycle!Next]_<<phases, holds>>
<1>0. AccountingTypeOK
  BY DEF EngineTypes
<1>1. CASE attempts' = attempts
  BY <1>1 DEF phases, holds
<1> QED BY <1>0, <1>1, EngineTransacts, RevokeKeepsPeriods, TransactsIsTransaction,
           TransactionMovesPayment DEF LedgerStep

(***************************************************************************)
(* A payment the engine handles goes through the abstract life cycle of    *)
(* PaymentLifecycle, from wherever an earlier process left it: two calls,  *)
(* a replay and the reconciler working on one payment never refund it      *)
(* twice, refund it after it settled, or commit it without a debit.        *)
(***************************************************************************)
THEOREM EngineFollowsLifecycle == EngineSafety => [][Lifecycle!Next]_Lifecycle!lifecycleVars
<1>1. EngineTypes /\ [EngineNext]_engineVars => [Lifecycle!Next]_Lifecycle!lifecycleVars
  BY EngineMovesPayments DEF Lifecycle!lifecycleVars, phases, holds
<1>2. EngineInv => EngineTypes
  BY DEF EngineInv
<1> QED BY <1>1, <1>2, EngineInvHolds, PTL DEF EngineSafety

-----------------------------------------------------------------------------
(* The promise of the event table, kept through the engine.                *)

LEMMA TableStutters ==
    ASSUME UNCHANGED <<events, lease>>
    PROVE  UNCHANGED <<ownerOf, outcomeOf, acceptedOf>>
<1>1. \A e \in EventIds : Owner(e)' = Owner(e)
  BY OwnerIsOwnerIn
<1> QED BY <1>1 DEF ownerOf, outcomeOf, acceptedOf

LEMMA CallMovesEvent ==
    ASSUME EngineTypes, ClaimsInv, NEW p \in Processes, StepOf(p)
    PROVE  [Claims!Next]_<<ownerOf, outcomeOf, acceptedOf>>
<1>0. CallStep(p) /\ ClaimsTypeOK
  BY StepOfCall DEF EngineTypes
<1>1. CASE UNCHANGED <<events, lease>>
  BY <1>1, TableStutters
<1>2. CASE Acquires(p)
  <2>1. /\ proc[p].pc = "claim"
        /\ \E d \in Leases :
              ClaimEvent(p, proc[p].event, proc[p].conn, proc[p].revision, now, d)
    BY <1>2 DEF Acquires
  <2>2. proc[p].event \in EventIds /\ proc[p] # Idle
    BY <2>1, RunningCall DEF Idle
  <2>3. ~Holds(p)
    BY <2>1, <2>2 DEF EngineTypes, CallsTypeOK, WorkPcs, EarlyPcs, PayPcs
  <2>4. Claims!Acquire(proc[p].event, p)
    BY <2>1, <2>2, <2>3, ClaimEventAcquires
  <2> QED BY <2>2, <2>4 DEF Claims!Next
<1>3. ASSUME OwnsLease(p, now)
      PROVE  \E e \in EventIds : e = lease[p].event
  BY <1>3, OwnerWrites
<1>4. CASE Accepts(p)
  <2>1. AcceptEventFreshness(p, now) /\ OwnsLease(p, now)
    BY <1>4 DEF Accepts, AcceptEventFreshness
  <2>2. PICK e \in EventIds : e = lease[p].event
    BY <1>3, <2>1
  <2>3. Claims!Accept(e)
    BY <2>1, <2>2, AcceptAccepts
  <2> QED BY <2>3 DEF Claims!Next
<1>5. CASE Commits(p) \/ Rejects(p)
  <2>1. PICK kind \in {"completed", "rejected", "failed"},
             response \in {"none", proc[p].response} :
          CompleteEvent(p, kind, response, now)
    BY <1>5 DEF Commits, Rejects, CompleteEventForActiveConnection
  <2>2. PICK e \in EventIds : e = lease[p].event
    BY <1>3, <2>1 DEF CompleteEvent
  <2>3. Claims!Decide(e)
    BY <2>1, <2>2, CompleteDecides
  <2> QED BY <2>3 DEF Claims!Next
<1>6. CASE Retries(p)
  <2>1. RetryLater(p, now) /\ OwnsLease(p, now)
    BY <1>6 DEF Retries, RetryLater
  <2>2. PICK e \in EventIds : e = lease[p].event
    BY <1>3, <2>1
  <2>3. Claims!Abandon(e)
    BY <2>1, <2>2, RetryAbandons
  <2> QED BY <2>3 DEF Claims!Next
<1>7. CASE Ends(p)
  <2>1. events' = events /\ lease' = [lease EXCEPT ![p] = NoLease]
    BY <1>7 DEF Ends
  <2>2. CASE Holds(p)
    <3>1. DropLease(p)
      BY <2>1, <2>2 DEF DropLease
    <3> QED BY <3>1, DropAbandons DEF Claims!Next
  <2>3. CASE ~Holds(p)
    <3>1. lease' = lease
      BY <1>0, <2>1, <2>3 DEF Holds, ClaimsTypeOK
    <3> QED BY <1>1, <2>1, <3>1
  <2> QED BY <2>2, <2>3
<1> QED BY <1>0, <1>1, <1>2, <1>4, <1>5, <1>6, <1>7
        DEF CallStep, Inner, Begins, Replays, Sends, Publishes

\* Time moves no claim from one owner to another and decides nothing.
LEMMA SecondStutters ==
    ASSUME EngineTypes, Second
    PROVE  UNCHANGED <<ownerOf, outcomeOf, acceptedOf>>
<1>0. /\ events \in [EventIds -> EventRow \cup {NoEvent}] /\ NoEvent \notin EventRow
      /\ NoLease \notin LeaseRecord
  BY ClaimsAssumption DEF EngineTypes, ClaimsTypeOK, EventRow, NoEvent, NoLease, LeaseRecord
<1>1. \A e \in EventIds :
        /\ events'[e] = NoEvent <=> events[e] = NoEvent
        /\ events'[e].state = events[e].state
        /\ events'[e].token = events[e].token
  BY <1>0, SecondMoves
<1>2. \A e \in EventIds : events'[e].kind = events[e].kind
  <2>1. \A e \in EventIds : events[e] # NoEvent =>
          [events[e] EXCEPT !.available_at = Closer(@)].kind = events[e].kind
    BY <1>0 DEF EventRow
  <2> QED BY <1>0, <2>1 DEF Second
<1>3. \A e \in EventIds : RowAccepted(events'[e]) = RowAccepted(events[e])
  BY <1>0, SecondMoves DEF RowAccepted
<1>4. \A e \in EventIds, p \in Processes :
        Owning(events', lease', p, e) <=> Owning(events, lease, p, e)
  BY <1>0, <1>1, SecondMoves DEF Owning, Holds
<1>5. \A e \in EventIds : Owner(e)' = Owner(e)
  BY <1>4, SameOwner, OwnerIsOwnerIn
<1> QED BY <1>1, <1>2, <1>3, <1>5 DEF ownerOf, outcomeOf, acceptedOf, RowAccepted

LEMMA EngineMovesEvents ==
    ASSUME EngineTypes, ClaimsInv, [EngineNext]_engineVars
    PROVE  [Claims!Next]_<<ownerOf, outcomeOf, acceptedOf>>
<1>1. CASE \/ (\E h \in Hashes : WalletSettles(h)) \/ PayOutside \/ LeaveFreshnessWindow
           \/ Revoke \/ Reconcile \/ StopReconciler \/ UNCHANGED engineVars
  <2>1. UNCHANGED <<events, lease>>
    BY <1>1 DEF WalletSettles, PayOutside, LeaveFreshnessWindow, Revoke, Reconcile,
       StopReconciler, LoadUnresolved, QueryStatus, ApplyStatus, ledgerVars, claimVars,
       engineVars
  <2> QED BY <2>1, TableStutters
<1>2. CASE PruneTerminalRows
  <2>1. PICK e \in stale : events[e].state = "terminal"
                           /\ events' = [events EXCEPT ![e] = NoEvent]
    BY <1>2 DEF PruneTerminalRows
  <2>2. e \in EventIds /\ lease' = lease
    BY <1>2 DEF PruneTerminalRows, EngineTypes, HostsTypeOK
  <2>3. Claims!Forget(e)
    BY <2>1, <2>2, PruneForgets
  <2> QED BY <2>2, <2>3 DEF Claims!Next
<1> QED BY <1>1, <1>2, EngineSteps, CallMovesEvent, SecondStutters

LEMMA EngineClaims ==
    ASSUME EngineInv PROVE EngineTypes /\ ClaimsInv
BY DEF EngineInv, EngineTypes, AnswersInv, ClaimsHold, ClaimsInv

(***************************************************************************)
(* Under the engine no two processes hold an unexpired lease on one event, *)
(* with calls that crash, are suspended or retry in any order.             *)
(***************************************************************************)
THEOREM EngineLeasesAreExclusive == EngineSafety => []ExclusiveLease
<1>1. EngineInv => ExclusiveLease
  BY EngineClaims, LiveLeaseIsSole
<1> QED BY <1>1, EngineInvHolds, PTL

(***************************************************************************)
(* The event rows under the engine implement EventLifecycle: whatever its  *)
(* calls, crashes, expired leases, clock and pruning do, an event has one  *)
(* owner at a time, only its owner decides the outcome, and a decided      *)
(* outcome stays until it is pruned.                                       *)
(***************************************************************************)
THEOREM EngineImplementsEventLifecycle == EngineSafety => ImplementsEventLifecycle
<1>1. EngineInit => Claims!Init
  <2> SUFFICES ASSUME EngineInit PROVE Claims!Init
    OBVIOUS
  <2>1. ASSUME NEW e \in EventIds PROVE Owner(e) = Nobody
    <3>1. \A p \in Processes : ~Owning(events, lease, p, e)
      BY DEF EngineInit, Owning
    <3>2. OwnerIn(events, lease, e) = Nobody
      BY <3>1, NoOwner
    <3> QED BY <3>2, OwnerIsOwnerIn
  <2>2. \A e \in EventIds : events[e] = NoEvent /\ events[e].state # "terminal"
    BY DEF EngineInit, NoEvent
  <2> QED BY <2>1, <2>2 DEF Claims!Init
<1>2. EngineInv /\ [EngineNext]_engineVars => [Claims!Next]_Claims!lifecycleVars
  <2> SUFFICES ASSUME EngineInv, [EngineNext]_engineVars
               PROVE  [Claims!Next]_Claims!lifecycleVars
    OBVIOUS
  <2>1. EngineTypes /\ ClaimsInv
    BY EngineClaims
  <2> QED BY <2>1, EngineMovesEvents
          DEF Claims!lifecycleVars, ownerOf, outcomeOf, acceptedOf
<1> QED BY <1>1, <1>2, EngineInvHolds, PTL
        DEF EngineSafety, ImplementsEventLifecycle, Claims!Spec
=============================================================================
