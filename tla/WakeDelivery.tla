---------------------------- MODULE WakeDelivery ----------------------------
(***************************************************************************)
(* How a push becomes a handled wake: the notification extension's         *)
(* coordinator, NwcMobile::handle_wake around the engine and the           *)
(* notification worker, the shared wake inbox, the foreground coordinator  *)
(* of the application, and the wake server's settlement monitor.           *)
(*                                                                         *)
(* The extension and the application are processes of their own; the       *)
(* application runs one task per event.  They meet in the ledger (event,   *)
(* lease, invoice), in the inbox and at the wake server.  What the engine  *)
(* does between a claim and its answer is WakeEngine's subject and one     *)
(* step here; how a notification is published is InvoiceNotifications'.    *)
(*                                                                         *)
(* What the wallet's own code does is external and follows the             *)
(* integration guide: the extension enqueues what it could not finish, the *)
(* application drains the inbox and removes what the typed result permits. *)
(***************************************************************************)
EXTENDS Integers, Sequences, FiniteSets

CONSTANTS
    EventIds,               \* request events
    Invoices,               \* the ones asking make_invoice
    MaxPendingRequests,     \* NwcWakeFileInbox::maxPendingRequests
    MaximumRetryAttempts,   \* ForegroundWakePolicy::maximum_retry_attempts
    Casts                   \* the instances checked

ASSUME DeliveryAssumption ==
    /\ Invoices \subseteq EventIds
    /\ MaxPendingRequests \in Nat \ {0} /\ MaximumRetryAttempts \in Nat \ {0}
    \* No event is named like the extension or a state of a lease.
    /\ {"ext", "none", "orphan"} \cap EventIds = {}

VARIABLES
    cast,           \* bounds of this behaviour: pushes, faults, cuts, refused events
    faults, cuts,   \* failures and interruptions so far
    pushes,         \* [EventIds -> request pushes delivered so far]
    nse,            \* the extension's coordinator and its notification
    run,            \* [{"ext"} \cup EventIds -> the handle_wake under way]
    inbox,          \* the shared queue file
    notices,        \* wakes only a notification still carries
    app,            \* whether the application runs in the foreground
    in_flight,      \* ForegroundWakeCoordinator::in_flight
    retry_attempts, \* ForegroundWakeCoordinator::retry_attempts
    event,          \* [EventIds -> "open" or "terminal"], the event ledger
    lease,          \* [EventIds -> the run holding the claim, "orphan" or "none"]
    invoice,        \* [EventIds -> "none", "pending" or "completed"]
    paid,           \* invoices paid
    server,         \* [EventIds -> the wake server's settlement monitor]
    closed          \* [EventIds -> ways its wake was given up] (ghost)

hostVars == <<nse, inbox, notices, app, in_flight, retry_attempts, closed>>
ledgerVars == <<event, lease, invoice>>
deliveryVars ==
    <<cast, faults, cuts, pushes, run, hostVars, ledgerVars, paid, server>>

Runs == {"ext"} \cup EventIds
Wake(e, settlement) == [event |-> e, settlement |-> settlement]
NoRun == [pc |-> "idle"]
NoNotification == [state |-> "none"]

Failing == faults < cast.faults /\ faults' = faults + 1
Fine == faults' = faults
Cutting == cuts < cast.cuts /\ cuts' = cuts + 1
-----------------------------------------------------------------------------
(* NwcMobile::handle_wake, by any process. *)

\* The run of a wake from its start.
Begin(wake) ==
    [pc |-> "monitor", wake |-> wake, cancelled |-> FALSE, seen |-> "none",
     result |-> "none"]

At(r, pc) == run[r].pc = pc
EventOf(r) == run[r].wake.event
Goto(r, pc) == run' = [run EXCEPT ![r].pc = pc]
Return(r, pc, result) ==
    run' = [run EXCEPT ![r].pc = pc, ![r].result = result]

\* A settlement check of an event without a monitor is rejected.
InvoiceMonitor(r) ==
    /\ At(r, "monitor")
    /\ \/ Failing /\ Return(r, "result", "queued")
       \/ /\ Fine
          /\ IF run[r].wake.settlement /\ invoice[EventOf(r)] = "none"
               THEN Return(r, "result", "rejected")
               ELSE Goto(r, "node")
    /\ UNCHANGED <<cast, cuts, pushes, hostVars, ledgerVars, paid, server>>

\* The node may be unavailable, or the window used up.
OpenNode(r) ==
    /\ At(r, "node")
    /\ \/ Failing /\ Return(r, "result", "queued")
       \/ Fine /\ Goto(r, IF run[r].wake.settlement THEN "settle" ELSE "claim")
    /\ UNCHANGED <<cast, cuts, pushes, hostVars, ledgerVars, paid, server>>

\* The engine up to its claim.  A terminal event is published again; an event
\* claimed elsewhere is somebody else's.
ClaimEvent(r) ==
    LET e == EventOf(r)
        Free == event[e] = "open" /\ lease[e] = "none"
    IN  /\ At(r, "claim")
        /\ \/ e \in cast.refused /\ Fine /\ Return(r, "notify", "rejected") /\ UNCHANGED lease
           \/ /\ e \notin cast.refused /\ event[e] = "terminal"
              /\ \/ Fine /\ Return(r, "notify", "completed")
                 \/ Failing /\ Return(r, "notify", "retry")
              /\ UNCHANGED lease
           \/ /\ e \notin cast.refused /\ event[e] = "open" /\ lease[e] # "none"
              /\ Fine /\ Return(r, "notify", "processed") /\ UNCHANGED lease
           \/ /\ e \notin cast.refused /\ Free
              /\ Fine /\ lease' = [lease EXCEPT ![e] = r] /\ Goto(r, "work")
        /\ UNCHANGED <<cast, cuts, pushes, hostVars, event, invoice, paid, server>>

\* make_invoice records its invoice before it answers.
RecordInvoice(r) ==
    LET e == EventOf(r)
    IN  /\ At(r, "work") /\ e \in Invoices /\ invoice[e] = "none"
        /\ invoice' = [invoice EXCEPT ![e] = "pending"]
        /\ UNCHANGED <<cast, faults, cuts, pushes, run, hostVars, event, lease, paid, server>>

\* The answer is published, or the claim is given back: retry_claim,
\* release_to_application.
Answer(r) ==
    LET e == EventOf(r)
    IN  /\ At(r, "work") /\ (e \in Invoices => invoice[e] # "none")
        /\ \/ /\ Fine /\ event' = [event EXCEPT ![e] = "terminal"]
              /\ Return(r, "notify", "completed")
           \/ /\ Failing /\ UNCHANGED event
              /\ \E result \in {"retry", "queued"} : Return(r, "notify", result)
        /\ lease' = [lease EXCEPT ![e] = "none"]
        /\ UNCHANGED <<cast, cuts, pushes, hostVars, invoice, paid, server>>

\* Invoices a pass of the notification worker completes.
Payable == {e \in EventIds : invoice[e] = "pending" /\ e \in paid}
Delivered(es) == [e \in EventIds |-> IF e \in es THEN "completed" ELSE invoice[e]]

\* run_notification_worker: one pass, and while it lingers for the invoice it
\* answered, another after every interval.
RunNotifications(r) ==
    LET e == EventOf(r)
        lingers == e \in Invoices /\ run[r].result = "completed"
    IN  /\ At(r, "notify")
        /\ \/ /\ Fine /\ invoice' = Delivered(Payable)
              /\ Goto(r, IF lingers /\ Payable # {} /\ invoice'[e] = "pending"
                           THEN "notify" ELSE "reload")
           \/ Failing /\ Goto(r, "reload") /\ UNCHANGED invoice
        /\ UNCHANGED <<cast, cuts, pushes, hostVars, event, lease, paid, server>>

\* handle_settlement_wake and settlement_disposition.
HandleSettlementWake(r) ==
    LET e == EventOf(r)
    IN  /\ At(r, "settle")
        /\ \/ /\ Fine /\ invoice' = Delivered(Payable \cap {e})
              /\ Return(r, "reload", IF invoice'[e] = "pending" THEN "retry" ELSE "completed")
           \/ /\ Failing /\ UNCHANGED invoice
              /\ \E result \in {"retry", "queued"} : Return(r, "reload", result)
        /\ UNCHANGED <<cast, cuts, pushes, hostVars, event, lease, paid, server>>

\* Mutant: an invoice already delivered needs no completion hook.
ReloadPending(r) ==
    LET e == EventOf(r)
        done == run[r].wake.settlement /\ invoice[e] = "completed"
    IN  /\ At(r, "reload") /\ Fine
        /\ Return(r, IF invoice[e] # "pending" THEN "result" ELSE "complete",
                  IF done THEN "completed" ELSE run[r].result)
        /\ UNCHANGED <<cast, cuts, pushes, hostVars, ledgerVars, paid, server>>

\* The monitor read again: a delivered settlement is complete however the
\* check itself ended.
ReloadMonitor(r) ==
    LET e == EventOf(r)
        done == run[r].wake.settlement /\ invoice[e] = "completed"
    IN  /\ At(r, "reload")
        /\ \/ Failing /\ Return(r, "result", "queued")
           \/ /\ Fine
              /\ Return(r, IF invoice[e] = "none" THEN "result" ELSE "complete",
                        IF done THEN "completed" ELSE run[r].result)
        /\ UNCHANGED <<cast, cuts, pushes, hostVars, ledgerVars, paid, server>>

\* InvoiceSettlementCompletion reads the monitor once more ...
CompletionReads(r) ==
    /\ At(r, "complete")
    /\ \/ Failing /\ Goto(r, "result")
       \/ /\ Fine
          /\ run' = [run EXCEPT ![r].pc = "post", ![r].seen = invoice[EventOf(r)]]
    /\ UNCHANGED <<cast, cuts, pushes, hostVars, ledgerVars, paid, server>>

\* ... and posts what it read; its failure changes nothing else.
CompletionPosts(r) ==
    LET wanted == IF run[r].seen = "completed" THEN "disabled" ELSE "enabled"
    IN  /\ At(r, "post") /\ Goto(r, "result")
        /\ \/ Fine /\ server' = [server EXCEPT ![EventOf(r)] = wanted]
           \/ Failing /\ UNCHANGED server
        /\ UNCHANGED <<cast, cuts, pushes, hostVars, ledgerVars, paid>>

\* The claims of dropped runs stay until their leases end.
Orphaned(rs) ==
    lease' = [e \in EventIds |-> IF lease[e] \in rs THEN "orphan" ELSE lease[e]]

\* execute_wake's timeout drops the future wherever it waits.
Deadline(r) ==
    /\ run[r].pc \notin {"idle", "result", "finish", "waiting"}
    /\ IF run[r].cancelled THEN cuts' = cuts ELSE Cutting
    /\ Return(r, "result", "queued") /\ Orphaned({r})
    /\ UNCHANGED <<cast, faults, pushes, hostVars, event, invoice, paid, server>>

\* A cancelled wake is queued whatever it achieved.
Disposition(r) == IF run[r].cancelled THEN "queued" ELSE run[r].result

HandleWake(r) ==
    \/ InvoiceMonitor(r) \/ OpenNode(r) \/ ClaimEvent(r) \/ RecordInvoice(r)
    \/ Answer(r) \/ RunNotifications(r) \/ HandleSettlementWake(r)
    \/ ReloadMonitor(r) \/ CompletionReads(r) \/ CompletionPosts(r)
-----------------------------------------------------------------------------
(* The shared inbox. *)

InInbox(e) == {w \in {inbox[i] : i \in 1 .. Len(inbox)} : w.event = e}

\* The entries of other events, in their order.
Without(queue, e) ==
    LET Rest[n \in 0 .. Len(queue)] ==
            IF n = 0 THEN <<>>
            ELSE IF queue[n].event = e THEN Rest[n - 1]
            ELSE Append(Rest[n - 1], queue[n])
    IN  Rest[Len(queue)]

\* One entry per event; the oldest entry gives way at the limit.
Enqueued(queue, wake) ==
    LET requests == Append(Without(queue, wake.event), wake)
    IN  IF Len(requests) > MaxPendingRequests THEN Tail(requests) ELSE requests

\* What an enqueued wake displaces.
Displaced(wake, e) ==
    IF Wake(e, FALSE) \in InInbox(e)
      THEN IF e = wake.event
             THEN IF wake.settlement THEN {"replaced"} ELSE {}
             ELSE IF \E i \in 1 .. Len(Enqueued(inbox, wake)) :
                         Enqueued(inbox, wake)[i].event = e
                    THEN {} ELSE {"evicted"}
      ELSE {}

Enqueue(wake) ==
    /\ inbox' = Enqueued(inbox, wake)
    /\ closed' = [e \in EventIds |-> closed[e] \cup Displaced(wake, e)]
-----------------------------------------------------------------------------
(* The notification extension. *)

\* A push is delivered; settlement checks come while the server's monitor is on.
DidReceive(wake) ==
    /\ nse = NoNotification /\ At("ext", "idle")
    /\ IF wake.settlement
         THEN server[wake.event] = "enabled" /\ UNCHANGED pushes
         ELSE /\ pushes[wake.event] < cast.pushes[wake.event]
              /\ pushes' = [pushes EXCEPT ![wake.event] = @ + 1]
    /\ nse' = [state |-> "idle", wake |-> wake, started |-> FALSE, content |-> <<>>]
    /\ UNCHANGED <<cast, faults, cuts, run, inbox, notices, app, in_flight,
                   retry_attempts, closed, ledgerVars, paid, server>>

\* start: an attempt, or the fallback when the time was up before it.
Start ==
    /\ nse # NoNotification /\ ~nse.started
    /\ IF nse.state = "idle"
         THEN /\ nse' = [nse EXCEPT !.started = TRUE, !.state = "active"]
              /\ run' = [run EXCEPT !["ext"] = Begin(nse.wake)]
              /\ UNCHANGED notices
         ELSE /\ nse' = [nse EXCEPT !.started = TRUE,
                                    !.content = Append(@, "openApplication")]
              /\ notices' = notices \cup {nse.wake}
              /\ UNCHANGED run
    /\ UNCHANGED <<cast, faults, cuts, pushes, inbox, app, in_flight,
                   retry_attempts, closed, ledgerVars, paid, server>>

\* timeWillExpire cancels the attempt and delivers the fallback for it.
TimeWillExpire ==
    /\ nse # NoNotification /\ nse.state # "finished" /\ Cutting
    /\ IF nse.state = "active"
         THEN /\ nse' = [nse EXCEPT !.state = "finished",
                                    !.content = Append(@, "openApplication")]
              /\ run' = [run EXCEPT !["ext"].cancelled = TRUE]
         ELSE nse' = [nse EXCEPT !.state = "finished"] /\ UNCHANGED run
    /\ UNCHANGED <<cast, faults, pushes, inbox, notices, app, in_flight,
                   retry_attempts, closed, ledgerVars, paid, server>>

\* The executor hands over what is not finished, then returns its hint.
HandOver ==
    LET result == Disposition("ext")
    IN  /\ At("ext", "result")
        /\ IF result \in {"retry", "queued"}
             THEN Enqueue(nse.wake)
             ELSE /\ closed' = IF result = "rejected" /\ ~nse.wake.settlement
                                 THEN [closed EXCEPT ![nse.wake.event] = @ \cup {"rejected"}]
                                 ELSE closed
                  /\ UNCHANGED inbox
        /\ Return("ext", "finish", result)
        /\ UNCHANGED <<cast, faults, cuts, pushes, nse, notices, app, in_flight,
                       retry_attempts, ledgerVars, paid, server>>

\* Mutant: finish without looking at the state.
FinishAnyway ==
    /\ At("ext", "finish")
    /\ run' = [run EXCEPT !["ext"] = NoRun]
    /\ nse' = [nse EXCEPT !.state = "finished", !.content = Append(@, run["ext"].result)]
    /\ UNCHANGED <<cast, faults, cuts, pushes, inbox, notices, app, in_flight,
                   retry_attempts, closed, ledgerVars, paid, server>>

\* finish delivers the hint unless the time was up first.
Finish ==
    /\ At("ext", "finish")
    /\ run' = [run EXCEPT !["ext"] = NoRun]
    /\ nse' = IF nse.state = "active"
                THEN [nse EXCEPT !.state = "finished",
                                 !.content = Append(@, run["ext"].result)]
                ELSE nse
    /\ UNCHANGED <<cast, faults, cuts, pushes, inbox, notices, app, in_flight,
                   retry_attempts, closed, ledgerVars, paid, server>>

\* The notification is shown and the extension is done.
Shown ==
    /\ nse # NoNotification /\ nse.started /\ nse.state = "finished" /\ At("ext", "idle")
    /\ nse' = NoNotification
    /\ UNCHANGED <<cast, faults, cuts, pushes, run, inbox, notices, app, in_flight,
                   retry_attempts, closed, ledgerVars, paid, server>>

\* The system ends the extension; what it had not handed over, only the
\* notification still carries.
Killed ==
    /\ nse # NoNotification /\ Cutting
    /\ notices' = IF nse.started /\ run["ext"].pc \in {"idle", "finish"}
                    THEN notices ELSE notices \cup {nse.wake}
    /\ nse' = NoNotification
    /\ run' = [run EXCEPT !["ext"] = NoRun] /\ Orphaned({"ext"})
    /\ UNCHANGED <<cast, faults, pushes, inbox, app, in_flight, retry_attempts,
                   closed, event, invoice, paid, server>>
-----------------------------------------------------------------------------
(* The application in the foreground. *)

Foreground ==
    /\ ~app /\ app' = TRUE
    /\ UNCHANGED <<cast, faults, cuts, pushes, run, nse, inbox, notices, in_flight,
                   retry_attempts, closed, ledgerVars, paid, server>>

\* The application dies with its tasks and its coordinator.
AppDies ==
    /\ app /\ Cutting /\ app' = FALSE
    /\ in_flight' = {} /\ retry_attempts' = [e \in EventIds |-> 0]
    /\ run' = [r \in Runs |-> IF r \in EventIds THEN NoRun ELSE run[r]]
    /\ Orphaned(EventIds)
    /\ UNCHANGED <<cast, faults, pushes, nse, inbox, notices, closed, event, invoice,
                   paid, server>>

\* The user opens a notification: its wake joins the inbox.
OpenNotice(wake) ==
    /\ app /\ wake \in notices /\ notices' = notices \ {wake}
    /\ Enqueue(wake)
    /\ UNCHANGED <<cast, faults, cuts, pushes, run, nse, app, in_flight,
                   retry_attempts, ledgerVars, paid, server>>

\* begin: one task per event.
Drain(e) ==
    /\ app /\ e \notin in_flight
    /\ \E wake \in InInbox(e) : run' = [run EXCEPT ![e] = Begin(wake)]
    /\ in_flight' = in_flight \cup {e}
    /\ UNCHANGED <<cast, faults, cuts, pushes, nse, inbox, notices, app,
                   retry_attempts, closed, ledgerVars, paid, server>>

\* Finished: the coordinator forgets the event and its entry is removed.
Finished(e, why) ==
    /\ in_flight' = in_flight \ {e}
    /\ retry_attempts' = [retry_attempts EXCEPT ![e] = 0]
    /\ inbox' = Without(inbox, e)
    /\ run' = [run EXCEPT ![e] = NoRun]
    /\ closed' = IF Wake(e, FALSE) \in InInbox(e)
                   THEN [closed EXCEPT ![e] = @ \cup why] ELSE closed

\* Mutant: only queued wakes are tried again.
RetryFinishes(e) ==
    LET result == Disposition(e)
    IN  /\ At(e, "result")
        /\ IF result # "queued" THEN Finished(e, {})
           ELSE IF retry_attempts[e] >= MaximumRetryAttempts THEN Finished(e, {"exhausted"})
           ELSE /\ retry_attempts' = [retry_attempts EXCEPT ![e] = @ + 1]
                /\ Goto(e, "waiting")
                /\ UNCHANGED <<in_flight, inbox, closed>>
        /\ UNCHANGED <<cast, faults, cuts, pushes, nse, notices, app, ledgerVars,
                       paid, server>>

\* handle_disposition.
HandleDisposition(e) ==
    LET result == Disposition(e)
        reason ==
            IF run[e].wake.settlement THEN {"replaced"}
            ELSE IF result = "rejected" THEN {"rejected"}
            ELSE IF result = "processed" THEN {"owned elsewhere"} ELSE {}
    IN  /\ At(e, "result")
        /\ IF result \notin {"retry", "queued"} THEN Finished(e, reason)
           ELSE IF retry_attempts[e] >= MaximumRetryAttempts THEN Finished(e, {"exhausted"})
           ELSE /\ retry_attempts' = [retry_attempts EXCEPT ![e] = @ + 1]
                /\ Goto(e, "waiting")
                /\ UNCHANGED <<in_flight, inbox, closed>>
        /\ UNCHANGED <<cast, faults, cuts, pushes, nse, notices, app, ledgerVars,
                       paid, server>>

\* retry_due.
RetryDue(e) ==
    /\ At(e, "waiting")
    /\ in_flight' = in_flight \ {e} /\ run' = [run EXCEPT ![e] = NoRun]
    /\ UNCHANGED <<cast, faults, cuts, pushes, nse, inbox, notices, app,
                   retry_attempts, closed, ledgerVars, paid, server>>
-----------------------------------------------------------------------------
(* The world around them. *)

ClientPays(e) ==
    /\ invoice[e] = "pending" /\ e \notin paid /\ paid' = paid \cup {e}
    /\ UNCHANGED <<cast, faults, cuts, pushes, run, hostVars, ledgerVars, server>>

\* A lease outlives its holder's budget, never the other way round.
LeaseExpires(e) ==
    /\ lease[e] = "orphan" /\ lease' = [lease EXCEPT ![e] = "none"]
    /\ UNCHANGED <<cast, faults, cuts, pushes, run, hostVars, event, invoice, paid, server>>

DeliveryInit ==
    /\ cast \in Casts
    /\ faults = 0 /\ cuts = 0 /\ pushes = [e \in EventIds |-> 0]
    /\ nse = NoNotification /\ run = [r \in Runs |-> NoRun]
    /\ inbox = <<>> /\ notices = {} /\ app = FALSE
    /\ in_flight = {} /\ retry_attempts = [e \in EventIds |-> 0]
    /\ event = [e \in EventIds |-> "open"] /\ lease = [e \in EventIds |-> "none"]
    /\ invoice = [e \in EventIds |-> "none"] /\ paid = {}
    /\ server = [e \in EventIds |-> "none"] /\ closed = [e \in EventIds |-> {}]

DeliveryNext ==
    \/ \E r \in Runs : HandleWake(r) \/ Deadline(r)
    \/ \E e \in EventIds, settlement \in BOOLEAN :
          DidReceive(Wake(e, settlement)) \/ OpenNotice(Wake(e, settlement))
    \/ Start \/ TimeWillExpire \/ HandOver \/ Finish \/ Shown \/ Killed
    \/ Foreground \/ AppDies
    \/ \E e \in EventIds :
          \/ Drain(e) \/ HandleDisposition(e) \/ RetryDue(e)
          \/ ClientPays(e) \/ LeaseExpires(e)

\* Every process runs on, every lease ends, and the server's checks arrive in
\* time while its monitor is on.
Fairness ==
    /\ \A r \in Runs : WF_deliveryVars(HandleWake(r))
    /\ WF_deliveryVars(Start) /\ WF_deliveryVars(HandOver)
    /\ WF_deliveryVars(Finish) /\ WF_deliveryVars(Shown)
    /\ \A e \in EventIds :
          /\ WF_deliveryVars(HandleDisposition(e)) /\ WF_deliveryVars(LeaseExpires(e))
          /\ SF_deliveryVars(DidReceive(Wake(e, TRUE)))

DeliverySpec == DeliveryInit /\ [][DeliveryNext]_deliveryVars /\ Fairness
-----------------------------------------------------------------------------
Wakes == [event: EventIds, settlement: BOOLEAN]
Results == {"completed", "processed", "rejected", "retry", "queued"}
States == {"monitor", "node", "claim", "work", "notify", "settle", "reload", "complete",
           "post", "result", "finish", "waiting"}

\* Type correctness.  Two bounds matter to the code: a queue file with more
\* entries than its limit is refused as corrupt, and an event is not tried
\* more often than the policy says.
DeliveryTypeOK ==
    /\ pushes \in [EventIds -> Nat] /\ app \in BOOLEAN
    /\ nse \in {NoNotification} \cup
           [state: {"idle", "active", "finished"}, wake: Wakes, started: BOOLEAN,
            content: Seq(Results \cup {"openApplication"})]
    /\ run \in [Runs -> {NoRun} \cup
           [pc: States, wake: Wakes, cancelled: BOOLEAN,
            seen: {"none", "pending", "completed"}, result: Results \cup {"none"}]]
    /\ inbox \in Seq(Wakes) /\ Len(inbox) <= MaxPendingRequests
    /\ notices \subseteq Wakes /\ in_flight \subseteq EventIds /\ paid \subseteq EventIds
    /\ retry_attempts \in [EventIds -> 0 .. MaximumRetryAttempts]
    /\ event \in [EventIds -> {"open", "terminal"}]
    /\ lease \in [EventIds -> Runs \cup {"none", "orphan"}]
    /\ invoice \in [EventIds -> {"none", "pending", "completed"}]
    /\ server \in [EventIds -> {"none", "enabled", "disabled"}]
    /\ closed \in [EventIds ->
           SUBSET {"replaced", "evicted", "exhausted", "rejected", "owned elsewhere"}]

\* The system's content handler is called once for every notification, however
\* finish, timeWillExpire and a late start race; the extension is never done
\* without it.
ContentDeliveredOnce ==
    nse # NoNotification =>
        /\ Len(nse.content) <= 1
        /\ nse.started /\ nse.state = "finished" => Len(nse.content) = 1

\* Somebody still answers for the request of e.
Kept(e) ==
    \/ event[e] = "terminal" \/ Wake(e, FALSE) \in InInbox(e) \cup notices
    \/ \E r \in Runs : run[r].pc # "idle" /\ run[r].wake = Wake(e, FALSE)
    \/ nse # NoNotification /\ nse.wake = Wake(e, FALSE)

\* No request that reached the device is forgotten: until its event is
\* terminal it is in the inbox, in a notification or being run, whatever is
\* killed or cut off.  Exceptions: a full inbox, spent retries, a rejection,
\* an event owned by another process when the application asked, and a
\* settlement check that took the place of its request.
WakeNotForgotten ==
    \A e \in EventIds : pushes[e] > 0 => Kept(e) \/ closed[e] # {}

\* docs/testing.md: "Queued work is safely replayed when the app foregrounds."
\* Only the declared bounds and a rejection end queued work.
QueuedWorkReplayed ==
    \A e \in EventIds :
        pushes[e] > 0 => Kept(e) \/ closed[e] \cap {"evicted", "exhausted", "rejected"} # {}

\* A paid invoice under a settlement monitor is delivered and the wake server
\* stops checking it for good, even when a process posts what it read before
\* another one completed the invoice.
MonitoringEnds ==
    \A e \in EventIds :
        e \in paid /\ server[e] = "enabled"
            ~> [](invoice[e] = "completed" /\ server[e] = "disabled")
=============================================================================
