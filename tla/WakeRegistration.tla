-------------------------- MODULE WakeRegistration --------------------------
(***************************************************************************)
(* The wake-registration outbox and the workers that bring the push        *)
(* service to the state it asks for.  A worker loads the due rows, posts   *)
(* one request per approved relay of a change, and only then removes or    *)
(* defers the row, so what it holds may be superseded between any two of   *)
(* its steps: by a revocation, by another requeue or by another worker.    *)
(*                                                                         *)
(* The push service is external, as docs/integration/wake-server.md asks   *)
(* of it: it refuses or ignores a revision older than the one it has.  A   *)
(* request whose caller timed out may still arrive.                        *)
(***************************************************************************)
EXTENDS ConnectionRegistry

CONSTANTS
    Workers,            \* concurrent registration passes
    PushTokens,         \* provider tokens the operating system may issue
    RelayCount,         \* approved relays of a connection
    InitialRetryDelay,  \* INITIAL_RETRY_DELAY
    MaxRetryDelay,      \* MAX_RETRY_DELAY
    MayArriveLate,      \* an abandoned request may reach the service
    MaxFaults,          \* bound on failures
    MaxRequeues         \* bound on changes of the native settings

Relays == 1..RelayCount

ASSUME RegistrationAssumption ==
    /\ PushTokens # {}
    /\ RelayCount \in Nat \ {0}
    /\ InitialRetryDelay \in Nat \ {0} /\ MaxRetryDelay \in Nat \ {0}
    /\ MayArriveLate \in BOOLEAN
    /\ MaxFaults \in Nat /\ MaxRequeues \in Nat

VARIABLES
    now,            \* wall clock
    worker,         \* [Workers -> local state of one run call]
    server,         \* [ConnectionIds -> [Relays -> Registration]]: the service
    late,           \* requests under way that nobody waits for
    token,          \* the push token the operating system issued last
    wanted,         \* [ConnectionIds -> Settings]: last asked for (ghost)
    requeues,       \* changes of the settings so far
    faults          \* failures so far

registrationVars ==
    <<registryVars, now, worker, server, late, token, wanted, requeues, faults>>

Registration == [revision: Nat, enabled: BOOLEAN, token: PushTokens]

Settings == [enabled: BOOLEAN, token: PushTokens]

Unregistered == [revision |-> -1, enabled |-> FALSE]

Request == [conn: ConnectionIds, relay: Relays, what: Registration]

Resting == [pc |-> "idle"]

\* A loaded outbox row, with the connection it belongs to.
Change == [conn: ConnectionIds, row: OutboxRow]

\* A pass between two changes, and one that handles a change.
Looping == [pc: {"next"}, todo: SUBSET Change, token: PushTokens]

Handling ==
    [pc: {"post", "ack", "retry"}, todo: SUBSET Change, token: PushTokens,
     change: Change, relay: Relays]

-----------------------------------------------------------------------------
(* The outbox.                                                             *)

\* Every active connection gets a new row at its unchanged revision; the
\* pending change of a tombstone is left alone.
RequeueActive(enabled, t) ==
    /\ \A c \in ConnectionIds : connections[c].status = "active" =>
                                    connections[c].updated_at <= t
    /\ outbox' = [c \in ConnectionIds |->
           IF connections[c].status # "active" THEN outbox[c]
           ELSE [revision |-> connections[c].revision, enabled |-> enabled,
                 attempt_count |-> 0, available_at |-> t, updated_at |-> t]]
    /\ UNCHANGED <<connections, used>>

Due(t) ==
    {[conn |-> c, row |-> outbox[c]] :
        c \in {d \in ConnectionIds : /\ outbox[d] # NoChange
                                     /\ outbox[d].available_at <= t}}

\* Mutant: the connection alone is compared.
SameConnection(change) == outbox[change.conn] # NoChange

\* The WHERE clause of acknowledge and retry.
SameChange(change) ==
    LET row == outbox[change.conn]
    IN  /\ row # NoChange
        /\ row.revision = change.row.revision
        /\ row.enabled = change.row.enabled
        /\ row.attempt_count = change.row.attempt_count
        /\ row.updated_at = change.row.updated_at

\* StaleChange leaves the row of a newer change as it is.
AcknowledgeWakeRegistration(change) ==
    /\ outbox' = IF SameChange(change)
                 THEN [outbox EXCEPT ![change.conn] = NoChange] ELSE outbox
    /\ UNCHANGED <<connections, used>>

RetryDelay(attempt_count) ==
    LET exponent == IF attempt_count < 16 THEN attempt_count ELSE 16
        seconds == InitialRetryDelay * 2^exponent
    IN  IF seconds < MaxRetryDelay THEN seconds ELSE MaxRetryDelay

\* Mutant: a deferred row is taken out of the outbox.
RetryDrops(change, t) ==
    /\ outbox' = IF SameChange(change)
                 THEN [outbox EXCEPT ![change.conn] = NoChange] ELSE outbox
    /\ UNCHANGED <<connections, used>>

RetryWakeRegistration(change, t) ==
    /\ t >= change.row.updated_at
    /\ outbox' =
           IF ~SameChange(change) THEN outbox
           ELSE [outbox EXCEPT
                    ![change.conn].attempt_count = @ + 1,
                    ![change.conn].available_at =
                        t + RetryDelay(change.row.attempt_count),
                    ![change.conn].updated_at = t]
    /\ UNCHANGED <<connections, used>>

-----------------------------------------------------------------------------
(* The push service.                                                       *)

\* The registration after the service handled a request.
Handled(old, what) == IF what.revision >= old.revision THEN what ELSE old

Serve(request) ==
    server' = [server EXCEPT ![request.conn][request.relay] =
                   Handled(@, request.what)]

-----------------------------------------------------------------------------
(* WakeRegistrationWorker::run.                                            *)

Goto(w, pc) == worker' = [worker EXCEPT ![w].pc = pc]

\* Back to the loop, or out of it.
NextChange(w) ==
    worker' = [worker EXCEPT ![w] =
                   [pc |-> "next", todo |-> @.todo, token |-> @.token]]

RequestOf(w) ==
    [conn |-> worker[w].change.conn, relay |-> worker[w].relay,
     what |-> [revision |-> worker[w].change.row.revision,
               enabled |-> worker[w].change.row.enabled,
               token |-> worker[w].token]]

LoadDue(w) ==
    /\ worker[w] = Resting
    /\ Due(now) # {}
    /\ worker' = [worker EXCEPT ![w] =
           [pc |-> "next", todo |-> Due(now), token |-> token]]
    /\ UNCHANGED <<registryVars, server, late>>

TakeChange(w) ==
    /\ worker[w].pc = "next"
    /\ \/ worker[w].todo = {} /\ worker' = [worker EXCEPT ![w] = Resting]
       \/ \E change \in worker[w].todo :
              worker' = [worker EXCEPT ![w] =
                  [pc |-> "post", todo |-> @.todo \ {change},
                   token |-> @.token, change |-> change, relay |-> 1]]
    /\ UNCHANGED <<registryVars, server, late>>

\* Mutant: the loop runs past the last relay.
PostBeyondLast(w) ==
    /\ worker[w].pc = "post"
    /\ Serve(RequestOf(w))
    /\ \/ /\ worker[w].relay <= RelayCount
          /\ worker' = [worker EXCEPT ![w].relay = @ + 1]
       \/ worker[w].relay > RelayCount /\ Goto(w, "ack")
    /\ UNCHANGED <<registryVars, late>>

\* The service handles the request of one relay and answers.  It may ignore
\* an older revision, which looks like success, or refuse it.
Post(w) ==
    LET request == RequestOf(w)
        older == request.what.revision <
                     server[request.conn][request.relay].revision
    IN  /\ worker[w].pc = "post"
        /\ Serve(request)
        /\ \/ /\ worker[w].relay < RelayCount
              /\ worker' = [worker EXCEPT ![w].relay = @ + 1]
           \/ worker[w].relay = RelayCount /\ Goto(w, "ack")
           \/ older /\ Goto(w, "retry")
        /\ UNCHANGED <<registryVars, late>>

Acknowledge(w) ==
    /\ worker[w].pc = "ack"
    /\ AcknowledgeWakeRegistration(worker[w].change)
    /\ NextChange(w)
    /\ UNCHANGED <<server, late>>

Defer(w) ==
    /\ worker[w].pc = "retry"
    /\ RetryWakeRegistration(worker[w].change, now)
    /\ NextChange(w)
    /\ UNCHANGED <<server, late>>

Pass(w) ==
    /\ LoadDue(w) \/ TakeChange(w) \/ Post(w) \/ Acknowledge(w) \/ Defer(w)
    /\ UNCHANGED <<now, token, wanted, requeues, faults>>

-----------------------------------------------------------------------------
(* Failures.  The outcomes of a post that brought no answer: not sent, not *)
(* yet handled, or handled.                                                *)

Unanswered(w) ==
    \/ UNCHANGED <<server, late>>
    \/ MayArriveLate /\ late' = late \cup {RequestOf(w)} /\ UNCHANGED server
    \/ Serve(RequestOf(w)) /\ UNCHANGED late

\* TimedOut, Unavailable, Rejected or Internal.  The bound on time leaves
\* room for the deferred row to become due.
PostFails(w) ==
    /\ worker[w].pc = "post"
    /\ now + RetryDelay(worker[w].change.row.attempt_count) <= MaxTime
    /\ Unanswered(w)
    /\ Goto(w, "retry")

\* Cancelled, the deadline passed, the ledger failed or the process died.
StopPass(w) ==
    /\ worker[w] # Resting
    /\ worker' = [worker EXCEPT ![w] = Resting]
    /\ IF worker[w].pc = "post" THEN Unanswered(w) ELSE UNCHANGED <<server, late>>

Fault(w) ==
    /\ faults < MaxFaults /\ faults' = faults + 1
    /\ PostFails(w) \/ StopPass(w)
    /\ UNCHANGED <<registryVars, now, token, wanted, requeues>>

ArriveLate ==
    /\ \E request \in late :
           Serve(request) /\ late' = late \ {request}
    /\ UNCHANGED <<registryVars, now, worker, token, wanted, requeues, faults>>

-----------------------------------------------------------------------------
(* The application and the clock.                                          *)

\* The bound on the clock leaves room for the deferred row to become due.
Tick ==
    /\ now < MaxTime /\ now' = now + 1
    /\ \A w \in Workers : worker[w].pc = "retry" =>
           now' + RetryDelay(worker[w].change.row.attempt_count) <= MaxTime
    /\ UNCHANGED <<registryVars, worker, server, late, token, wanted, requeues,
                   faults>>

Approve ==
    /\ \E c \in ConnectionIds :
           /\ InsertConnection(c, now)
           /\ wanted' = [wanted EXCEPT ![c] =
                  [enabled |-> TRUE, token |-> token]]
    /\ UNCHANGED <<now, worker, server, late, token, requeues, faults>>

Revoke ==
    /\ \E c \in ConnectionIds :
           /\ TombstoneConnection(c, connections[c].revision, now)
    /\ UNCHANGED <<now, worker, server, late, token, wanted, requeues, faults>>

\* The permission or the push token changes and the host refreshes.
RefreshWakeRegistrations ==
    /\ requeues < MaxRequeues /\ requeues' = requeues + 1
    /\ \E enabled \in BOOLEAN :
           /\ token' \in PushTokens
           /\ RequeueActive(enabled, now)
           /\ wanted' = [c \in ConnectionIds |->
                  IF connections[c].status # "active" THEN wanted[c]
                  ELSE [enabled |-> enabled, token |-> token']]
    /\ UNCHANGED <<now, worker, server, late, faults>>

RegistrationInit ==
    /\ RegistryInit
    /\ now = 0
    /\ worker = [w \in Workers |-> Resting]
    /\ server = [c \in ConnectionIds |-> [r \in Relays |-> Unregistered]]
    /\ late = {}
    /\ token \in PushTokens
    /\ wanted = [c \in ConnectionIds |-> [enabled |-> FALSE, token |-> token]]
    /\ requeues = 0 /\ faults = 0

RegistrationNext ==
    \/ \E w \in Workers : Pass(w) \/ Fault(w)
    \/ ArriveLate
    \/ Tick \/ Approve \/ Revoke \/ RefreshWakeRegistrations

RegistrationSafety ==
    RegistrationInit /\ [][RegistrationNext]_registrationVars

(***************************************************************************)
(* Native schedulers run a pass when next_wake_registration_at is due, a   *)
(* running pass keeps running, the clock advances, and failures are        *)
(* finitely many.                                                          *)
(***************************************************************************)
RegistrationSpec ==
    /\ RegistrationSafety
    /\ \A w \in Workers : WF_registrationVars(Pass(w))
    /\ WF_registrationVars(Tick)

-----------------------------------------------------------------------------
(***************************************************************************)
(* Type correctness of the outbox, the passes and the service.             *)
(***************************************************************************)
RegistrationTypeOK ==
    /\ RegistryTypeOK
    /\ now \in Time
    /\ server \in [ConnectionIds -> [Relays -> Registration \cup {Unregistered}]]
    /\ late \subseteq Request
    /\ token \in PushTokens
    /\ wanted \in [ConnectionIds -> Settings]
    /\ worker \in [Workers -> {Resting} \cup Looping \cup Handling]

(***************************************************************************)
(* Once nothing is left to do for a revoked connection, the service holds  *)
(* its disable for every relay and keeps it: no worker that still carries  *)
(* an enable, no lost answer, no pass cut off between two relays and no    *)
(* late request removes the pending disable or undoes it.                  *)
(* docs/security.md: "A stale enable completion cannot resurrect a newer   *)
(* disable tombstone."                                                     *)
(***************************************************************************)
RevocationSticks ==
    \A c \in ConnectionIds :
        connections[c].status = "tombstoned" /\ outbox[c] = NoChange =>
            \A r \in Relays : /\ server[c][r].revision = connections[c].revision
                              /\ ~server[c][r].enabled

(***************************************************************************)
(* Every revocation reaches the service, through any finite number of      *)
(* failed, interrupted and superseded passes.                              *)
(***************************************************************************)
EventuallyDisabled ==
    \A c \in ConnectionIds :
        connections[c].status = "tombstoned" ~>
            []( \A r \in Relays :
                    server[c][r].revision = connections[c].revision
                    /\ ~server[c][r].enabled )

\* All desired changes were handled.
Quiet(c) ==
    /\ connections[c].status = "active" /\ outbox[c] = NoChange
    /\ late = {} /\ \A w \in Workers : worker[w] = Resting

(***************************************************************************)
(* When every change of an active connection was acknowledged, the service *)
(* pushes to the current token.  acknowledge_wake_registration: "Removes a *)
(* change only if it is still the latest desired revision."                *)
(***************************************************************************)
RotationNotLost ==
    \A c \in ConnectionIds : Quiet(c) =>
        \A r \in Relays : server[c][r].token = wanted[c].token
=============================================================================
