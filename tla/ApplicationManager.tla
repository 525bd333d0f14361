------------------------- MODULE ApplicationManager -------------------------
(***************************************************************************)
(* NwcApplicationManager: what a wallet application does around the shared *)
(* ledger.  It keeps the wake registrations in step with the native        *)
(* settings, answers Nostr Wallet Auth requests, keeps the client secrets  *)
(* of the connections it makes in the platform's secret store and          *)
(* publishes their info events.                                            *)
(*                                                                         *)
(* The host is external.  It marks a refresh when a setting changes, hands *)
(* the end of a pass to finish_registration and processes the outbox when  *)
(* docs/getting-started.md tells it to: after an approval, a revocation, a *)
(* token rotation and a failure, and when it comes to the foreground.      *)
(* Approvals and revocations mark no refresh; they only write their rows.  *)
(* Passes run as tasks of their own, so every other call may fall between  *)
(* two steps of a pass, and the process may die anywhere; what the manager *)
(* remembers dies with it, except for the marker of a pending refresh,     *)
(* which the host persists (is_refresh_pending).                           *)
(*                                                                         *)
(* An instance is cut to size by its cast, chosen initially: it bounds     *)
(* each activity and says what users, applications and clients bring.      *)
(***************************************************************************)
EXTENDS WakeRegistration, WalletAuth

CONSTANTS
    Casts,              \* the instances checked
    MinimumRetryDelay,  \* MINIMUM_REGISTRATION_RETRY_DELAY
    FailedPause         \* pause after a failed pass

ASSUME ApplicationAssumption ==
    MinimumRetryDelay \in Nat \ {0} /\ FailedPause \in Nat \ {0}

VARIABLES
    cast,               \* the bounds and inputs of this behaviour
    in_flight,          \* ApplicationRegistrationCoordinator::in_flight
    refresh_pending,    \* ApplicationRegistrationCoordinator::refresh_pending
    timer,              \* when the current retry timer fires, or NoTimer
    task,               \* [Workers -> state of a pass and its result]
    kick,               \* the host owes a begin_registration call
    permission,         \* the native notification permission
    overlapped,         \* a session was reset under a running pass (ghost)
    dropped,            \* a reset dropped the pending refresh (ghost)
    unasked,            \* enabled without the permission, since a refresh (ghost)
    unheard,            \* no pass began since a call found one running or a
                        \* reset voided the timers (ghost)
    pending_nwa,        \* NwcMobileService::pending_nwa
    shown,              \* requests the user has been shown
    granted,            \* [ConnectionIds -> approved request and draft] (ghost)
    nwa_callback,       \* NwaCallbackCoordinator::pending_url: its connection
    answered,           \* callbacks opened or given up by the user (ghost)
    secrets,            \* client secrets in the platform's store
    made,               \* connections made by create_connection (ghost)
    call,               \* the create or revoke call under way
    revoking,           \* connections the host still wants gone
    described,          \* connection_metadata rows
    info_outbox,        \* nwc_info_outbox rows
    listed,             \* rows nwc_info_outbox has ever held (ghost)
    published,          \* [ConnectionIds \X Relays -> version of the info event]
    publishing,         \* the info event the host is publishing, or NoInfo
    version,            \* the installed version of the application
    refresh_info        \* the host owes refresh_nwc_info_events

coordinatorVars ==
    <<in_flight, refresh_pending, timer, task, kick, permission, overlapped, dropped,
      unasked, unheard>>
ghosts == <<overlapped, dropped, unasked, unheard>>
nwaVars == <<pending_nwa, shown, granted, nwa_callback, answered>>
secretVars == <<secrets, made, call, revoking>>
infoVars ==
    <<described, info_outbox, listed, published, publishing, version, refresh_info>>

applicationVars ==
    <<registrationVars, cast, coordinatorVars, nwaVars, secretVars, infoVars>>

\* What only Approve and RefreshWakeRegistrations of WakeRegistration change.
unusedVars == <<late, wanted>>

NoTimer == -1
NoRequest == [id |-> "none"]
NoGrant == [request |-> NoRequest]
NoConnection == "none"
NoCall == [op |-> "none"]
NoInfo == <<>>

\* "none" names no connection.  The policy of a connection is a constant, so
\* what a client asks for expires when its connection does.
ASSUME CastAssumption ==
    /\ NoConnection \notin ConnectionIds
    /\ \A k \in Casts : \A offer \in k.offers :
           /\ offer.client \in ConnectionIds
           /\ ExpiresAt[offer.client] = offer.expires_at

Idle == [state |-> "none"]

\* insert_connection asks for wakes whatever the permission is, and the host
\* processes the outbox.
RowInserted(c) ==
    /\ unasked' = IF permission THEN unasked ELSE unasked \cup {c}
    /\ kick' = TRUE

Failing == faults < cast.faults /\ faults' = faults + 1

-----------------------------------------------------------------------------
(* Wake registrations: NwcApplicationManager::begin_registration, the pass *)
(* and finish_registration.                                                *)

\* Mutant: the pass is not claimed.
StartUnclaimed ==
    LET w == CHOOSE v \in Workers : task[v] = Idle
    IN  /\ \E v \in Workers : task[v] = Idle
        /\ task' = [task EXCEPT ![w] = [state |-> "started"]]
        /\ UNCHANGED in_flight /\ timer' = NoTimer /\ unheard' = FALSE

\* Ready: older timers are void and one pass runs.
StartPass ==
    LET w == CHOOSE v \in Workers : task[v] = Idle
    IN  /\ \E v \in Workers : task[v] = Idle
        /\ task' = [task EXCEPT ![w] = [state |-> "started"]]
        /\ in_flight' = TRUE /\ timer' = NoTimer /\ unheard' = FALSE

\* The claim of a pass and, first, the durable refresh that is pending.
BeginRegistration ==
    /\ kick /\ kick' = FALSE
    /\ \/ /\ in_flight
          /\ unheard' = TRUE
          /\ UNCHANGED <<registryVars, refresh_pending, dropped, unasked, in_flight, timer,
                         task>>
       \/ /\ ~in_flight /\ ~refresh_pending
          /\ StartPass
          /\ UNCHANGED <<registryVars, refresh_pending, dropped, unasked>>
       \/ /\ ~in_flight /\ refresh_pending
          /\ RequeueActive(permission, now)
          /\ refresh_pending' = FALSE /\ dropped' = FALSE /\ unasked' = {}
          /\ StartPass
    /\ UNCHANGED <<permission, overlapped, faults, worker, server>>

\* The outbox fails: nothing is claimed and the host tries again later.
BeginFails ==
    /\ Failing
    /\ kick /\ ~in_flight /\ refresh_pending
    /\ kick' = FALSE /\ timer' = Smaller(now + MinimumRetryDelay, MaxTime)
    /\ UNCHANGED <<registryVars, in_flight, refresh_pending, task, permission,
                   ghosts, worker, server>>

\* MIN(available_at) over the outbox, -1 if it is empty.
NextWakeRegistrationAt ==
    LET times == {outbox[c].available_at : c \in
                     {d \in ConnectionIds : outbox[d] # NoChange}}
    IN  IF times = {} THEN NoTimer
        ELSE CHOOSE t \in times : \A u \in times : t <= u

\* Mutant: the time of the next attempt is not read.
DoneForNow == [state |-> "done", next |-> NoTimer]

Done == [state |-> "done", next |-> NextWakeRegistrationAt]

\* run_registration_worker: load the due rows, handle them, read when the
\* next row is due.
RunPass(w) ==
    /\ \/ /\ task[w].state = "started" /\ Due(now) # {}
          /\ LoadDue(w)
          /\ task' = [task EXCEPT ![w] = [state |-> "running"]]
       \/ /\ task[w].state = "started" /\ Due(now) = {}
          /\ task' = [task EXCEPT ![w] = Done]
          /\ UNCHANGED <<registryVars, worker, server, late>>
       \/ /\ task[w].state = "running" /\ worker[w] # Resting
          /\ TakeChange(w) \/ Post(w) \/ Acknowledge(w) \/ Defer(w)
          /\ UNCHANGED task
       \/ /\ task[w].state = "running" /\ worker[w] = Resting
          /\ task' = [task EXCEPT ![w] = Done]
          /\ UNCHANGED <<registryVars, worker, server, late>>
    /\ UNCHANGED <<in_flight, refresh_pending, timer, kick, permission, ghosts, faults>>

\* A post fails, the budget of the pass runs out or the ledger fails.
PassFault(w) ==
    /\ Failing
    /\ task[w].state = "running"
    /\ \/ PostFails(w) /\ UNCHANGED task
       \/ StopPass(w) /\ UNCHANGED task
       \/ StopPass(w) /\ task' = [task EXCEPT ![w] = [state |-> "failed"]]
    /\ UNCHANGED <<registryVars, in_flight, refresh_pending, timer, kick, permission,
                   ghosts>>

\* registration_retry_delay; the bound on time is also one on timers.
RetryAt(next) ==
    Smaller(now + Larger(next - now, MinimumRetryDelay), MaxTime)

\* Mutant: a refresh asked for during the pass is taken as done.
FinishForgets(w) ==
    /\ task[w].state \in {"done", "failed"}
    /\ task' = [task EXCEPT ![w] = Idle]
    /\ in_flight' = FALSE /\ refresh_pending' = FALSE
    /\ UNCHANGED <<registryVars, permission, ghosts, faults, worker, server, kick, timer>>

\* Ignored, RunAgain, Failed, or one of the ends that carry next_attempt_at.
FinishRegistration(w) ==
    LET at == IF task[w].state = "failed" THEN Smaller(now + FailedPause, MaxTime)
              ELSE IF task[w].next = NoTimer THEN NoTimer
              ELSE RetryAt(task[w].next)
    IN  /\ task[w].state \in {"done", "failed"}
        /\ task' = [task EXCEPT ![w] = Idle]
        /\ in_flight' = FALSE
        /\ kick' = (kick \/ (in_flight /\ refresh_pending))
        /\ timer' = IF in_flight /\ ~refresh_pending /\ at # NoTimer THEN at ELSE timer
        /\ UNCHANGED <<registryVars, refresh_pending, permission, ghosts, faults, worker,
                       server>>

\* Only the timer of the latest token starts a pass.
TimerFires ==
    /\ timer # NoTimer /\ timer <= now
    /\ timer' = NoTimer /\ kick' = TRUE
    /\ UNCHANGED <<registryVars, in_flight, refresh_pending, task, permission, ghosts,
                   faults, worker, server>>

notRegistering == <<unusedVars, now, token, requeues, cast, nwaVars, secretVars, infoVars>>

\* What the host does and what a running pass does by itself.
HostRegisters ==
    /\ cast.registers
    /\ BeginRegistration \/ BeginFails \/ TimerFires
    /\ UNCHANGED notRegistering

PassGoesOn ==
    /\ cast.registers
    /\ \E w \in Workers : RunPass(w) \/ PassFault(w) \/ FinishRegistration(w)
    /\ UNCHANGED notRegistering

Registering == HostRegisters \/ PassGoesOn

\* The application comes to the foreground and processes the outbox.
Foreground ==
    /\ cast.reopens /\ ~kick /\ kick' = TRUE
    /\ UNCHANGED <<registryVars, notRegistering, worker, server, faults, in_flight,
                   refresh_pending, timer, task, permission, ghosts>>

\* The user grants or withdraws the permission, or the token is rotated: the
\* host calls mark_registration_refresh_pending and begin_registration.
SettingsChange ==
    /\ requeues < cast.settings /\ requeues' = requeues + 1
    /\ permission' \in BOOLEAN /\ token' \in PushTokens
    /\ <<permission', token'>> # <<permission, token>>
    /\ refresh_pending' = TRUE /\ kick' = TRUE
    /\ UNCHANGED <<registryVars, unusedVars, now, worker, server, faults, cast, in_flight,
                   timer, task, ghosts, nwaVars, secretVars, infoVars>>

-----------------------------------------------------------------------------
(* Nostr Wallet Auth.                                                      *)

\* open_nwa_request: one request at a time.
OpenNwaRequest ==
    /\ pending_nwa = NoRequest
    /\ \E offer \in cast.offers :
           /\ Parses(offer, now)
           /\ pending_nwa' = offer /\ shown' = shown \cup {offer}
    /\ UNCHANGED <<registryVars, coordinatorVars, faults, granted, nwa_callback, answered>>

\* Mutant: a new approval replaces the callback that waits to be opened.
ApproveOverCallback(request, selection) ==
    /\ pending_nwa = request
    /\ Drafts(selection)
    /\ Subset(Parse(request), Draft(request.client, selection))
    /\ InsertConnection(request.client, now)
    /\ nwa_callback' = IF Parse(request).callback THEN request.client ELSE NoConnection

\* Mutant: the approval goes to whatever request is pending.
ApproveAnyPending(request, selection) ==
    /\ nwa_callback = NoConnection
    /\ pending_nwa # NoRequest
    /\ Drafts(selection)
    /\ Subset(Parse(pending_nwa), Draft(pending_nwa.client, selection))
    /\ InsertConnection(pending_nwa.client, now)
    /\ nwa_callback' = IF Parse(pending_nwa).callback THEN pending_nwa.client ELSE NoConnection

\* approve_nwa, approve_application_nwa, approve_pending_nwa and
\* approve_nwa_connection.  The user approves the request that was shown.
ApprovePendingNwa(request, selection) ==
    /\ nwa_callback = NoConnection
    /\ pending_nwa = request
    /\ Drafts(selection)
    /\ Subset(Parse(request), Draft(request.client, selection))
    /\ InsertConnection(request.client, now)
    /\ nwa_callback' = IF Parse(request).callback THEN request.client ELSE NoConnection

ApproveNwa ==
    /\ \E request \in shown, selection \in cast.selections :
           /\ ApprovePendingNwa(request, selection)
           /\ granted' = [granted EXCEPT ![request.client] =
                  [request |-> request, draft |-> Draft(request.client, selection)]]
           /\ RowInserted(request.client)
    /\ pending_nwa' = NoRequest
    /\ UNCHANGED <<in_flight, refresh_pending, timer, task, permission, overlapped, dropped,
                   unheard, faults, shown, answered>>

\* complete_nwa_callback: a URL that could not be opened may be retried.
CompleteNwaCallback ==
    /\ nwa_callback # NoConnection
    /\ answered' = answered \cup {nwa_callback}
    /\ nwa_callback' = NoConnection
    /\ UNCHANGED <<registryVars, coordinatorVars, faults, pending_nwa, shown, granted>>

\* What the user gives up with the session or the request.
ClearNwa ==
    /\ pending_nwa' = NoRequest /\ nwa_callback' = NoConnection
    /\ answered' = answered \cup ({nwa_callback} \ {NoConnection})
    /\ UNCHANGED <<shown, granted>>

CancelNwa ==
    /\ <<pending_nwa, nwa_callback>> # <<NoRequest, NoConnection>>
    /\ ClearNwa
    /\ UNCHANGED <<registryVars, coordinatorVars, faults>>

Authorizing ==
    /\ OpenNwaRequest \/ ApproveNwa \/ CompleteNwaCallback \/ CancelNwa
    /\ UNCHANGED <<unusedVars, now, worker, server, token, requeues, cast, secretVars,
                   infoVars>>

-----------------------------------------------------------------------------
(* Connections the wallet makes, and revocation.  The secret store is      *)
(* external; each of its calls may fail.                                   *)

\* create_wallet_connection: a new key pair, its secret first, ...  (The
\* expiry the user chooses lies ahead; it may pass before the insertion.)
StoreClientSecret(c) ==
    /\ call = NoCall /\ c \in cast.fresh /\ Unclaimed(c) /\ ~Expired(c, now)
    /\ \E selection \in cast.selections : Drafts(selection)
    /\ secrets' = secrets \cup {c}
    /\ call' = [op |-> "create", conn |-> c]
    /\ UNCHANGED <<registryVars, made, revoking, coordinatorVars>>

\* ... then the connection; a failure deletes the secret if it can.
CreateHostConnection ==
    /\ call.op = "create" /\ call' = NoCall
    /\ InsertConnection(call.conn, now)
    /\ made' = made \cup {call.conn}
    /\ RowInserted(call.conn)
    /\ UNCHANGED <<secrets, revoking, in_flight, refresh_pending, timer, task, permission,
                   overlapped, dropped, unheard, faults>>

CreateFails ==
    /\ call.op = "create" /\ call' = NoCall
    /\ \/ Failing
       \/ Expired(call.conn, now) /\ UNCHANGED faults
    /\ \/ secrets' = secrets \ {call.conn}
       \/ UNCHANGED secrets
    /\ UNCHANGED <<registryVars, made, revoking, coordinatorVars>>

\* The user revokes a connection; the host repeats the call while the
\* secret store fails.
WantRevoked ==
    /\ \E c \in ConnectionIds : /\ connections[c].status = "active"
                                /\ c \notin revoking
                                /\ revoking' = revoking \cup {c}
    /\ UNCHANGED <<registryVars, secrets, made, call, coordinatorVars, faults>>

\* Mutant: the key is only known from the connections that are listed.
ListedKey(c) == connections[c].status = "active"

\* The client key of a listed connection, or of an identifier this library
\* made (`nwc-' and the key); legacy identifiers are the wallet's own.
ApplicationClientPubkey(c) ==
    connections[c].status = "active" \/ c \notin cast.legacy

\* Mutant: the secret goes before the connection does.
RevokeSecretFirst(c) ==
    /\ call = NoCall /\ c \in revoking
    /\ secrets' = secrets \ {c}
    /\ call' = [op |-> "revoke", conn |-> c, key |-> TRUE]
    /\ UNCHANGED <<registryVars, made, revoking, coordinatorVars>>

\* revoke_application_connection: revoke_host_connection is idempotent ...
RevokeHostConnection(c) ==
    /\ call = NoCall /\ c \in revoking
    /\ \/ /\ connections[c].status = "active"
          /\ TombstoneConnection(c, connections[c].revision, now)
          /\ kick' = TRUE
       \/ /\ connections[c].status = "tombstoned"
          /\ UNCHANGED <<registryVars, kick>>
    /\ call' = [op |-> "revoke", conn |-> c, key |-> ApplicationClientPubkey(c)]
    /\ UNCHANGED <<secrets, made, revoking, in_flight, refresh_pending, timer, task,
                   permission, ghosts>>

\* ... and then the secret is deleted, or the caller told that it is not.
DeleteClientSecret ==
    /\ call.op = "revoke" /\ call' = NoCall
    /\ \/ /\ secrets' = IF call.key THEN secrets \ {call.conn} ELSE secrets
          /\ revoking' = revoking \ {call.conn}
          /\ UNCHANGED faults
       \/ call.key /\ Failing /\ UNCHANGED <<secrets, revoking>>
    /\ UNCHANGED <<registryVars, made, coordinatorVars>>

\* migrate_legacy_batch, one authorization: imported if its identifier is
\* new; a matching connection stays and a tombstone is only reported.  The
\* launch that migrates processes the outbox afterwards.
MigrateLegacy(c) ==
    /\ c \in cast.legacy /\ connections[c].status = "absent"
    /\ ImportConnection(c, 0, 0, now)
    /\ RowInserted(c)
    /\ UNCHANGED <<secretVars, in_flight, refresh_pending, timer, task, permission,
                   overlapped, dropped, unheard>>

\* Calls under way go on and owed ones are made.
ProceedWithCalls ==
    /\ \/ CreateHostConnection \/ CreateFails \/ DeleteClientSecret
       \/ /\ \E c \in ConnectionIds : RevokeHostConnection(c)
          /\ UNCHANGED faults
    /\ UNCHANGED <<unusedVars, now, worker, server, token, requeues, cast, nwaVars,
                   infoVars>>

HandleConnections ==
    /\ \/ WantRevoked
       \/ /\ \E c \in ConnectionIds : StoreClientSecret(c) \/ MigrateLegacy(c)
          /\ UNCHANGED faults
    /\ UNCHANGED <<unusedVars, now, worker, server, token, requeues, cast, nwaVars,
                   infoVars>>

-----------------------------------------------------------------------------
(* Metadata and info events.  The host publishes what the outbox lists.    *)

Pairs(cs) == cs \X Relays

Active == {c \in ConnectionIds : connections[c].status = "active"}

\* upsert_application_metadata, with the approved relays the host lists.
SetConnectionMetadata ==
    /\ \E c \in Active \ described, relays \in SUBSET Relays :
           /\ described' = described \cup {c}
           /\ info_outbox' = info_outbox \cup ({c} \X relays)
           /\ listed' = listed \cup ({c} \X relays)
    /\ cast.upgrades > 0
    /\ UNCHANGED <<published, publishing, version, refresh_info, faults>>

\* A listed connection's pending relay receives the event.
PublishInfoEvent ==
    /\ publishing = NoInfo
    /\ \E pair \in info_outbox \cap Pairs(Active) :
           /\ publishing' = pair
           /\ published' = [published EXCEPT ![pair] = version]
    /\ UNCHANGED <<described, info_outbox, listed, version, refresh_info, faults>>

AcknowledgeNwcInfoEvent ==
    /\ publishing # NoInfo /\ publishing' = NoInfo
    /\ info_outbox' = info_outbox \ {publishing}
    /\ UNCHANGED <<described, listed, published, version, refresh_info, faults>>

\* Mutant: events that were acknowledged are not queued again.
RefreshPending ==
    /\ refresh_info /\ refresh_info' = FALSE
    /\ UNCHANGED <<described, info_outbox, listed, published, publishing, version, faults>>

\* requeue_active_nwc_info_events, once after an upgrade.
RefreshNwcInfoEvents ==
    /\ refresh_info /\ refresh_info' = FALSE
    /\ info_outbox' = info_outbox \cup Pairs(Active \cap described)
    /\ listed' = listed \cup Pairs(Active \cap described)
    /\ UNCHANGED <<described, published, publishing, version, faults>>

InfoEvents ==
    /\ \/ SetConnectionMetadata \/ PublishInfoEvent \/ AcknowledgeNwcInfoEvent
       \/ RefreshNwcInfoEvents
    /\ UNCHANGED <<registryVars, unusedVars, now, worker, server, token, requeues, cast,
                   coordinatorVars, nwaVars, secretVars>>

-----------------------------------------------------------------------------
(* Sessions and processes.                                                 *)

\* reset_session.  Running tasks are not stopped and a pending refresh is
\* dropped, its marker too: the new session asks for its own registrations.
ResetSession ==
    /\ Failing
    /\ ClearNwa
    /\ in_flight' = FALSE /\ refresh_pending' = FALSE /\ timer' = NoTimer
    /\ overlapped' = (overlapped \/ \E w \in Workers : task[w] # Idle)
    /\ dropped' = (dropped \/ refresh_pending)
    /\ unheard' = TRUE
    /\ UNCHANGED <<registryVars, unusedVars, now, worker, server, token, requeues, cast,
                   task, kick, permission, unasked, secretVars, infoVars>>

\* The process dies and the application starts again, upgraded or not.  A
\* launch processes the outbox.
Restart ==
    /\ Failing
    /\ in_flight' = FALSE /\ timer' = NoTimer /\ kick' = TRUE
    /\ task' = [w \in Workers |-> Idle]
    /\ worker' = [w \in Workers |-> Resting]
    /\ pending_nwa' = NoRequest /\ shown' = {} /\ nwa_callback' = NoConnection
    /\ answered' = answered \cup ({nwa_callback} \ {NoConnection})
    /\ call' = NoCall /\ publishing' = NoInfo
    /\ \/ UNCHANGED <<version, refresh_info>>
       \/ version < cast.upgrades /\ version' = version + 1 /\ refresh_info' = TRUE
    /\ UNCHANGED <<registryVars, unusedVars, now, server, token, requeues, cast,
                   refresh_pending, permission, ghosts, granted, secrets, made, revoking,
                   described, info_outbox, listed, published>>

TimePasses ==
    /\ Tick
    /\ UNCHANGED <<cast, coordinatorVars, nwaVars, secretVars, infoVars>>

ApplicationInit ==
    /\ RegistrationInit
    /\ token = CHOOSE t \in PushTokens : TRUE
    /\ cast \in Casts
    /\ in_flight = FALSE /\ refresh_pending = FALSE /\ timer = NoTimer
    /\ task = [w \in Workers |-> Idle]
    /\ kick = FALSE /\ permission = TRUE
    /\ overlapped = FALSE /\ dropped = FALSE /\ unasked = {} /\ unheard = FALSE
    /\ pending_nwa = NoRequest /\ shown = {} /\ nwa_callback = NoConnection
    /\ granted = [c \in ConnectionIds |-> NoGrant] /\ answered = {}
    /\ secrets = {} /\ made = {} /\ call = NoCall /\ revoking = {}
    /\ described = {} /\ info_outbox = {} /\ listed = {} /\ publishing = NoInfo
    /\ published = [p \in Pairs(ConnectionIds) |-> -1]
    /\ version = 0 /\ refresh_info = FALSE

ApplicationNext ==
    \/ Registering \/ Foreground \/ SettingsChange \/ Authorizing \/ ProceedWithCalls
    \/ HandleConnections \/ InfoEvents
    \/ ResetSession \/ Restart \/ TimePasses

(***************************************************************************)
(* The host makes the calls it owes, running passes and calls go on, timers *)
(* fire and the clock advances.  Users and clients may stop at any time and *)
(* the application need not come to the foreground again; failures, resets  *)
(* and restarts are finitely many.                                          *)
(***************************************************************************)
ApplicationSpec ==
    /\ ApplicationInit /\ [][ApplicationNext]_applicationVars
    /\ WF_applicationVars(HostRegisters)
    /\ WF_applicationVars(PassGoesOn)
    /\ WF_applicationVars(ProceedWithCalls)
    /\ WF_applicationVars(TimePasses)

-----------------------------------------------------------------------------
\* What the outbox was last asked to bring about: the permission as it is,
\* except that a new connection is enabled without it until a refresh.
EnabledFor(c) == permission \/ c \in unasked

Registered(c) ==
    \A r \in Relays :
        IF connections[c].status = "active"
        THEN /\ server[c][r] # Unregistered
             /\ server[c][r].enabled = EnabledFor(c) /\ server[c][r].token = token
        ELSE ~server[c][r].enabled

\* Nothing is left to do for the registrations.
Settled ==
    /\ \A c \in ConnectionIds : outbox[c] = NoChange
    /\ ~refresh_pending /\ ~dropped

(***************************************************************************)
(* When the outbox is empty and no refresh is pending, the service wakes   *)
(* every connection as the settings say now, at the current token, and no  *)
(* revoked one: no rotation, permission change, approval or revocation     *)
(* that fell into a running pass, a failed refresh, a retry or a restart   *)
(* is lost.  Three cases are excepted because the code does not cover      *)
(* them.  A connection inserted while the permission is withdrawn is       *)
(* enabled nonetheless (insert_connection) until the next refresh; a reset *)
(* drops a pending refresh; and finish() takes the end of a pass a reset   *)
(* left running for that of the new session's pass.                        *)
(***************************************************************************)
SettingsReachService ==
    Settled /\ ~overlapped => \A c \in ConnectionIds : Registered(c)

(***************************************************************************)
(* One pass runs at a time, though begin, finish, timers and refreshes     *)
(* come in any order.  ApplicationRegistrationCoordinator: "This           *)
(* coordinator only prevents overlapping application tasks".               *)
(***************************************************************************)
PassesSerialized ==
    ~overlapped =>
        /\ \A v, w \in Workers : task[v] # Idle /\ task[w] # Idle => v = w
        /\ in_flight <=> \E w \in Workers : task[w] # Idle

(***************************************************************************)
(* Every change of the settings, approval and revocation reaches the       *)
(* service, though passes fail, are cut and are put off, and although the  *)
(* application never comes to the foreground again.  Excepted is a call of *)
(* begin_registration that found a pass running: the row it came for may   *)
(* have been written after that pass read the time of the next attempt, so *)
(* that it ends without a timer and the row waits for another call.  After *)
(* a reset, too, the host has to call and to mark its refresh again.       *)
(***************************************************************************)
EventuallyRegistered ==
    cast.registers =>
        <>[](overlapped \/ dropped \/ unheard \/ \A c \in ConnectionIds : Registered(c))

(***************************************************************************)
(* A connection approved for a request belongs to the client of the very   *)
(* request the user was shown and approved, and allows no more than it     *)
(* asked for, whatever was opened, cancelled or expired in between.        *)
(***************************************************************************)
GrantedAsShown ==
    \A c \in ConnectionIds : granted[c] # NoGrant =>
        LET request == granted[c].request
        IN  /\ granted[c].draft.client = request.client
            /\ WithinRequest(Parse(request), granted[c].draft)
            /\ request.expires_at # 0 => connections[c].created_at < request.expires_at

(***************************************************************************)
(* The callback of an approved request is opened, given up by the user or  *)
(* lost with the process; another approval never takes its place.          *)
(***************************************************************************)
CallbackNotReplaced ==
    \A c \in ConnectionIds :
        granted[c] # NoGrant /\ granted[c].request.return_to =>
            nwa_callback = c \/ c \in answered

(***************************************************************************)
(* An active connection the wallet made has its client secret, so that its *)
(* URI can be exported, whatever step of a creation or a revocation fails  *)
(* or is the last before the process dies.                                 *)
(***************************************************************************)
ConnectionHasSecret ==
    \A c \in made : connections[c].status = "active" => c \in secrets

(***************************************************************************)
(* The secret of a revoked connection is deleted in the end: a repeated    *)
(* revocation finds the client key although the connection is listed no    *)
(* more.  revoke_application_connection.                                   *)
(***************************************************************************)
RevokedSecretDeleted ==
    \A c \in ConnectionIds :
        connections[c].status = "tombstoned" ~> c \notin secrets

(***************************************************************************)
(* A relay that was listed as pending and is so no more has the info event *)
(* of the installed version, through restarts between a publication and    *)
(* its acknowledgement and upgrades, for every connection with metadata.   *)
(* refresh_nwc_info_events: "Hosts call this once after an application     *)
(* upgrade".                                                               *)
(***************************************************************************)
InfoEventsCurrent ==
    \A pair \in listed \cap Pairs(Active \cap described) :
        pair \in info_outbox \/ refresh_info \/ published[pair] = version
=============================================================================
