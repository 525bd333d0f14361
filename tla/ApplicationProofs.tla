------------------------- MODULE ApplicationProofs -------------------------
(***************************************************************************)
(* The application manager keeps the push service in step with the         *)
(* settings, runs one pass at a time, grants what was shown, keeps the     *)
(* callbacks, the client secrets and the info events, for every number of  *)
(* connections, relays, passes, failures and restarts.                     *)
(***************************************************************************)
EXTENDS ApplicationManager, RegistrationProofs

\* ApplicationSpec without its fairness.
ApplicationSafety == ApplicationInit /\ [][ApplicationNext]_applicationVars

-----------------------------------------------------------------------------
(* The registrations under the application's actions.                      *)

\* A step that leaves tables, passes and service alone.
LEMMA BystanderStep ==
    ASSUME RegistrationInv, UNCHANGED <<registryVars, worker, server, late, wanted>>,
           now' \in Time, token' \in PushTokens
    PROVE  RegistrationInv'
<1> USE DEF RegistrationInv, registryVars
<1>1. RegistrationTypeOK'
  BY DEF RegistrationTypeOK, RegistryTypeOK
<1>2. RevisionsInv' /\ PassesReached' /\ LateReached'
  BY DEF RevisionsInv, PassesReached, LateReached, AskedFor
<1>3. ServerReached' /\ Progressed' /\ Delivered'
  BY DEF ServerReached, Progressed, Delivered, AskedFor
<1> QED BY <1>1, <1>2, <1>3

\* A process that starts again has no pass.
LEMMA RestartStep ==
    ASSUME RegistrationInv, worker' = [w \in Workers |-> Resting],
           UNCHANGED <<registryVars, server, late, wanted, now, token>>
    PROVE  RegistrationInv'
<1> USE DEF RegistrationInv, registryVars
<1>1. Resting \notin Handling
  BY DEF Resting, Handling
<1>2. RegistrationTypeOK'
  BY DEF RegistrationTypeOK, RegistryTypeOK
<1>3. PassesReached' /\ Progressed'
  BY <1>1 DEF PassesReached, Progressed
<1>4. RevisionsInv' /\ LateReached' /\ ServerReached' /\ Delivered'
  BY DEF RevisionsInv, LateReached, ServerReached, Delivered, AskedFor
<1> QED BY <1>2, <1>3, <1>4

\* A pass that fails or stops.
LEMMA PassFaultStep ==
    ASSUME RegistrationInv, NEW w \in Workers, PostFails(w) \/ StopPass(w),
           UNCHANGED <<registryVars, now, token, wanted>>
    PROVE  RegistrationInv'
<1> USE DEF registryVars
<1>1. CASE worker[w].pc = "post"
  <2>1. Unanswered(w)
    BY <1>1 DEF PostFails, StopPass
  <2>2. /\ Serve(RequestOf(w)) \/ UNCHANGED server
        /\ late' = late \/ late' = late \cup {RequestOf(w)}
    BY <2>1 DEF Unanswered
  <2>3. Goto(w, "retry") \/ worker' = [worker EXCEPT ![w] = Resting]
    BY DEF PostFails, StopPass
  <2> QED BY <1>1, <2>2, <2>3, UnansweredStep
<1>2. CASE worker[w].pc # "post"
  <2>1. worker' = [worker EXCEPT ![w] = Resting] /\ UNCHANGED <<server, late>>
    BY <1>2 DEF PostFails, StopPass
  <2> QED BY <2>1, RestingIsSound, QuietStep
<1> QED BY <1>1, <1>2

\* A row is made by an insertion at the current time or by an import.
Inserts(c) ==
    \E created \in Time : /\ created <= now
                          /\ InsertConnectionState(c, created, 0, now)

\* The ways an application step reaches the tables, the passes and the
\* service.
Touches ==
    \/ UNCHANGED <<registryVars, worker, server>> /\ now' \in Time /\ token' \in PushTokens
    \/ /\ UNCHANGED <<now, token>>
       /\ \/ RequeueActive(permission, now) /\ UNCHANGED <<worker, server>>
          \/ \E w \in Workers : LoadDue(w) \/ TakeChange(w) \/ Post(w) \/ Acknowledge(w) \/ Defer(w)
          \/ \E w \in Workers : (PostFails(w) \/ StopPass(w)) /\ UNCHANGED registryVars
          \/ \E c \in ConnectionIds : Inserts(c) /\ UNCHANGED <<worker, server>>
          \/ \E c \in ConnectionIds :
                 /\ TombstoneConnection(c, connections[c].revision, now)
                 /\ UNCHANGED <<worker, server>>
          \/ worker' = [w \in Workers |-> Resting] /\ UNCHANGED <<registryVars, server>>

\* The requests that may be approved come from clients of the instance.
ShownOffered == cast \in Casts /\ shown \subseteq cast.offers

\* A creation under way has stored the secret of a connection not yet made; a
\* revocation under way has tombstoned its connection.
SecretsKnown ==
    /\ made \subseteq ConnectionIds
    /\ \A c \in made : connections[c].status # "absent"
    /\ call.op = "create" => call.conn \in (secrets \cap ConnectionIds) \ made
    /\ call.op = "revoke" =>
           call.conn \in ConnectionIds /\ connections[call.conn].status = "tombstoned"

\* No action touches them in another way.
LEMMA StepTouches ==
    ASSUME RegistrationTypeOK, ShownOffered, SecretsKnown, [ApplicationNext]_applicationVars
    PROVE  Touches /\ UNCHANGED <<late, wanted>>
<1> USE DEF registryVars, unusedVars
<1>1. now \in Time /\ token \in PushTokens /\ 0 \in Time /\ 0 <= now /\ now <= now
  BY RegistryAssumption DEF RegistrationTypeOK, Time
<1>2. CASE Registering
  <2>1. UNCHANGED <<late, wanted, now, token>>
    BY <1>2 DEF Registering, HostRegisters, PassGoesOn, notRegistering
  <2>2. CASE BeginRegistration \/ BeginFails \/ TimerFires
    BY <1>1, <2>1, <2>2 DEF BeginRegistration, BeginFails, TimerFires, Touches
  <2>3. ASSUME NEW w \in Workers, RunPass(w)
        PROVE  Touches
    BY <1>1, <2>1, <2>3 DEF RunPass, Touches
  <2>4. ASSUME NEW w \in Workers, PassFault(w)
        PROVE  Touches
    BY <1>1, <2>1, <2>4 DEF PassFault, Touches
  <2>5. ASSUME NEW w \in Workers, FinishRegistration(w)
        PROVE  Touches
    BY <1>1, <2>1, <2>5 DEF FinishRegistration, Touches
  <2> QED BY <1>2, <2>1, <2>2, <2>3, <2>4, <2>5 DEF Registering, HostRegisters, PassGoesOn, notRegistering
<1>3. CASE SettingsChange \/ Foreground
  BY <1>1, <1>3 DEF SettingsChange, Foreground, notRegistering, Touches
<1>4. CASE Authorizing
  <2>1. UNCHANGED <<late, wanted, now, token, worker, server>>
    BY <1>4 DEF Authorizing
  <2>2. CASE OpenNwaRequest \/ CompleteNwaCallback \/ CancelNwa
    BY <1>1, <2>1, <2>2 DEF OpenNwaRequest, CompleteNwaCallback, CancelNwa, Touches
  <2>3. CASE ApproveNwa
    <3>1. PICK request \in shown : InsertConnection(request.client, now)
      BY <2>3 DEF ApproveNwa, ApprovePendingNwa
    <3>2. request.client \in ConnectionIds
      BY CastAssumption DEF ShownOffered
    <3>3. Inserts(request.client)
      BY <1>1, <3>1 DEF Inserts, InsertConnection
    <3> QED BY <2>1, <3>2, <3>3 DEF Touches
  <2> QED BY <1>4, <2>1, <2>2, <2>3 DEF Authorizing
<1>5. CASE ProceedWithCalls
  <2>1. UNCHANGED <<late, wanted, now, token, worker, server>>
    BY <1>5 DEF ProceedWithCalls
  <2>2. CASE CreateFails \/ DeleteClientSecret
    BY <1>1, <2>1, <2>2 DEF CreateFails, DeleteClientSecret, Touches
  <2>3. CASE CreateHostConnection
    <3>1. call.conn \in ConnectionIds /\ InsertConnection(call.conn, now)
      BY <2>3 DEF CreateHostConnection, SecretsKnown
    <3>2. Inserts(call.conn)
      BY <1>1, <3>1 DEF Inserts, InsertConnection
    <3> QED BY <2>1, <3>1, <3>2 DEF Touches
  <2>4. ASSUME NEW c \in ConnectionIds, RevokeHostConnection(c)
        PROVE  Touches
    BY <1>1, <2>1, <2>4 DEF RevokeHostConnection, Touches
  <2> QED BY <1>5, <2>1, <2>2, <2>3, <2>4 DEF ProceedWithCalls
<1>6. CASE HandleConnections
  <2>1. UNCHANGED <<late, wanted, now, token, worker, server>>
    BY <1>6 DEF HandleConnections
  <2>2. CASE WantRevoked
    BY <1>1, <2>1, <2>2 DEF WantRevoked, Touches
  <2>3. ASSUME NEW c \in ConnectionIds, StoreClientSecret(c)
        PROVE  Touches
    BY <1>1, <2>1, <2>3 DEF StoreClientSecret, Touches
  <2>4. ASSUME NEW c \in ConnectionIds, MigrateLegacy(c)
        PROVE  Touches
    <3>1. Inserts(c)
      BY <1>1, <2>4 DEF MigrateLegacy, ImportConnection, Inserts
    <3> QED BY <2>1, <3>1 DEF Touches
  <2> QED BY <1>6, <2>1, <2>2, <2>3, <2>4 DEF HandleConnections
<1>7. CASE InfoEvents
  BY <1>1, <1>7 DEF InfoEvents, Touches
<1>8. CASE ResetSession
  BY <1>1, <1>8 DEF ResetSession, Touches
<1>9. CASE Restart
  BY <1>9 DEF Restart, Touches
<1>10. CASE TimePasses
  <2>1. now' \in Time
    BY <1>1, <1>10, RegistryAssumption DEF TimePasses, Tick, Time
  <2> QED BY <1>1, <1>10, <2>1 DEF TimePasses, Tick, Touches
<1>11. CASE UNCHANGED applicationVars
  BY <1>1, <1>11 DEF applicationVars, registrationVars, Touches
<1> QED BY <1>2, <1>3, <1>4, <1>5, <1>6, <1>7, <1>8, <1>9, <1>10, <1>11 DEF ApplicationNext

\* What the passes, the requests and the service may know of a connection is
\* kept by every step of the application.
LEMMA RegistrationKept ==
    ASSUME RegistrationInv, Touches, UNCHANGED <<late, wanted>>, permission \in BOOLEAN
    PROVE  RegistrationInv'
<1> USE DEF registryVars
<1>1. CASE UNCHANGED <<registryVars, worker, server>> /\ now' \in Time /\ token' \in PushTokens
  BY <1>1, BystanderStep
<1>2. CASE UNCHANGED <<now, token>>
  <2>1. CASE RequeueActive(permission, now) /\ UNCHANGED <<worker, server>>
    <3>1. wanted' \in [ConnectionIds -> Settings] /\ token' \in PushTokens
      BY <1>2 DEF RegistrationInv, RegistrationTypeOK
    <3> QED BY <1>2, <2>1, <3>1, RequeueStep
  <2>2. ASSUME NEW w \in Workers, LoadDue(w) \/ TakeChange(w) \/ Post(w) \/ Acknowledge(w) \/ Defer(w)
        PROVE  RegistrationInv'
    BY <1>2, <2>2, LoadStep, TakeStep, PostStep, AcknowledgeStep, DeferStep
  <2>3. ASSUME NEW w \in Workers, PostFails(w) \/ StopPass(w), UNCHANGED registryVars
        PROVE  RegistrationInv'
    BY <1>2, <2>3, PassFaultStep
  <2>4. ASSUME NEW c \in ConnectionIds, Inserts(c), UNCHANGED <<worker, server>>
        PROVE  RegistrationInv'
    <3>1. PICK created \in Time : /\ created <= now
                                  /\ InsertConnectionState(c, created, 0, now)
      BY <2>4 DEF Inserts
    <3>2. wanted' \in [ConnectionIds -> Settings]
      BY DEF RegistrationInv, RegistrationTypeOK
    <3> QED BY <1>2, <2>4, <3>1, <3>2, InsertStep
  <2>5. ASSUME NEW c \in ConnectionIds,
               TombstoneConnection(c, connections[c].revision, now),
               UNCHANGED <<worker, server>>
        PROVE  RegistrationInv'
    BY <1>2, <2>5, TombstoneStep
  <2>6. CASE worker' = [w \in Workers |-> Resting] /\ UNCHANGED <<registryVars, server>>
    BY <1>2, <2>6, RestartStep
  <2> QED BY <1>1, <1>2, <2>1, <2>2, <2>3, <2>4, <2>5, <2>6 DEF Touches
<1> QED BY <1>1, <1>2 DEF Touches

-----------------------------------------------------------------------------
(* The connections.                                                        *)

\* A connection is made once, revoked once, and keeps its creation time.
Ages(c) ==
    \/ connections'[c] = connections[c]
    \/ connections[c].status = "absent" /\ connections'[c].status = "active"
    \/ /\ connections[c].status = "active" /\ connections'[c].status = "tombstoned"
       /\ connections'[c].created_at = connections[c].created_at

\* What an insertion does to the rows.
LEMMA InsertedRows ==
    ASSUME RegistryTypeOK, NEW c \in ConnectionIds, Inserts(c)
    PROVE  /\ connections[c].status = "absent"
           /\ connections'[c].status = "active"
           /\ outbox'[c] # NoChange /\ outbox'[c].enabled = TRUE
           /\ \A d \in ConnectionIds \ {c} :
                  connections'[d] = connections[d] /\ outbox'[d] = outbox[d]
<1>1. PICK created \in Time : InsertConnectionState(c, created, 0, now)
  BY DEF Inserts
<1>2. connections[c].status = "absent"
  BY <1>1 DEF InsertConnectionState, Unclaimed
<1>3. /\ connections'[c].status = "active"
      /\ \A d \in ConnectionIds \ {c} : connections'[d] = connections[d]
  BY <1>1 DEF InsertConnectionState, RegistryTypeOK
<1>4. /\ outbox'[c] # NoChange /\ outbox'[c].enabled = TRUE
      /\ \A d \in ConnectionIds \ {c} : outbox'[d] = outbox[d]
  BY <1>1 DEF InsertConnectionState, RegistryTypeOK, NoChange
<1> QED BY <1>2, <1>3, <1>4

\* What a revocation does to the rows.
LEMMA TombstonedRows ==
    ASSUME RegistryTypeOK, NEW c \in ConnectionIds,
           TombstoneConnection(c, connections[c].revision, now)
    PROVE  /\ connections[c].status = "active"
           /\ connections'[c].status = "tombstoned"
           /\ connections'[c].created_at = connections[c].created_at
           /\ outbox'[c] # NoChange
           /\ \A d \in ConnectionIds \ {c} :
                  connections'[d] = connections[d] /\ outbox'[d] = outbox[d]
<1>1. connections[c].status = "active"
  BY DEF TombstoneConnection, RevisionActive
<1>2. /\ connections'[c].status = "tombstoned"
      /\ connections'[c].created_at = connections[c].created_at
      /\ \A d \in ConnectionIds \ {c} : connections'[d] = connections[d]
  BY DEF TombstoneConnection, RegistryTypeOK, ConnectionRow
<1>3. /\ outbox'[c] # NoChange
      /\ \A d \in ConnectionIds \ {c} : outbox'[d] = outbox[d]
  BY DEF TombstoneConnection, RegistryTypeOK, NoChange
<1> QED BY <1>1, <1>2, <1>3

\* The steps of a pass leave the connections alone.
LEMMA PassLeavesConnections ==
    ASSUME NEW w \in Workers, LoadDue(w) \/ TakeChange(w) \/ Post(w) \/ Acknowledge(w) \/ Defer(w)
    PROVE  UNCHANGED <<connections, used>>
BY DEF LoadDue, TakeChange, Post, Acknowledge, Defer, AcknowledgeWakeRegistration,
       RetryWakeRegistration, registryVars

\* Every step of the application.
LEMMA ConnectionsAge ==
    ASSUME RegistryTypeOK, Touches, NEW c \in ConnectionIds
    PROVE  Ages(c)
<1> USE DEF registryVars
<1>1. CASE UNCHANGED connections
  BY <1>1 DEF Ages
<1>2. ASSUME NEW d \in ConnectionIds, Inserts(d)
      PROVE  Ages(c)
  BY <1>2, InsertedRows DEF Ages
<1>3. ASSUME NEW d \in ConnectionIds, TombstoneConnection(d, connections[d].revision, now)
      PROVE  Ages(c)
  BY <1>3, TombstonedRows DEF Ages
<1>4. CASE RequeueActive(permission, now)
  BY <1>1, <1>4 DEF RequeueActive
<1> QED BY <1>1, <1>2, <1>3, <1>4, PassLeavesConnections DEF Touches

-----------------------------------------------------------------------------
(* Passes, one at a time.                                                  *)

Passing == {"started", "running", "failed", "done"}

TasksInv ==
    /\ DOMAIN task = Workers
    /\ \A w \in Workers : task[w] = Idle \/ task[w].state \in Passing
    /\ {in_flight, refresh_pending, permission, overlapped, dropped} \subseteq BOOLEAN
    /\ PassesSerialized

\* A pass is claimed when none runs.
LEMMA StartKeepsTasks ==
    ASSUME TasksInv, StartPass, ~in_flight, UNCHANGED overlapped
    PROVE  /\ DOMAIN task' = Workers /\ in_flight' \in BOOLEAN
           /\ \A w \in Workers : task'[w] = Idle \/ task'[w].state \in Passing
           /\ PassesSerialized'
<1> DEFINE v == CHOOSE u \in Workers : task[u] = Idle
<1>1. v \in Workers /\ task[v] = Idle
  BY DEF StartPass
<1>2. task' = [task EXCEPT ![v] = [state |-> "started"]] /\ in_flight' = TRUE
  BY DEF StartPass
<1> HIDE DEF v
<1>3. DOMAIN task' = Workers /\ task'[v] = [state |-> "started"]
  BY <1>1, <1>2 DEF TasksInv
<1>4. \A w \in Workers \ {v} : task'[w] = task[w]
  BY <1>1, <1>2 DEF TasksInv
<1>5. [state |-> "started"] # Idle
  BY DEF Idle
<1>6. \A w \in Workers : task'[w] = Idle \/ task'[w].state \in Passing
  BY <1>3, <1>4 DEF TasksInv, Passing
<1>7. ASSUME ~overlapped, NEW w \in Workers \ {v}
      PROVE  task'[w] = Idle
  BY <1>4, <1>7 DEF TasksInv, PassesSerialized
<1>8. PassesSerialized'
  BY <1>1, <1>2, <1>3, <1>5, <1>7 DEF PassesSerialized
<1> QED BY <1>2, <1>3, <1>6, <1>8

\* A running pass takes a step.
LEMMA PassKeepsTasks ==
    ASSUME TasksInv, NEW w \in Workers, task[w].state \in Passing, NEW next,
           next.state \in Passing, task' = [task EXCEPT ![w] = next],
           UNCHANGED <<in_flight, overlapped>>
    PROVE  /\ DOMAIN task' = Workers
           /\ \A v \in Workers : task'[v] = Idle \/ task'[v].state \in Passing
           /\ PassesSerialized'
<1>1. DOMAIN task' = Workers /\ task'[w] = next
  BY DEF TasksInv
<1>2. \A v \in Workers \ {w} : task'[v] = task[v]
  BY DEF TasksInv
<1>3. next # Idle /\ task[w] # Idle
  BY DEF Idle, Passing
<1>4. \A v \in Workers : task'[v] = Idle <=> task[v] = Idle
  BY <1>1, <1>2, <1>3
<1>5. PassesSerialized'
  BY <1>4 DEF TasksInv, PassesSerialized
<1> QED BY <1>1, <1>2, <1>5 DEF TasksInv

\* begin_registration, finish_registration, timers, refreshes, resets and
\* restarts keep the passes apart.
LEMMA TasksKept ==
    ASSUME TasksInv, [ApplicationNext]_applicationVars
    PROVE  TasksInv'
<1> USE DEF coordinatorVars, ghosts
<1>1. ASSUME UNCHANGED <<in_flight, refresh_pending, task, permission, overlapped, dropped>>
      PROVE  TasksInv'
  BY <1>1 DEF TasksInv, PassesSerialized
<1>2. CASE Registering
  <2>1. CASE BeginRegistration
    <3>1. CASE in_flight
      BY <1>1, <2>1, <3>1 DEF BeginRegistration
    <3>2. CASE ~in_flight
      <4>1. StartPass /\ UNCHANGED <<permission, overlapped>>
        BY <2>1, <3>2 DEF BeginRegistration
      <4>2. \/ UNCHANGED <<refresh_pending, dropped>>
            \/ refresh_pending' = FALSE /\ dropped' = FALSE
        BY <2>1, <3>2 DEF BeginRegistration
      <4> QED BY <3>2, <4>1, <4>2, StartKeepsTasks DEF TasksInv
    <3> QED BY <3>1, <3>2
  <2>2. CASE BeginFails \/ TimerFires
    BY <1>1, <2>2 DEF BeginFails, TimerFires
  <2>3. ASSUME NEW w \in Workers, RunPass(w)
        PROVE  TasksInv'
    <3>1. CASE UNCHANGED task
      BY <1>1, <2>3, <3>1 DEF RunPass
    <3>2. CASE ~UNCHANGED task
      <4>1. UNCHANGED <<in_flight, refresh_pending, permission, overlapped, dropped>>
        BY <2>3 DEF RunPass
      <4>2. task[w].state \in Passing
        BY <2>3 DEF RunPass, Passing
      <4>3. [state |-> "running"].state \in Passing /\ Done.state \in Passing
        BY DEF Passing, Done
      <4>4. \/ task' = [task EXCEPT ![w] = [state |-> "running"]]
            \/ task' = [task EXCEPT ![w] = Done]
        BY <2>3, <3>2 DEF RunPass
      <4> QED BY <4>1, <4>2, <4>3, <4>4, PassKeepsTasks DEF TasksInv
    <3> QED BY <3>1, <3>2
  <2>4. ASSUME NEW w \in Workers, PassFault(w)
        PROVE  TasksInv'
    <3>1. CASE UNCHANGED task
      BY <1>1, <2>4, <3>1 DEF PassFault
    <3>2. CASE task' = [task EXCEPT ![w] = [state |-> "failed"]]
      <4>1. UNCHANGED <<in_flight, refresh_pending, permission, overlapped, dropped>>
        BY <2>4 DEF PassFault
      <4>2. task[w].state \in Passing /\ [state |-> "failed"].state \in Passing
        BY <2>4 DEF PassFault, Passing
      <4> QED BY <3>2, <4>1, <4>2, PassKeepsTasks DEF TasksInv
    <3> QED BY <2>4, <3>1, <3>2 DEF PassFault
  <2>5. ASSUME NEW w \in Workers, FinishRegistration(w)
        PROVE  TasksInv'
    <3>1. /\ task' = [task EXCEPT ![w] = Idle] /\ in_flight' = FALSE
          /\ UNCHANGED <<refresh_pending, permission, overlapped, dropped>>
          /\ task[w] # Idle
      BY <2>5 DEF FinishRegistration, Idle
    <3>2. DOMAIN task' = Workers /\ task'[w] = Idle
      BY <3>1 DEF TasksInv
    <3>3. \A v \in Workers \ {w} : task'[v] = task[v]
      BY <3>1 DEF TasksInv
    <3>4. ~overlapped => \A v \in Workers : task'[v] = Idle
      BY <3>1, <3>2, <3>3 DEF TasksInv, PassesSerialized
    <3>5. PassesSerialized'
      BY <3>1, <3>4 DEF PassesSerialized
    <3> QED BY <3>1, <3>2, <3>3, <3>5 DEF TasksInv
  <2> QED BY <1>2, <2>1, <2>2, <2>3, <2>4, <2>5 DEF Registering, HostRegisters, PassGoesOn
<1>12. CASE Foreground
  BY <1>1, <1>12 DEF Foreground
<1>3. CASE SettingsChange
  BY <1>3 DEF SettingsChange, TasksInv, PassesSerialized
<1>4. CASE Authorizing
  BY <1>1, <1>4 DEF Authorizing, OpenNwaRequest, ApproveNwa, CompleteNwaCallback, CancelNwa
<1>5. CASE ProceedWithCalls
  BY <1>1, <1>5 DEF ProceedWithCalls, CreateHostConnection, CreateFails, DeleteClientSecret,
     RevokeHostConnection
<1>6. CASE HandleConnections
  BY <1>1, <1>6 DEF HandleConnections, WantRevoked, StoreClientSecret, MigrateLegacy
<1>7. CASE InfoEvents
  BY <1>1, <1>7 DEF InfoEvents
<1>8. CASE ResetSession
  BY <1>8 DEF ResetSession, TasksInv, PassesSerialized
<1>9. CASE Restart
  BY <1>9 DEF Restart, TasksInv, PassesSerialized
<1>10. CASE TimePasses
  BY <1>1, <1>10 DEF TimePasses
<1>11. CASE UNCHANGED applicationVars
  BY <1>1, <1>11 DEF applicationVars
<1> QED BY <1>2, <1>3, <1>4, <1>5, <1>6, <1>7, <1>8, <1>9, <1>10, <1>11, <1>12
        DEF ApplicationNext

-----------------------------------------------------------------------------
(* Nostr Wallet Auth.                                                      *)

AuthInv ==
    /\ ShownOffered
    /\ DOMAIN granted = ConnectionIds
    /\ \A c \in ConnectionIds : granted[c] # NoGrant => connections[c].status # "absent"
    /\ GrantedAsShown /\ CallbackNotReplaced

\* A grant stays as it was while its connection ages.
LEMMA GrantsStay ==
    ASSUME AuthInv, \A c \in ConnectionIds : Ages(c), UNCHANGED <<cast, granted>>,
           shown' \subseteq shown \cup cast.offers,
           \/ UNCHANGED <<nwa_callback, answered>>
           \/ answered' = answered \cup ({nwa_callback} \ {NoConnection})
    PROVE  AuthInv'
<1>1. ShownOffered'
  BY DEF AuthInv, ShownOffered
<1>2. \A c \in ConnectionIds : granted'[c] # NoGrant => connections'[c].status # "absent"
  BY DEF AuthInv, Ages
<1>3. GrantedAsShown'
  <2>1. \A c \in ConnectionIds : granted[c] # NoGrant =>
            connections'[c].created_at = connections[c].created_at
    BY DEF AuthInv, Ages
  <2> QED BY <2>1 DEF AuthInv, GrantedAsShown
<1>4. CallbackNotReplaced'
  BY CastAssumption DEF AuthInv, CallbackNotReplaced
<1> QED BY <1>1, <1>2, <1>3, <1>4 DEF AuthInv

\* approve_nwa: the connection is the client's and no wider than the request.
LEMMA ApprovalStep ==
    ASSUME AuthInv, RegistrationTypeOK, \A c \in ConnectionIds : Ages(c), ApproveNwa,
           UNCHANGED <<cast, now>>
    PROVE  AuthInv'
<1>1. PICK request \in shown, selection \in cast.selections :
          /\ ApprovePendingNwa(request, selection)
          /\ granted' = [granted EXCEPT ![request.client] =
                 [request |-> request, draft |-> Draft(request.client, selection)]]
  BY DEF ApproveNwa
<1> DEFINE c0 == request.client
           grant == [request |-> request, draft |-> Draft(request.client, selection)]
<1>2. UNCHANGED <<shown, answered>>
  BY DEF ApproveNwa
<1>3. c0 \in ConnectionIds /\ ExpiresAt[c0] = request.expires_at
  BY CastAssumption DEF AuthInv, ShownOffered
<1>4. /\ nwa_callback = NoConnection
      /\ Subset(Parse(request), Draft(request.client, selection))
      /\ InsertConnectionState(c0, now, 0, now)
      /\ nwa_callback' = IF Parse(request).callback THEN c0 ELSE NoConnection
  BY <1>1 DEF ApprovePendingNwa, InsertConnection
<1>5. /\ connections'[c0].status = "active" /\ connections'[c0].created_at = now
      /\ ExpiresAt[c0] = 0 \/ ExpiresAt[c0] > now
  BY <1>3, <1>4 DEF InsertConnectionState, RegistrationTypeOK, RegistryTypeOK
<1>6. DOMAIN granted' = ConnectionIds /\ granted'[c0] = grant
  BY <1>1, <1>3 DEF AuthInv
<1>7. \A c \in ConnectionIds \ {c0} : granted'[c] = granted[c]
  BY <1>1, <1>3 DEF AuthInv
<1>8. grant.request = request /\ grant.draft = Draft(c0, selection)
  OBVIOUS
<1> HIDE DEF grant, c0
<1>9. ShownOffered'
  BY <1>2 DEF AuthInv, ShownOffered
<1>10. \A c \in ConnectionIds : granted'[c] # NoGrant => connections'[c].status # "absent"
  BY <1>5, <1>7 DEF AuthInv, Ages
<1>11. GrantedAsShown'
  <2>1. ASSUME NEW c \in ConnectionIds \ {c0}, granted'[c] # NoGrant
        PROVE  LET r == granted'[c].request
               IN  /\ granted'[c].draft.client = r.client
                   /\ WithinRequest(Parse(r), granted'[c].draft)
                   /\ r.expires_at # 0 => connections'[c].created_at < r.expires_at
    <3>1. granted[c] # NoGrant /\ granted'[c] = granted[c]
      BY <1>7, <2>1
    <3>2. connections'[c].created_at = connections[c].created_at
      BY <3>1 DEF AuthInv, Ages
    <3> QED BY <3>1, <3>2 DEF AuthInv, GrantedAsShown
  <2>2. /\ Draft(c0, selection).client = request.client
        /\ WithinRequest(Parse(request), Draft(c0, selection))
    BY <1>4 DEF c0, Subset, WithinRequest, Draft
  <2>3. request.expires_at # 0 => connections'[c0].created_at < request.expires_at
    BY <1>3, <1>5, RegistryAssumption DEF RegistrationTypeOK, Time
  <2> QED BY <1>6, <1>8, <2>1, <2>2, <2>3 DEF GrantedAsShown
<1>12. CallbackNotReplaced'
  <2>1. ASSUME NEW c \in ConnectionIds \ {c0}, granted'[c] # NoGrant,
               granted'[c].request.return_to
        PROVE  c \in answered'
    BY <1>2, <1>4, <1>7, <2>1, CastAssumption DEF AuthInv, CallbackNotReplaced
  <2>2. request.return_to => nwa_callback' = c0
    BY <1>4 DEF Parse
  <2> QED BY <1>6, <1>8, <2>1, <2>2 DEF CallbackNotReplaced
<1> QED BY <1>6, <1>9, <1>10, <1>11, <1>12 DEF AuthInv

\* Requests are opened, approved and cancelled; callbacks are opened, given
\* up or lost; nothing else concerns them.
LEMMA AuthKept ==
    ASSUME AuthInv, RegistrationTypeOK, \A c \in ConnectionIds : Ages(c),
           [ApplicationNext]_applicationVars
    PROVE  AuthInv'
<1> USE DEF nwaVars
<1>1. ASSUME UNCHANGED <<cast, nwaVars>>
      PROVE  AuthInv'
  BY <1>1, GrantsStay
<1>2. CASE Authorizing
  <2>1. UNCHANGED <<cast, now>>
    BY <1>2 DEF Authorizing
  <2>2. CASE OpenNwaRequest
    BY <2>1, <2>2, GrantsStay DEF OpenNwaRequest
  <2>3. CASE CompleteNwaCallback
    <3>1. answered' = answered \cup ({nwa_callback} \ {NoConnection})
      BY <2>3 DEF CompleteNwaCallback
    <3> QED BY <2>1, <2>3, <3>1, GrantsStay DEF CompleteNwaCallback
  <2>4. CASE CancelNwa
    BY <2>1, <2>4, GrantsStay DEF CancelNwa, ClearNwa
  <2>5. CASE ApproveNwa
    BY <2>1, <2>5, ApprovalStep
  <2> QED BY <1>2, <2>2, <2>3, <2>4, <2>5 DEF Authorizing
<1>3. CASE ResetSession
  BY <1>3, GrantsStay DEF ResetSession, ClearNwa
<1>4. CASE Restart
  BY <1>4, GrantsStay DEF Restart
<1>5. CASE Registering \/ SettingsChange \/ TimePasses \/ InfoEvents \/ Foreground
  BY <1>1, <1>5 DEF Registering, HostRegisters, PassGoesOn, notRegistering, SettingsChange,
     TimePasses, InfoEvents, Foreground
<1>6. CASE ProceedWithCalls \/ HandleConnections
  BY <1>1, <1>6 DEF ProceedWithCalls, HandleConnections
<1>7. CASE UNCHANGED applicationVars
  BY <1>1, <1>7 DEF applicationVars
<1> QED BY <1>2, <1>3, <1>4, <1>5, <1>6, <1>7 DEF ApplicationNext

-----------------------------------------------------------------------------
(* Client secrets.                                                         *)

SecretsInv == SecretsKnown /\ ConnectionHasSecret

\* Creations and revocations, cut off or failing at any step.
LEMMA SecretsKept ==
    ASSUME SecretsInv, RegistrationTypeOK, \A c \in ConnectionIds : Ages(c),
           [ApplicationNext]_applicationVars
    PROVE  SecretsInv'
<1> USE DEF secretVars, SecretsInv, SecretsKnown, ConnectionHasSecret, Ages
<1>1. ASSUME UNCHANGED <<secrets, made, call>>
      PROVE  SecretsInv'
  BY <1>1
<1>2. CASE ProceedWithCalls
  <2>1. CASE CreateHostConnection
    <3>1. connections'[call.conn].status = "active"
      BY <2>1 DEF CreateHostConnection, InsertConnection, InsertConnectionState,
         RegistrationTypeOK, RegistryTypeOK
    <3> QED BY <2>1, <3>1 DEF CreateHostConnection, NoCall
  <2>2. CASE CreateFails
    BY <2>2 DEF CreateFails, NoCall
  <2>3. CASE DeleteClientSecret
    BY <2>3 DEF DeleteClientSecret, NoCall
  <2>4. ASSUME NEW c \in ConnectionIds, RevokeHostConnection(c)
        PROVE  SecretsInv'
    <3>1. connections'[c].status = "tombstoned"
      BY <2>4 DEF RevokeHostConnection, TombstoneConnection, registryVars,
         RegistrationTypeOK, RegistryTypeOK, ConnectionRow
    <3>2. /\ call'.op = "revoke" /\ call'.conn = c
          /\ UNCHANGED <<secrets, made>>
      BY <2>4 DEF RevokeHostConnection
    <3> QED BY <3>1, <3>2
  <2> QED BY <1>2, <2>1, <2>2, <2>3, <2>4 DEF ProceedWithCalls
<1>3. CASE HandleConnections
  <2>1. CASE WantRevoked
    BY <1>1, <2>1 DEF WantRevoked
  <2>2. ASSUME NEW c \in ConnectionIds, StoreClientSecret(c)
        PROVE  SecretsInv'
    <3>1. connections[c].status = "absent"
      BY <2>2 DEF StoreClientSecret, Unclaimed
    <3> QED BY <2>2, <3>1 DEF StoreClientSecret
  <2>3. ASSUME NEW c \in ConnectionIds, MigrateLegacy(c)
        PROVE  SecretsInv'
    BY <1>1, <2>3 DEF MigrateLegacy
  <2> QED BY <1>3, <2>1, <2>2, <2>3 DEF HandleConnections
<1>4. CASE Restart
  BY <1>4 DEF Restart, NoCall
<1>5. CASE Registering \/ SettingsChange \/ TimePasses \/ InfoEvents \/ Foreground
  BY <1>1, <1>5 DEF Registering, HostRegisters, PassGoesOn, notRegistering, SettingsChange,
     TimePasses, InfoEvents, Foreground
<1>6. CASE Authorizing \/ ResetSession
  BY <1>1, <1>6 DEF Authorizing, ResetSession
<1>7. CASE UNCHANGED applicationVars
  BY <1>1, <1>7 DEF applicationVars
<1> QED BY <1>2, <1>3, <1>4, <1>5, <1>6, <1>7 DEF ApplicationNext

-----------------------------------------------------------------------------
(* Info events.                                                            *)

InfoInv ==
    /\ described \subseteq ConnectionIds /\ listed \subseteq Pairs(described)
    /\ \A c \in described : connections[c].status # "absent"
    /\ DOMAIN published = Pairs(ConnectionIds)
    /\ publishing # NoInfo =>
           publishing \in Pairs(ConnectionIds) /\ published[publishing] = version
    /\ InfoEventsCurrent

\* No connection with metadata becomes active: it was when it was described.
LEMMA DescribedStay ==
    ASSUME InfoInv, \A c \in ConnectionIds : Ages(c), UNCHANGED infoVars
    PROVE  InfoInv'
<1> USE DEF infoVars
<1>1. \A c \in described : connections'[c].status # "absent"
  BY DEF InfoInv, Ages
<1>2. (Active \cap described)' \subseteq Active \cap described
  BY DEF InfoInv, Ages, Active
<1>3. Pairs(Active \cap described)' \subseteq Pairs(Active \cap described)
  BY <1>2 DEF Pairs
<1>4. InfoEventsCurrent'
  BY <1>3 DEF InfoInv, InfoEventsCurrent
<1> QED BY <1>1, <1>4 DEF InfoInv, Pairs

\* Publication, acknowledgement, upgrade and the refresh after it.
LEMMA InfoKept ==
    ASSUME InfoInv, \A c \in ConnectionIds : Ages(c), [ApplicationNext]_applicationVars
    PROVE  InfoInv'
<1>1. CASE InfoEvents
  <2>1. UNCHANGED connections
    BY <1>1 DEF InfoEvents, registryVars
  <2>2. UNCHANGED Active
    BY <2>1 DEF Active
  <2>3. CASE SetConnectionMetadata
    <3>1. PICK c \in Active \ described, relays \in SUBSET Relays :
              /\ described' = described \cup {c}
              /\ info_outbox' = info_outbox \cup ({c} \X relays)
              /\ listed' = listed \cup ({c} \X relays)
      BY <2>3 DEF SetConnectionMetadata
    <3>2. UNCHANGED <<published, publishing, version, refresh_info>>
      BY <2>3 DEF SetConnectionMetadata
    <3>3. c \in ConnectionIds /\ connections[c].status = "active"
      BY DEF Active
    <3>4. ASSUME NEW pair \in listed' \cap Pairs(Active \cap described)'
          PROVE  \/ pair \in info_outbox'
                 \/ pair \in listed \cap Pairs(Active \cap described)
      <4>1. CASE pair \in {c} \X relays
        BY <3>1, <4>1
      <4>2. CASE pair \in listed
        <5>1. pair \in Pairs(described)
          BY <4>2 DEF InfoInv
        <5> QED BY <2>2, <3>4, <4>2, <5>1 DEF Pairs
      <4> QED BY <3>1, <3>4, <4>1, <4>2
    <3>5. InfoEventsCurrent'
      <4> SUFFICES ASSUME NEW pair \in listed' \cap Pairs(Active \cap described)'
                   PROVE  \/ pair \in info_outbox' \/ refresh_info'
                          \/ published'[pair] = version'
        BY DEF InfoEventsCurrent
      <4>1. CASE pair \in listed \cap Pairs(Active \cap described)
        BY <3>1, <3>2, <4>1 DEF InfoInv, InfoEventsCurrent
      <4> QED BY <3>4, <4>1
    <3>6. listed' \subseteq Pairs(described')
      BY <3>1 DEF InfoInv, Pairs
    <3> QED BY <2>1, <3>1, <3>2, <3>3, <3>5, <3>6 DEF InfoInv, Pairs
  <2>4. CASE PublishInfoEvent
    <3>1. PICK pair \in info_outbox \cap Pairs(Active) :
              /\ publishing' = pair
              /\ published' = [published EXCEPT ![pair] = version]
      BY <2>4 DEF PublishInfoEvent
    <3>2. UNCHANGED <<described, info_outbox, listed, version, refresh_info>>
      BY <2>4 DEF PublishInfoEvent
    <3>3. pair \in Pairs(ConnectionIds)
      BY DEF Pairs, Active
    <3>4. DOMAIN published' = Pairs(ConnectionIds) /\ published'[pair] = version
      BY <3>1, <3>3 DEF InfoInv
    <3>5. InfoEventsCurrent'
      <4>1. SUFFICES ASSUME NEW p \in listed \cap Pairs(Active \cap described),
                            p \notin info_outbox, ~refresh_info
                     PROVE  published'[p] = version
        BY <2>2, <3>2 DEF InfoEventsCurrent, Pairs
      <4>2. p # pair /\ p \in Pairs(ConnectionIds)
        BY <4>1 DEF Pairs, Active
      <4> QED BY <3>1, <4>1, <4>2 DEF InfoInv, InfoEventsCurrent
    <3> QED BY <2>1, <3>1, <3>2, <3>3, <3>4, <3>5 DEF InfoInv, Pairs
  <2>5. CASE AcknowledgeNwcInfoEvent
    <3>1. /\ publishing # NoInfo /\ publishing' = NoInfo
          /\ info_outbox' = info_outbox \ {publishing}
          /\ UNCHANGED <<described, listed, published, version, refresh_info>>
      BY <2>5 DEF AcknowledgeNwcInfoEvent
    <3>2. InfoEventsCurrent'
      BY <2>2, <3>1 DEF InfoInv, InfoEventsCurrent, Pairs
    <3> QED BY <2>1, <3>1, <3>2 DEF InfoInv, Pairs
  <2>6. CASE RefreshNwcInfoEvents
    <3>1. /\ info_outbox' = info_outbox \cup Pairs(Active \cap described)
          /\ listed' = listed \cup Pairs(Active \cap described)
          /\ UNCHANGED <<described, published, publishing, version>>
      BY <2>6 DEF RefreshNwcInfoEvents
    <3>2. InfoEventsCurrent'
      BY <2>2, <3>1 DEF InfoEventsCurrent, Pairs
    <3> QED BY <2>1, <3>1, <3>2 DEF InfoInv, Pairs
  <2> QED BY <1>1, <2>3, <2>4, <2>5, <2>6 DEF InfoEvents
<1>2. CASE Restart
  <2>1. UNCHANGED <<connections, described, info_outbox, listed, published>> /\ publishing' = NoInfo
    BY <1>2 DEF Restart, registryVars
  <2>2. UNCHANGED <<version, refresh_info>> \/ refresh_info' = TRUE
    BY <1>2 DEF Restart
  <2>3. InfoEventsCurrent'
    BY <2>1, <2>2 DEF InfoInv, InfoEventsCurrent, Pairs, Active
  <2> QED BY <2>1, <2>3 DEF InfoInv, Pairs
<1>3. CASE Registering \/ SettingsChange \/ TimePasses \/ Authorizing \/ Foreground
  BY <1>3, DescribedStay DEF Registering, HostRegisters, PassGoesOn, notRegistering, SettingsChange,
     TimePasses, Authorizing, Foreground
<1>4. CASE ProceedWithCalls \/ HandleConnections \/ ResetSession
  BY <1>4, DescribedStay DEF ProceedWithCalls, HandleConnections, ResetSession
<1>5. CASE UNCHANGED applicationVars
  BY <1>5, DescribedStay DEF applicationVars
<1> QED BY <1>1, <1>2, <1>3, <1>4, <1>5 DEF ApplicationNext

-----------------------------------------------------------------------------
(* What a pass carries, and what the service holds of the settings.        *)

\* A pass that has taken a change, and every change it has still to settle.
Handles(s) == s.pc \in {"post", "ack", "retry"}

Carried(s) ==
    (IF s = Resting THEN {} ELSE s.todo) \cup (IF Handles(s) THEN {s.change} ELSE {})

\* One change of each connection.
Distinct(s) ==
    /\ \A a, b \in Carried(s) : a.conn = b.conn => a = b
    /\ Handles(s) => s.change \notin s.todo

\* What a pass carries of active connections is what the outbox holds.
Queued(s, rows, box) ==
    \A change \in Carried(s) :
        rows[change.conn].status = "active" => box[change.conn] = change.row

\* A registration as the settings want it.
Current(registration, enabled, push) ==
    /\ registration # Unregistered
    /\ registration.enabled = enabled /\ registration.token = push

\* A pass posts the current token, and the relays it is through have it.
UpToDate(s, rows, service, want, push) ==
    /\ s # Resting => s.token = push
    /\ Handles(s) /\ rows[s.change.conn].status = "active" =>
           \A r \in Relays : r < s.relay \/ s.pc = "ack" =>
               Current(service[s.change.conn][r], want[s.change.conn], push)

\* What the service is wanted to hold of each connection.
Wants == [c \in ConnectionIds |-> EnabledFor(c)]

\* A setting has changed since the last durable refresh.
Unrefreshed == refresh_pending \/ dropped

\* An active connection is registered as wanted or the outbox asks for it.
RowCurrent(row, queued, registrations, enabled, push) ==
    row.status = "active" =>
        \/ queued = NoChange /\ \A r \in Relays : Current(registrations[r], enabled, push)
        \/ queued # NoChange /\ queued.enabled = enabled

\* Nothing is known of a connection before it is made.
AbsentUnknown ==
    \A c \in ConnectionIds : connections[c].status = "absent" =>
        outbox[c] = NoChange /\ \A r \in Relays : server[c][r] = Unregistered

CarriedKnown ==
    \A w \in Workers :
        /\ Distinct(worker[w])
        /\ \A change \in Carried(worker[w]) : connections[change.conn].status # "absent"

\* Only a running pass has a local state.
OnlyRunning == \A w \in Workers : task[w].state # "running" => worker[w] = Resting

CarriedQueued == \A w \in Workers : Queued(worker[w], connections, outbox)

AllCurrent ==
    /\ \A c \in ConnectionIds :
           RowCurrent(connections[c], outbox[c], server[c], Wants[c], token)
    /\ \A w \in Workers : UpToDate(worker[w], connections, server, Wants, token)

ServiceInv ==
    /\ AbsentUnknown /\ CarriedKnown /\ OnlyRunning
    /\ ~overlapped => CarriedQueued
    /\ ~overlapped /\ ~Unrefreshed => AllCurrent

\* A pass at rest carries nothing.
LEMMA RestingCarries ==
    /\ Carried(Resting) = {} /\ ~Handles(Resting) /\ Distinct(Resting)
    /\ \A rows, box : Queued(Resting, rows, box)
    /\ \A rows, service, want, push : UpToDate(Resting, rows, service, want, push)
<1>1. ~Handles(Resting) /\ Carried(Resting) = {}
  BY DEF Handles, Carried, Resting
<1> QED BY <1>1 DEF Distinct, Queued, UpToDate

\* Every change that is carried is a row of a connection.
LEMMA CarriedTypes ==
    ASSUME RegistrationTypeOK, NEW w \in Workers
    PROVE  /\ Carried(worker[w]) \subseteq Change
           /\ \A change \in Carried(worker[w]) :
                  /\ change.conn \in ConnectionIds /\ change.row \in OutboxRow
                  /\ change.row # NoChange
           /\ Handles(worker[w]) <=> worker[w] \in Handling
           /\ Handles(worker[w]) => worker[w] # Resting
<1>1. worker[w] \in {Resting} \cup Looping \cup Handling
  BY DEF RegistrationTypeOK
<1>2. CASE worker[w] = Resting
  BY <1>2, RestingCarries DEF Handling, Resting
<1>3. CASE worker[w] \in Looping
  BY <1>3 DEF Looping, Handling, Carried, Handles, Change, OutboxRow, NoChange
<1>4. CASE worker[w] \in Handling
  BY <1>4 DEF Handling, Carried, Handles, Change, OutboxRow, NoChange, Resting
<1> QED BY <1>1, <1>2, <1>3, <1>4

\* While no session was reset under a pass, at most one worker is busy.
LEMMA Alone ==
    ASSUME TasksInv, OnlyRunning, ~overlapped, NEW w \in Workers,
           task[w].state \in Passing
    PROVE  \A v \in Workers \ {w} : worker[v] = Resting
<1>1. task[w] # Idle
  BY DEF Idle, Passing
<1>2. \A v \in Workers \ {w} : task[v] = Idle
  BY <1>1 DEF TasksInv, PassesSerialized
<1>3. Idle.state # "running"
  BY DEF Idle
<1> QED BY <1>2, <1>3 DEF OnlyRunning

\* Without a claimed pass none is.
LEMMA NoneBusy ==
    ASSUME TasksInv, OnlyRunning, ~overlapped, ~in_flight
    PROVE  \A v \in Workers : worker[v] = Resting
<1>1. \A v \in Workers : task[v] = Idle
  BY DEF TasksInv, PassesSerialized
<1>2. Idle.state # "running"
  BY DEF Idle
<1> QED BY <1>1, <1>2 DEF OnlyRunning

-----------------------------------------------------------------------------
(* One step of a pass.                                                     *)

\* What a step of pass w must show, from its local state s to n.
Carries(s, n) ==
    /\ Distinct(n)
    /\ \A change \in Carried(n) : connections[change.conn].status # "absent"
    /\ Queued(s, connections, outbox) => Queued(n, connections, outbox')
    /\ \A c \in ConnectionIds : connections[c].status = "absent" =>
           outbox'[c] = outbox[c] /\ server'[c] = server[c]

Advances(s, n) ==
    /\ \A c \in ConnectionIds :
           RowCurrent(connections[c], outbox[c], server[c], Wants[c], token)
    /\ UpToDate(s, connections, server, Wants, token)
    /\ Queued(s, connections, outbox)
    => /\ \A c \in ConnectionIds :
              RowCurrent(connections[c], outbox'[c], server'[c], Wants[c], token)
       /\ UpToDate(n, connections, server', Wants, token)

\* Loading the due rows.
LEMMA LoadCarries ==
    ASSUME RegistrationInv, AbsentUnknown, NEW w \in Workers, LoadDue(w)
    PROVE  Carries(worker[w], worker'[w]) /\ Advances(worker[w], worker'[w])
<1>1. PICK n : n = [pc |-> "next", todo |-> Due(now), token |-> token]
  OBVIOUS
<1>2. worker'[w] = n /\ UNCHANGED <<outbox, server>>
  BY <1>1 DEF LoadDue, registryVars, RegistrationInv, RegistrationTypeOK
<1>3. Carried(n) = Due(now) /\ ~Handles(n) /\ n.token = token
  BY <1>1 DEF Carried, Handles, Resting
<1>4. ASSUME NEW change \in Due(now)
      PROVE  /\ change.conn \in ConnectionIds /\ change.row = outbox[change.conn]
             /\ outbox[change.conn] # NoChange
             /\ change = [conn |-> change.conn, row |-> outbox[change.conn]]
  BY DEF Due
<1>5. Distinct(n)
  BY <1>3, <1>4 DEF Distinct
<1>6. Carries(worker[w], n)
  BY <1>2, <1>3, <1>4, <1>5 DEF Carries, Queued, AbsentUnknown
<1>7. Advances(worker[w], n)
  BY <1>2, <1>3 DEF Advances, UpToDate
<1> QED BY <1>2, <1>6, <1>7

\* Taking a change, or the end of the loop.
LEMMA TakeCarries ==
    ASSUME RegistrationInv, CarriedKnown, NEW w \in Workers, TakeChange(w)
    PROVE  Carries(worker[w], worker'[w]) /\ Advances(worker[w], worker'[w])
<1>1. PICK s : s = worker[w]
  OBVIOUS
<1>2. UNCHANGED <<outbox, server>>
  BY DEF TakeChange, registryVars
<1>3. s \in Looping /\ s.pc = "next" /\ s # Resting /\ ~Handles(s)
  BY <1>1, PassTypes DEF TakeChange, RegistrationInv, Looping, Resting, Handles
<1>4. Carried(s) = s.todo
  BY <1>3 DEF Carried
<1>5. CASE worker' = [worker EXCEPT ![w] = Resting]
  <2>1. worker'[w] = Resting
    BY <1>5 DEF RegistrationInv, RegistrationTypeOK
  <2> QED BY <1>2, <2>1, RestingCarries DEF Carries, Advances
<1>6. ASSUME NEW change \in s.todo,
             worker' = [worker EXCEPT ![w] =
                 [pc |-> "post", todo |-> @.todo \ {change},
                  token |-> @.token, change |-> change, relay |-> 1]]
      PROVE  Carries(s, worker'[w]) /\ Advances(s, worker'[w])
  <2>1. PICK n : n = [pc |-> "post", todo |-> s.todo \ {change},
                      token |-> s.token, change |-> change, relay |-> 1]
    OBVIOUS
  <2>2. worker'[w] = n
    BY <1>1, <1>6, <2>1 DEF RegistrationInv, RegistrationTypeOK
  <2>3. /\ Carried(n) = Carried(s) /\ Handles(n) /\ n.token = s.token
        /\ n.change \notin n.todo /\ n.relay = 1 /\ n.pc = "post"
    BY <1>4, <2>1 DEF Carried, Handles, Resting
  <2>4. Distinct(n) /\ \A a \in Carried(n) : connections[a.conn].status # "absent"
    BY <1>1, <2>3 DEF CarriedKnown, Distinct
  <2>5. Carries(s, n)
    BY <1>2, <2>3, <2>4 DEF Carries, Queued
  <2>6. \A r \in Relays : ~(r < n.relay)
    BY <2>3 DEF Relays
  <2>7. Advances(s, n)
    BY <1>2, <1>3, <2>3, <2>6 DEF Advances, UpToDate
  <2> QED BY <2>2, <2>5, <2>7
<1>7. \/ worker' = [worker EXCEPT ![w] = Resting]
      \/ \E change \in s.todo : worker' = [worker EXCEPT ![w] =
             [pc |-> "post", todo |-> @.todo \ {change},
              token |-> @.token, change |-> change, relay |-> 1]]
  BY <1>1 DEF TakeChange
<1> QED BY <1>1, <1>5, <1>6, <1>7

\* An answered request of an active connection is always the newest: the
\* service takes it over, and no other registration changes.
LEMMA ServeCurrent ==
    ASSUME RegistrationInv, NEW w \in Workers, worker[w].pc = "post",
           Serve(RequestOf(w)) \/ UNCHANGED server,
           NEW c, NEW k, c = worker[w].change.conn, k = worker[w].relay
    PROVE  /\ c \in ConnectionIds /\ k \in Relays
           /\ \A d \in ConnectionIds \ {c} : server'[d] = server[d]
           /\ \A r \in Relays \ {k} : server'[c][r] = server[c][r]
           /\ Serve(RequestOf(w)) /\ connections[c].status = "active" =>
                  Current(server'[c][k], worker[w].change.row.enabled, worker[w].token)
           /\ server'[c][k] = server[c][k] \/ server'[c][k] = RequestOf(w).what
<1>1. RequestOf(w) \in Request /\ worker[w] \in Handling
  BY RequestTypes
<1>2. PICK request : request = RequestOf(w)
  OBVIOUS
<1>3. /\ request \in Request /\ request.conn = c /\ request.relay = k
      /\ request.what.enabled = worker[w].change.row.enabled
      /\ request.what.token = worker[w].token
      /\ request.what.revision = worker[w].change.row.revision
  BY <1>1, <1>2 DEF RequestOf
<1>4. c \in ConnectionIds /\ k \in Relays /\ request.what.revision \in Nat
      /\ request.what \in Registration
  BY <1>3 DEF Request, Registration
<1>5. CASE UNCHANGED server /\ ~Serve(RequestOf(w))
  BY <1>4, <1>5
<1>6. CASE Serve(RequestOf(w))
  <2>1. server' = [server EXCEPT ![c][k] = Handled(server[c][k], request.what)]
    BY <1>2, <1>3, <1>6 DEF Serve
  <2>2. /\ server'[c][k] = Handled(server[c][k], request.what)
        /\ \A d \in ConnectionIds \ {c} : server'[d] = server[d]
        /\ \A r \in Relays \ {k} : server'[c][r] = server[c][r]
    BY <1>4, <2>1 DEF RegistrationInv, RegistrationTypeOK
  <2>3. ASSUME connections[c].status = "active"
        PROVE  server'[c][k] = request.what
    <3>1. connections[c].revision = 0
      BY <1>4, <2>3 DEF RegistrationInv, RevisionsInv
    <3>2. server[c][k].revision <= 0 /\ server[c][k].revision \in Int
      BY <1>4, <3>1, RowTypes DEF RegistrationInv, ServerReached, AskedFor
    <3> QED BY <1>4, <2>2, <3>2 DEF Handled
  <2>4. request.what # Unregistered
    BY <1>4 DEF Registration, Unregistered
  <2>5. connections[c].status = "active" =>
            Current(server'[c][k], worker[w].change.row.enabled, worker[w].token)
    BY <1>3, <2>3, <2>4 DEF Current
  <2>6. server'[c][k] = server[c][k] \/ server'[c][k] = request.what
    BY <2>2 DEF Handled
  <2> QED BY <1>2, <1>4, <2>2, <2>5, <2>6
<1> QED BY <1>5, <1>6

\* Posting to the next relay, answered or not, or stopping there.
LEMMA PostCarries ==
    ASSUME RegistrationInv, CarriedKnown, NEW w \in Workers, worker[w].pc = "post",
           Serve(RequestOf(w)) \/ UNCHANGED server, UNCHANGED outbox, NEW n,
           \/ n = Resting
           \/ n = [worker[w] EXCEPT !.pc = "retry"]
           \/ /\ n = [worker[w] EXCEPT !.relay = @ + 1] \/ n = [worker[w] EXCEPT !.pc = "ack"]
              /\ n.pc = "ack" => worker[w].relay = RelayCount
              /\ Serve(RequestOf(w))
    PROVE  Carries(worker[w], n) /\ Advances(worker[w], n)
<1>1. PICK s, c, k : s = worker[w] /\ c = worker[w].change.conn /\ k = worker[w].relay
  OBVIOUS
<1>2. s \in Handling /\ s.pc = "post" /\ Handles(s) /\ s # Resting
  BY <1>1, RequestTypes DEF Handles, Resting
<1>3. /\ c \in ConnectionIds /\ k \in Relays
      /\ \A d \in ConnectionIds \ {c} : server'[d] = server[d]
      /\ \A r \in Relays \ {k} : server'[c][r] = server[c][r]
      /\ Serve(RequestOf(w)) /\ connections[c].status = "active" =>
             Current(server'[c][k], s.change.row.enabled, s.token)
  BY <1>1, ServeCurrent
<1>4. s.change \in Carried(s) /\ s.change.row # NoChange
  BY <1>1, <1>2, CarriedTypes DEF Carried, RegistrationInv
<1>5. ASSUME Queued(s, connections, outbox),
             \A d \in ConnectionIds :
                 RowCurrent(connections[d], outbox[d], server[d], Wants[d], token)
      PROVE  \A d \in ConnectionIds :
                 RowCurrent(connections[d], outbox'[d], server'[d], Wants[d], token)
  <2>1. connections[c].status = "active" =>
            outbox[c] # NoChange /\ outbox[c].enabled = Wants[c]
    BY <1>1, <1>3, <1>4, <1>5 DEF Queued, RowCurrent
  <2>2. RowCurrent(connections[c], outbox[c], server'[c], Wants[c], token)
    BY <2>1 DEF RowCurrent
  <2> QED BY <1>3, <1>5, <2>2
<1>6. \A d \in ConnectionIds : connections[d].status = "absent" =>
          outbox'[d] = outbox[d] /\ server'[d] = server[d]
  BY <1>1, <1>3, <1>4 DEF CarriedKnown
<1>8. CASE n = Resting
  BY <1>1, <1>5, <1>6, <1>8, RestingCarries DEF Carries, Advances
<1>7. CASE n # Resting
  <2>1. /\ n.todo = s.todo /\ n.change = s.change /\ n.token = s.token
        /\ Handles(n)
        /\ (n.relay = s.relay /\ n.pc = "retry") \/ Serve(RequestOf(w))
        /\ n.relay = s.relay \/ (n.relay = s.relay + 1 /\ n.pc = "post")
        /\ n.pc = "ack" => s.relay = RelayCount
    BY <1>1, <1>2, <1>7 DEF Handling, Handles
  <2>2. Carried(n) = Carried(s)
    BY <1>2, <1>7, <2>1 DEF Carried
  <2>3. Carries(s, n)
    BY <1>1, <1>2, <1>6, <2>1, <2>2 DEF CarriedKnown, Carries, Distinct, Queued
  <2>4. ASSUME Queued(s, connections, outbox),
               \A d \in ConnectionIds :
                   RowCurrent(connections[d], outbox[d], server[d], Wants[d], token),
               UpToDate(s, connections, server, Wants, token),
               connections[c].status = "active",
               NEW r \in Relays, r < n.relay \/ n.pc = "ack"
        PROVE  Current(server'[c][r], Wants[c], token)
    <3>1. s.token = token /\ s.change.row.enabled = Wants[c]
      BY <1>1, <1>2, <1>3, <1>4, <2>4 DEF Queued, RowCurrent, UpToDate
    <3>2. k \in Int /\ r \in Int /\ k = s.relay /\ r <= RelayCount /\ RelayCount \in Int
      BY <1>1, <1>3, RegistrationAssumption DEF Relays
    <3>3. CASE r = k /\ Serve(RequestOf(w))
      BY <1>3, <2>4, <3>1, <3>3
    <3>4. CASE r < k
      <4>1. Current(server[c][r], Wants[c], token)
        BY <1>1, <1>2, <2>4, <3>2, <3>4 DEF UpToDate
      <4>2. server'[c][r] = server[c][r]
        BY <1>3, <3>2, <3>4
      <4> QED BY <4>1, <4>2
    <3>5. r < k \/ (r = k /\ Serve(RequestOf(w)))
      BY <2>1, <2>4, <3>2
    <3> QED BY <3>3, <3>4, <3>5
  <2>5. Advances(s, n)
    <3> SUFFICES ASSUME Queued(s, connections, outbox),
                        \A d \in ConnectionIds :
                            RowCurrent(connections[d], outbox[d], server[d], Wants[d], token),
                        UpToDate(s, connections, server, Wants, token)
                 PROVE  /\ \A d \in ConnectionIds :
                               RowCurrent(connections[d], outbox'[d], server'[d], Wants[d], token)
                        /\ UpToDate(n, connections, server', Wants, token)
      BY DEF Advances
    <3>1. n.token = token /\ n.change.conn = c
      BY <1>1, <1>2, <2>1 DEF UpToDate
    <3>2. UpToDate(n, connections, server', Wants, token)
      BY <2>4, <3>1 DEF UpToDate
    <3> QED BY <1>5, <3>2
  <2> QED BY <1>1, <2>3, <2>5
<1> QED BY <1>7, <1>8

\* Acknowledging or deferring the change at hand.
LEMMA SettleCarries ==
    ASSUME RegistrationInv, CarriedKnown, NEW w \in Workers,
           Acknowledge(w) \/ Defer(w)
    PROVE  Carries(worker[w], worker'[w]) /\ Advances(worker[w], worker'[w])
<1>1. PICK s, c : s = worker[w] /\ c = worker[w].change.conn
  OBVIOUS
<1>2. s \in Handling /\ Handles(s) /\ s # Resting
  BY <1>1, PassTypes DEF Acknowledge, Defer, RegistrationInv, Handles, Resting
<1>3. PICK n : n = [pc |-> "next", todo |-> s.todo, token |-> s.token]
  OBVIOUS
<1>4. worker'[w] = n
  BY <1>1, <1>3 DEF Acknowledge, Defer, NextChange, RegistrationInv, RegistrationTypeOK
<1>5. Carried(n) = s.todo /\ ~Handles(n) /\ n.token = s.token
  BY <1>3 DEF Carried, Handles, Resting
<1>6. Carried(s) = s.todo \cup {s.change} /\ s.change \notin s.todo
  BY <1>1, <1>2 DEF Carried, CarriedKnown, Distinct
<1>7. \A change \in s.todo : change.conn # c
  BY <1>1, <1>6 DEF CarriedKnown, Distinct
<1>8. s.change.conn \in ConnectionIds /\ s.change.row \in OutboxRow
  BY <1>1, <1>6, CarriedTypes DEF RegistrationInv
<1>9. UNCHANGED server /\ \A d \in ConnectionIds \ {c} : outbox'[d] = outbox[d]
  BY <1>1, <1>8 DEF Acknowledge, Defer, AcknowledgeWakeRegistration, RetryWakeRegistration,
     RegistrationInv, RegistrationTypeOK, RegistryTypeOK
<1>10. \A change \in s.todo : change.conn \in ConnectionIds
  BY <1>1, <1>6, CarriedTypes DEF RegistrationInv
<1>11. Carries(s, n)
  <2>1. Distinct(n) /\ \A change \in Carried(n) : connections[change.conn].status # "absent"
    BY <1>1, <1>5, <1>6 DEF CarriedKnown, Distinct
  <2>2. connections[c].status # "absent"
    BY <1>1, <1>6 DEF CarriedKnown
  <2> QED BY <1>5, <1>6, <1>7, <1>9, <1>10, <2>1, <2>2 DEF Carries, Queued
<1>12. Advances(s, n)
  <2> SUFFICES ASSUME Queued(s, connections, outbox),
                      \A d \in ConnectionIds :
                          RowCurrent(connections[d], outbox[d], server[d], Wants[d], token),
                      UpToDate(s, connections, server, Wants, token)
               PROVE  /\ RowCurrent(connections[c], outbox'[c], server'[c], Wants[c], token)
                      /\ UpToDate(n, connections, server', Wants, token)
    BY <1>9 DEF Advances
  <2>1. UpToDate(n, connections, server', Wants, token)
    BY <1>2, <1>5 DEF UpToDate
  <2>2. CASE Acknowledge(w)
    <3>1. s.pc = "ack" /\ (outbox'[c] = NoChange \/ outbox'[c] = outbox[c])
      BY <1>1, <1>8, <2>2 DEF Acknowledge, AcknowledgeWakeRegistration, RegistrationInv,
         RegistrationTypeOK, RegistryTypeOK
    <3>2. connections[c].status = "active" =>
              \A r \in Relays : Current(server[c][r], Wants[c], token)
      BY <1>1, <1>2, <3>1 DEF UpToDate
    <3>3. RowCurrent(connections[c], outbox[c], server[c], Wants[c], token)
      BY <1>1, <1>8
    <3> QED BY <1>9, <2>1, <3>1, <3>2, <3>3 DEF RowCurrent
  <2>3. CASE Defer(w)
    <3>1. RowCurrent(connections[c], outbox[c], server[c], Wants[c], token)
      BY <1>1, <1>8
    <3>2. CASE outbox'[c] = outbox[c]
      BY <1>9, <2>1, <3>1, <3>2
    <3>3. CASE SameChange(s.change)
      <4>1. outbox[c] # NoChange /\ outbox[c] \in OutboxRow
        BY <1>1, <1>8, <3>3, RowTypes, SMTT(40) DEF SameChange, RegistrationInv
      <4>2. PICK available, t :
                outbox' = [outbox EXCEPT ![c].attempt_count = @ + 1,
                               ![c].available_at = available, ![c].updated_at = t]
        BY <1>1, <2>3, <3>3, ZenonT(60) DEF Defer, RetryWakeRegistration
      <4>3. outbox'[c].enabled = outbox[c].enabled /\ outbox'[c].revision = outbox[c].revision
        BY <1>1, <1>8, <4>1, <4>2 DEF RegistrationInv, RegistrationTypeOK, RegistryTypeOK,
           OutboxRow
      <4>4. outbox'[c] # NoChange
        BY <4>1, <4>3 DEF OutboxRow, NoChange
      <4> QED BY <1>9, <2>1, <3>1, <4>1, <4>3, <4>4 DEF RowCurrent
    <3>4. outbox' = outbox \/ SameChange(s.change)
      BY <1>1, <2>3 DEF Defer, RetryWakeRegistration
    <3> QED BY <3>2, <3>3, <3>4
  <2> QED BY <2>2, <2>3
<1> QED BY <1>1, <1>4, <1>11, <1>12

-----------------------------------------------------------------------------
(* The settings reach the service.                                         *)

\* A step that leaves tables, service and passes alone, and the settings too
\* unless it asks for a refresh.
LEMMA ServiceStays ==
    ASSUME ServiceInv, UNCHANGED <<connections, outbox, server, worker>>,
           Unrefreshed' \/ (~Unrefreshed /\ UNCHANGED <<Wants, token>>),
           overlapped' \/ UNCHANGED overlapped, OnlyRunning'
    PROVE  ServiceInv'
<1>1. AbsentUnknown' /\ CarriedKnown'
  BY DEF ServiceInv, AbsentUnknown, CarriedKnown
<1>2. ~overlapped' => CarriedQueued'
  BY DEF ServiceInv, CarriedQueued
<1>3. ~overlapped' /\ ~Unrefreshed' => AllCurrent'
  BY DEF ServiceInv, AllCurrent
<1> QED BY <1>1, <1>2, <1>3 DEF ServiceInv

\* One step of pass w.
LEMMA ServicePass ==
    ASSUME TasksInv, ServiceInv, NEW w \in Workers, task[w].state \in Passing,
           Carries(worker[w], worker'[w]), Advances(worker[w], worker'[w]),
           \A v \in Workers \ {w} : worker'[v] = worker[v],
           UNCHANGED <<connections, Wants, token, Unrefreshed, overlapped>>, OnlyRunning'
    PROVE  ServiceInv'
<1> USE DEF ServiceInv
<1>1. AbsentUnknown'
  BY DEF AbsentUnknown, Carries
<1>2. CarriedKnown'
  <2>1. ASSUME NEW v \in Workers
        PROVE  /\ Distinct(worker'[v])
               /\ \A change \in Carried(worker'[v]) : connections[change.conn].status # "absent"
    BY DEF Carries, CarriedKnown
  <2> QED BY <2>1 DEF CarriedKnown
<1>3. ASSUME ~overlapped
      PROVE  \A v \in Workers \ {w} : worker'[v] = Resting
  BY <1>3, Alone
<1>4. ~overlapped' => CarriedQueued'
  <2>1. ASSUME ~overlapped, NEW v \in Workers
        PROVE  Queued(worker'[v], connections, outbox')
    BY <1>3, <2>1, RestingCarries DEF Carries, CarriedQueued
  <2> QED BY <2>1 DEF CarriedQueued
<1>5. ~overlapped' /\ ~Unrefreshed' => AllCurrent'
  <2>1. ASSUME ~overlapped, ~Unrefreshed
        PROVE  /\ \A c \in ConnectionIds :
                      RowCurrent(connections[c], outbox'[c], server'[c], Wants[c], token)
               /\ UpToDate(worker'[w], connections, server', Wants, token)
    BY <2>1 DEF Advances, CarriedQueued, AllCurrent
  <2>2. ASSUME ~overlapped, ~Unrefreshed, NEW v \in Workers
        PROVE  UpToDate(worker'[v], connections, server', Wants, token)
    BY <1>3, <2>1, <2>2, RestingCarries
  <2> QED BY <2>1, <2>2 DEF AllCurrent
<1> QED BY <1>1, <1>2, <1>4, <1>5

\* A connection is made or revoked.
LEMMA ServiceConnection ==
    ASSUME ServiceInv, RegistrationTypeOK, NEW c0 \in ConnectionIds,
           Inserts(c0) \/ TombstoneConnection(c0, connections[c0].revision, now),
           UNCHANGED <<worker, server, task, overlapped, token, permission, Unrefreshed>>,
           unasked' = unasked \/ Inserts(c0),
           Inserts(c0) => unasked' = IF permission THEN unasked ELSE unasked \cup {c0}
    PROVE  ServiceInv'
<1> USE DEF ServiceInv
<1>1. /\ connections'[c0].status # "absent"
      /\ connections'[c0].status = "active" => connections[c0].status = "absent"
      /\ \A d \in ConnectionIds \ {c0} :
             connections'[d] = connections[d] /\ outbox'[d] = outbox[d]
  BY InsertedRows, TombstonedRows DEF RegistrationTypeOK
<1>2. AbsentUnknown' /\ OnlyRunning'
  BY <1>1 DEF AbsentUnknown, OnlyRunning
<1>3. \A v \in Workers : \A change \in Carried(worker[v]) : change.conn \in ConnectionIds
  BY CarriedTypes
<1>4. CarriedKnown'
  BY <1>1, <1>3 DEF CarriedKnown
<1>5. ~overlapped' => CarriedQueued'
  <2>1. ASSUME ~overlapped, NEW v \in Workers
        PROVE  Queued(worker[v], connections', outbox')
    BY <1>1, <1>3, <2>1 DEF CarriedKnown, CarriedQueued, Queued
  <2> QED BY <2>1 DEF CarriedQueued
<1>6. ~overlapped' /\ ~Unrefreshed' => AllCurrent'
  <2> SUFFICES ASSUME AllCurrent PROVE AllCurrent'
    OBVIOUS
  <2>1. \A d \in ConnectionIds \ {c0} : Wants'[d] = Wants[d]
    BY DEF Wants, EnabledFor
  <2>2. connections'[c0].status = "active" =>
            outbox'[c0] # NoChange /\ outbox'[c0].enabled = Wants'[c0]
    <3>1. CASE Inserts(c0)
      <4>1. outbox'[c0] # NoChange /\ outbox'[c0].enabled = TRUE
        BY <3>1, InsertedRows DEF RegistrationTypeOK
      <4>2. Wants'[c0] = TRUE
        BY <3>1 DEF Wants, EnabledFor
      <4> QED BY <4>1, <4>2
    <3>2. CASE TombstoneConnection(c0, connections[c0].revision, now)
      BY <3>2, TombstonedRows DEF RegistrationTypeOK
    <3> QED BY <3>1, <3>2
  <2>3. ASSUME NEW d \in ConnectionIds
        PROVE  RowCurrent(connections'[d], outbox'[d], server'[d], Wants'[d], token')
    BY <1>1, <2>1, <2>2 DEF AllCurrent, RowCurrent
  <2>4. ASSUME NEW v \in Workers
        PROVE  UpToDate(worker'[v], connections', server', Wants', token')
    <3>1. Handles(worker[v]) => worker[v].change \in Carried(worker[v])
      BY DEF Carried
    <3>2. Handles(worker[v]) /\ connections'[worker[v].change.conn].status = "active" =>
              /\ worker[v].change.conn \in ConnectionIds \ {c0}
              /\ connections[worker[v].change.conn].status = "active"
      BY <1>1, <1>3, <3>1 DEF CarriedKnown
    <3> QED BY <2>1, <3>2 DEF AllCurrent, UpToDate
  <2> QED BY <2>3, <2>4 DEF AllCurrent
<1> QED BY <1>2, <1>4, <1>5, <1>6

\* begin_registration puts the current settings into the outbox when no pass
\* can carry older ones.
LEMMA ServiceRequeue ==
    ASSUME TasksInv, ServiceInv, RegistrationTypeOK, ~in_flight,
           RequeueActive(permission, now), OnlyRunning',
           UNCHANGED <<worker, server, permission, token, overlapped>>, unasked' = {}
    PROVE  ServiceInv'
<1> USE DEF ServiceInv
<1>1. UNCHANGED connections
  BY DEF RequeueActive
<1>2. ASSUME NEW c \in ConnectionIds
      PROVE  /\ connections[c].status # "active" => outbox'[c] = outbox[c]
             /\ connections[c].status = "active" =>
                    outbox'[c] # NoChange /\ outbox'[c].enabled = permission
  BY DEF RequeueActive, NoChange
<1>3. AbsentUnknown' /\ CarriedKnown'
  BY <1>1, <1>2 DEF AbsentUnknown, CarriedKnown
<1>4. ASSUME ~overlapped
      PROVE  \A v \in Workers : worker[v] = Resting
  BY <1>4, NoneBusy
<1>5. ~overlapped' => CarriedQueued'
  BY <1>4, RestingCarries DEF CarriedQueued
<1>6. ~overlapped' => AllCurrent'
  <2>1. \A c \in ConnectionIds :
            RowCurrent(connections'[c], outbox'[c], server'[c], Wants'[c], token')
    <3>1. \A c \in ConnectionIds : Wants'[c] = permission
      BY DEF Wants, EnabledFor, TasksInv
    <3> QED BY <1>1, <1>2, <3>1 DEF RowCurrent
  <2> QED BY <1>4, <2>1, RestingCarries DEF AllCurrent
<1> QED BY <1>3, <1>5, <1>6

\* Claiming a pass.
LEMMA StartOnlyRunning ==
    ASSUME TasksInv, OnlyRunning, StartPass, UNCHANGED worker
    PROVE  OnlyRunning'
<1>1. PICK v \in Workers : /\ task[v] = Idle
                           /\ task' = [task EXCEPT ![v] = [state |-> "started"]]
  BY DEF StartPass
<1>2. worker[v] = Resting
  BY <1>1 DEF OnlyRunning, Idle
<1> QED BY <1>1, <1>2 DEF OnlyRunning, TasksInv

\* The end of a pass, or a step that leaves its local state.
LEMMA TaskOnlyRunning ==
    ASSUME TasksInv, OnlyRunning, NEW w \in Workers, NEW next,
           task' = [task EXCEPT ![w] = next],
           next.state = "running" \/ worker'[w] = Resting,
           \A v \in Workers \ {w} : worker'[v] = worker[v]
    PROVE  OnlyRunning'
<1>1. task'[w] = next /\ \A v \in Workers \ {w} : task'[v] = task[v]
  BY DEF TasksInv
<1> QED BY <1>1 DEF OnlyRunning

\* The local states of the other passes.
LEMMA OthersStay ==
    ASSUME RegistrationTypeOK, NEW w \in Workers,
           \/ LoadDue(w) \/ TakeChange(w) \/ Post(w) \/ Acknowledge(w) \/ Defer(w)
           \/ PostFails(w) \/ StopPass(w)
    PROVE  \A v \in Workers \ {w} : worker'[v] = worker[v]
BY DEF LoadDue, TakeChange, Post, Acknowledge, Defer, PostFails, StopPass, Goto, NextChange,
       RegistrationTypeOK

\* A post that is answered, one that is not, and a pass that stops.
LEMMA PostingStep ==
    ASSUME RegistrationInv, CarriedKnown, NEW w \in Workers,
           Post(w) \/ PostFails(w) \/ StopPass(w), UNCHANGED outbox
    PROVE  Carries(worker[w], worker'[w]) /\ Advances(worker[w], worker'[w])
<1> USE DEF RegistrationInv
<1>1. CASE Post(w)
  <2>1. worker[w].pc = "post" /\ Serve(RequestOf(w)) /\ worker[w] \in Handling
    BY <1>1, RequestTypes DEF Post
  <2>2. \/ worker'[w] = [worker[w] EXCEPT !.pc = "retry"]
        \/ worker'[w] = [worker[w] EXCEPT !.relay = @ + 1]
        \/ worker'[w] = [worker[w] EXCEPT !.pc = "ack"] /\ worker[w].relay = RelayCount
    BY <1>1 DEF Post, Goto, RegistrationTypeOK
  <2>3. worker'[w] = [worker[w] EXCEPT !.relay = @ + 1] => worker'[w].pc = "post"
    BY <2>1 DEF Handling
  <2> QED BY <2>1, <2>2, <2>3, PostCarries
<1>2. CASE PostFails(w)
  <2>1. worker[w].pc = "post" /\ (Serve(RequestOf(w)) \/ UNCHANGED server)
    BY <1>2 DEF PostFails, Unanswered
  <2>2. worker'[w] = [worker[w] EXCEPT !.pc = "retry"]
    BY <1>2 DEF PostFails, Goto, RegistrationTypeOK
  <2> QED BY <2>1, <2>2, PostCarries
<1>3. CASE StopPass(w)
  <2>1. worker'[w] = Resting
    BY <1>3 DEF StopPass, RegistrationTypeOK
  <2>2. CASE worker[w].pc = "post"
    <3>1. Serve(RequestOf(w)) \/ UNCHANGED server
      BY <1>3, <2>2 DEF StopPass, Unanswered
    <3> QED BY <2>1, <2>2, <3>1, PostCarries
  <2>3. CASE worker[w].pc # "post"
    <3>1. UNCHANGED server
      BY <1>3, <2>3 DEF StopPass
    <3> QED BY <2>1, <3>1, RestingCarries DEF Carries, Advances
  <2> QED BY <2>2, <2>3
<1> QED BY <1>1, <1>2, <1>3

\* Steps that leave the settings alone.
SettingsKept == UNCHANGED <<refresh_pending, dropped, permission, unasked>>

\* They change nothing that is wanted of the service.
LEMMA WantsKept ==
    ASSUME SettingsKept
    PROVE  Wants' = Wants /\ Unrefreshed' = Unrefreshed
BY DEF SettingsKept, Wants, EnabledFor, Unrefreshed

\* The manager's own steps: claim, pass, failure, end and timer.
LEMMA ServiceRegistering ==
    ASSUME RegistrationInv, TasksInv, ServiceInv, Registering
    PROVE  ServiceInv'
<1> USE DEF registryVars, ghosts
<1>1. UNCHANGED token /\ RegistrationTypeOK /\ AbsentUnknown /\ CarriedKnown /\ OnlyRunning
  BY DEF Registering, HostRegisters, PassGoesOn, notRegistering, RegistrationInv, ServiceInv
<1>2. CASE BeginRegistration
  <2>1. UNCHANGED <<permission, overlapped, worker, server>>
    BY <1>2 DEF BeginRegistration
  <2>2. CASE in_flight
    <3>1. UNCHANGED <<connections, outbox, task>> /\ SettingsKept
      BY <1>2, <2>1, <2>2 DEF BeginRegistration, SettingsKept
    <3>2. OnlyRunning'
      BY <1>1, <2>1, <3>1 DEF OnlyRunning
    <3> QED BY <1>1, <2>1, <3>1, <3>2, ServiceStays, WantsKept
  <2>3. CASE ~in_flight
    <3>1. OnlyRunning'
      BY <1>1, <1>2, <2>1, <2>3, StartOnlyRunning DEF BeginRegistration
    <3>2. \/ UNCHANGED <<connections, outbox>> /\ SettingsKept
          \/ RequeueActive(permission, now) /\ unasked' = {}
      BY <1>2, <2>1, <2>3 DEF BeginRegistration, SettingsKept
    <3> QED BY <1>1, <2>1, <2>3, <3>1, <3>2, ServiceStays, ServiceRequeue, WantsKept
  <2> QED BY <2>2, <2>3
<1>3. CASE BeginFails \/ TimerFires
  <2>1. UNCHANGED <<connections, outbox, server, worker, overlapped, task>> /\ SettingsKept
    BY <1>3 DEF BeginFails, TimerFires, SettingsKept
  <2>2. OnlyRunning'
    BY <1>1, <2>1 DEF OnlyRunning
  <2> QED BY <1>1, <2>1, <2>2, ServiceStays, WantsKept
<1>4. ASSUME NEW w \in Workers, RunPass(w)
      PROVE  ServiceInv'
  <2>1. UNCHANGED overlapped /\ SettingsKept /\ task[w].state \in {"started", "running"}
    BY <1>4 DEF RunPass, SettingsKept
  <2>2. task[w].state \in Passing
    BY <2>1 DEF Passing
  <2>3. CASE LoadDue(w) /\ task' = [task EXCEPT ![w] = [state |-> "running"]]
    <3>1. \A v \in Workers \ {w} : worker'[v] = worker[v]
      BY <1>1, <2>3, OthersStay
    <3>2. OnlyRunning'
      BY <1>1, <2>3, <3>1, TaskOnlyRunning
    <3>3. Carries(worker[w], worker'[w]) /\ Advances(worker[w], worker'[w])
      BY <1>1, <2>3, LoadCarries
    <3>4. UNCHANGED connections
      BY <2>3, PassLeavesConnections
    <3> QED BY <1>1, <2>1, <2>2, <3>1, <3>2, <3>3, <3>4, ServicePass, WantsKept
  <2>4. CASE /\ UNCHANGED <<connections, outbox, worker, server>>
             /\ task' = [task EXCEPT ![w] = Done] /\ worker[w] = Resting
    <3>1. OnlyRunning'
      BY <1>1, <2>4, TaskOnlyRunning
    <3> QED BY <1>1, <2>1, <2>4, <3>1, ServiceStays, WantsKept
  <2>5. CASE /\ TakeChange(w) \/ Post(w) \/ Acknowledge(w) \/ Defer(w)
             /\ UNCHANGED task /\ task[w].state = "running"
    <3>1. \A v \in Workers \ {w} : worker'[v] = worker[v]
      BY <1>1, <2>5, OthersStay
    <3>2. OnlyRunning'
      BY <1>1, <2>5, <3>1 DEF OnlyRunning
    <3>3. Post(w) => UNCHANGED outbox
      BY DEF Post
    <3>4. Carries(worker[w], worker'[w]) /\ Advances(worker[w], worker'[w])
      BY <1>1, <2>5, <3>3, TakeCarries, PostingStep, SettleCarries
    <3>5. UNCHANGED connections
      BY <2>5, PassLeavesConnections
    <3> QED BY <1>1, <2>1, <2>2, <3>1, <3>2, <3>4, <3>5, ServicePass, WantsKept
  <2>6. task[w].state = "started" => worker[w] = Resting
    BY <1>1 DEF OnlyRunning
  <2> QED BY <1>4, <2>3, <2>4, <2>5, <2>6 DEF RunPass
<1>5. ASSUME NEW w \in Workers, PassFault(w)
      PROVE  ServiceInv'
  <2>1. /\ UNCHANGED <<connections, outbox, overlapped>> /\ SettingsKept
        /\ task[w].state = "running" /\ (PostFails(w) \/ StopPass(w))
        /\ UNCHANGED task
           \/ (StopPass(w) /\ task' = [task EXCEPT ![w] = [state |-> "failed"]])
    BY <1>5 DEF PassFault, SettingsKept
  <2>2. task[w].state \in Passing
    BY <2>1 DEF Passing
  <2>3. \A v \in Workers \ {w} : worker'[v] = worker[v]
    BY <1>1, <2>1, OthersStay
  <2>4. StopPass(w) => worker'[w] = Resting
    BY <1>1 DEF StopPass, RegistrationTypeOK
  <2>5. OnlyRunning'
    <3>1. CASE UNCHANGED task
      BY <1>1, <2>1, <2>3, <3>1 DEF OnlyRunning
    <3>2. CASE StopPass(w) /\ task' = [task EXCEPT ![w] = [state |-> "failed"]]
      BY <1>1, <2>3, <2>4, <3>2, TaskOnlyRunning
    <3> QED BY <2>1, <3>1, <3>2
  <2>6. Carries(worker[w], worker'[w]) /\ Advances(worker[w], worker'[w])
    BY <1>1, <2>1, PostingStep
  <2> QED BY <1>1, <2>1, <2>2, <2>3, <2>5, <2>6, ServicePass, WantsKept
<1>6. ASSUME NEW w \in Workers, FinishRegistration(w)
      PROVE  ServiceInv'
  <2>1. /\ UNCHANGED <<connections, outbox, server, worker, overlapped>> /\ SettingsKept
        /\ task[w].state \in {"done", "failed"} /\ task' = [task EXCEPT ![w] = Idle]
    BY <1>6 DEF FinishRegistration, SettingsKept
  <2>2. worker'[w] = Resting
    BY <1>1, <2>1 DEF OnlyRunning
  <2>3. OnlyRunning'
    BY <1>1, <2>1, <2>2, TaskOnlyRunning
  <2> QED BY <1>1, <2>1, <2>3, ServiceStays, WantsKept
<1> QED BY <1>2, <1>3, <1>4, <1>5, <1>6 DEF Registering, HostRegisters, PassGoesOn

\* Approvals, creations, revocations, imports, settings, resets, restarts.
LEMMA ServiceKept ==
    ASSUME RegistrationInv, TasksInv, AuthInv, SecretsInv, ServiceInv,
           [ApplicationNext]_applicationVars
    PROVE  ServiceInv'
<1> USE DEF registryVars, coordinatorVars, ghosts
<1>1. RegistrationTypeOK /\ now \in Time /\ 0 \in Time /\ 0 <= now /\ now <= now
  BY RegistryAssumption DEF RegistrationInv, RegistrationTypeOK, Time
<1>2. ASSUME UNCHANGED <<connections, outbox, server, worker, task>>,
             Unrefreshed' \/ (~Unrefreshed /\ UNCHANGED <<Wants, token>>),
             overlapped' \/ UNCHANGED overlapped
      PROVE  ServiceInv'
  <2>1. OnlyRunning'
    BY <1>2 DEF ServiceInv, OnlyRunning
  <2> QED BY <1>2, <2>1, ServiceStays
<1>13. ASSUME UNCHANGED <<connections, outbox, server, worker, task, token, overlapped>>,
              SettingsKept
       PROVE  ServiceInv'
  BY <1>2, <1>13, WantsKept
<1>3. CASE Registering
  BY <1>3, ServiceRegistering
<1>4. CASE SettingsChange
  BY <1>2, <1>4 DEF SettingsChange, Unrefreshed
<1>14. CASE Foreground
  BY <1>13, <1>14 DEF Foreground, notRegistering, SettingsKept
<1>5. CASE Authorizing
  <2>1. UNCHANGED <<token, worker, server>>
    BY <1>5 DEF Authorizing
  <2>2. CASE OpenNwaRequest \/ CompleteNwaCallback \/ CancelNwa
    BY <1>13, <2>1, <2>2 DEF OpenNwaRequest, CompleteNwaCallback, CancelNwa, SettingsKept
  <2>3. CASE ApproveNwa
    <3>1. PICK request \in shown :
              InsertConnection(request.client, now) /\ RowInserted(request.client)
      BY <2>3 DEF ApproveNwa, ApprovePendingNwa
    <3>2. request.client \in ConnectionIds
      BY CastAssumption DEF AuthInv, ShownOffered
    <3>3. Inserts(request.client)
      BY <1>1, <3>1 DEF Inserts, InsertConnection
    <3>4. UNCHANGED <<task, overlapped, permission, Unrefreshed>>
      BY <2>3 DEF ApproveNwa, Unrefreshed
    <3> QED BY <1>1, <2>1, <3>1, <3>2, <3>3, <3>4, ServiceConnection DEF RowInserted
  <2> QED BY <1>5, <2>2, <2>3 DEF Authorizing
<1>6. CASE ProceedWithCalls
  <2>1. UNCHANGED <<token, worker, server>>
    BY <1>6 DEF ProceedWithCalls
  <2>2. CASE CreateFails \/ DeleteClientSecret
    BY <1>13, <2>1, <2>2 DEF CreateFails, DeleteClientSecret, SettingsKept
  <2>3. CASE CreateHostConnection
    <3>1. call.conn \in ConnectionIds /\ InsertConnection(call.conn, now)
      BY <2>3 DEF CreateHostConnection, SecretsInv, SecretsKnown
    <3>2. Inserts(call.conn)
      BY <1>1, <3>1 DEF Inserts, InsertConnection
    <3>3. UNCHANGED <<task, overlapped, permission, Unrefreshed>> /\ RowInserted(call.conn)
      BY <2>3 DEF CreateHostConnection, Unrefreshed
    <3> QED BY <1>1, <2>1, <3>1, <3>2, <3>3, ServiceConnection DEF RowInserted
  <2>4. ASSUME NEW c \in ConnectionIds, RevokeHostConnection(c)
        PROVE  ServiceInv'
    <3>1. UNCHANGED <<task, overlapped>> /\ SettingsKept
      BY <2>4 DEF RevokeHostConnection, SettingsKept
    <3>2. \/ UNCHANGED <<connections, outbox>>
          \/ /\ TombstoneConnection(c, connections[c].revision, now)
             /\ connections[c].status = "active"
      BY <2>4 DEF RevokeHostConnection
    <3>3. CASE UNCHANGED <<connections, outbox>>
      BY <1>13, <2>1, <3>1, <3>3
    <3>4. CASE /\ TombstoneConnection(c, connections[c].revision, now)
               /\ connections[c].status = "active"
      <4>1. ~Inserts(c)
        BY <3>4, InsertedRows, <1>1 DEF RegistrationTypeOK
      <4> QED BY <1>1, <2>1, <3>1, <3>4, <4>1, ServiceConnection, WantsKept DEF SettingsKept
    <3> QED BY <3>2, <3>3, <3>4
  <2> QED BY <1>6, <2>2, <2>3, <2>4 DEF ProceedWithCalls
<1>7. CASE HandleConnections
  <2>1. UNCHANGED <<token, worker, server>>
    BY <1>7 DEF HandleConnections
  <2>2. CASE WantRevoked
    BY <1>13, <2>1, <2>2 DEF WantRevoked, SettingsKept
  <2>3. ASSUME NEW c \in ConnectionIds, StoreClientSecret(c)
        PROVE  ServiceInv'
    BY <1>13, <2>1, <2>3 DEF StoreClientSecret, SettingsKept
  <2>4. ASSUME NEW c \in ConnectionIds, MigrateLegacy(c)
        PROVE  ServiceInv'
    <3>1. Inserts(c)
      BY <1>1, <2>4 DEF MigrateLegacy, ImportConnection, Inserts
    <3>2. UNCHANGED <<task, overlapped, permission, Unrefreshed>> /\ RowInserted(c)
      BY <2>4 DEF MigrateLegacy, Unrefreshed
    <3> QED BY <1>1, <2>1, <3>1, <3>2, ServiceConnection DEF RowInserted
  <2> QED BY <1>7, <2>2, <2>3, <2>4 DEF HandleConnections
<1>8. CASE InfoEvents
  BY <1>13, <1>8 DEF InfoEvents, SettingsKept
<1>9. CASE ResetSession
  <2>1. /\ UNCHANGED <<connections, outbox, server, worker, task, token, permission, unasked>>
        /\ Unrefreshed' \/ ~Unrefreshed
    BY <1>9 DEF ResetSession, Unrefreshed
  <2>3. UNCHANGED Wants
    BY <2>1 DEF Wants, EnabledFor
  <2>2. overlapped' \/ UNCHANGED overlapped
    BY <1>9 DEF ResetSession, TasksInv
  <2> QED BY <1>2, <2>1, <2>2, <2>3
<1>10. CASE Restart
  <2>1. /\ UNCHANGED <<connections, outbox, server, token, overlapped>> /\ SettingsKept
        /\ worker' = [w \in Workers |-> Resting]
    BY <1>10 DEF Restart, SettingsKept
  <2>2. \A w \in Workers : worker'[w] = Resting
    BY <2>1
  <2>3. AbsentUnknown' /\ CarriedKnown' /\ OnlyRunning' /\ CarriedQueued'
    BY <2>1, <2>2, RestingCarries DEF ServiceInv, AbsentUnknown, CarriedKnown, OnlyRunning,
       CarriedQueued
  <2>4. ~overlapped' /\ ~Unrefreshed' => AllCurrent'
    BY <2>1, <2>2, RestingCarries, WantsKept DEF ServiceInv, AllCurrent
  <2> QED BY <2>3, <2>4 DEF ServiceInv
<1>11. CASE TimePasses
  BY <1>13, <1>11 DEF TimePasses, Tick, SettingsKept
<1>12. CASE UNCHANGED applicationVars
  BY <1>13, <1>12 DEF applicationVars, registrationVars, SettingsKept
<1> QED BY <1>3, <1>4, <1>5, <1>6, <1>7, <1>8, <1>9, <1>10, <1>11, <1>12, <1>14
        DEF ApplicationNext

-----------------------------------------------------------------------------
(* The theorems.                                                           *)

ApplicationInv ==
    /\ RegistrationInv /\ TasksInv /\ AuthInv /\ SecretsInv /\ InfoInv /\ ServiceInv

\* Nothing is registered, granted, stored or published at first.
LEMMA ApplicationInvInit == ApplicationInit => ApplicationInv
<1> SUFFICES ASSUME ApplicationInit PROVE ApplicationInv
  OBVIOUS
<1> USE DEF ApplicationInit
<1>1. RegistrationInv
  BY RegistrationInvInit
<1>2. TasksInv
  BY DEF TasksInv, PassesSerialized
<1>3. /\ \A c \in ConnectionIds : /\ connections[c].status = "absent"
                                  /\ outbox[c] = NoChange
                                  /\ \A r \in Relays : server[c][r] = Unregistered
      /\ \A w \in Workers : worker[w] = Resting
  BY DEF RegistrationInit, RegistryInit, AbsentConnection
<1>4. AuthInv
  BY DEF AuthInv, ShownOffered, GrantedAsShown, CallbackNotReplaced
<1>5. SecretsInv
  BY DEF SecretsInv, SecretsKnown, ConnectionHasSecret, NoCall
<1>6. InfoInv
  BY DEF InfoInv, InfoEventsCurrent, Pairs
<1>7. ServiceInv
  <2>1. AbsentUnknown /\ OnlyRunning /\ CarriedKnown /\ CarriedQueued
    BY <1>3, RestingCarries DEF AbsentUnknown, OnlyRunning, CarriedKnown, CarriedQueued
  <2>2. AllCurrent
    BY <1>3, RestingCarries DEF AllCurrent, RowCurrent
  <2> QED BY <2>1, <2>2 DEF ServiceInv
<1> QED BY <1>1, <1>2, <1>4, <1>5, <1>6, <1>7 DEF ApplicationInv

\* One lemma per part.
LEMMA ApplicationInvStep ==
    ApplicationInv /\ [ApplicationNext]_applicationVars => ApplicationInv'
<1> SUFFICES ASSUME ApplicationInv, [ApplicationNext]_applicationVars
             PROVE  ApplicationInv'
  OBVIOUS
<1> USE DEF ApplicationInv
<1>1. RegistrationTypeOK /\ RegistryTypeOK /\ ShownOffered /\ SecretsKnown
      /\ permission \in BOOLEAN
  BY DEF RegistrationInv, RegistrationTypeOK, AuthInv, SecretsInv, TasksInv
<1>2. Touches /\ UNCHANGED <<late, wanted>>
  BY <1>1, StepTouches
<1>3. \A c \in ConnectionIds : Ages(c)
  BY <1>1, <1>2, ConnectionsAge
<1>4. RegistrationInv' /\ TasksInv'
  BY <1>1, <1>2, RegistrationKept, TasksKept
<1>5. AuthInv' /\ SecretsInv' /\ InfoInv'
  BY <1>1, <1>3, AuthKept, SecretsKept, InfoKept
<1>6. ServiceInv'
  BY ServiceKept
<1> QED BY <1>4, <1>5, <1>6

\* The inductive invariant holds throughout.
LEMMA ApplicationInvariant == ApplicationSafety => []ApplicationInv
BY ApplicationInvInit, ApplicationInvStep, PTL DEF ApplicationSafety

(***************************************************************************)
(* When nothing is queued and no refresh is pending or was dropped by a    *)
(* reset, the service wakes every connection as the permission and the     *)
(* push token are now and no revoked one, whatever rotation, approval or   *)
(* revocation fell into a pass and whatever failed or restarted on the     *)
(* way; a connection inserted without the permission is enabled until the  *)
(* next refresh.  begin_registration, run_registration_worker,             *)
(* finish_registration and insert_connection.                              *)
(***************************************************************************)
THEOREM ServiceFollowsSettings == ApplicationSpec => []SettingsReachService
<1>1. ApplicationInv => SettingsReachService
  <2> SUFFICES ASSUME ApplicationInv, Settled, ~overlapped, NEW c \in ConnectionIds
               PROVE  Registered(c)
    BY DEF SettingsReachService
  <2> USE DEF ApplicationInv
  <2>1. outbox[c] = NoChange /\ ~Unrefreshed
    BY DEF Settled, Unrefreshed
  <2>2. CASE connections[c].status = "active"
    <3>1. RowCurrent(connections[c], outbox[c], server[c], Wants[c], token)
      BY <2>1 DEF ServiceInv, AllCurrent
    <3>2. Wants[c] = EnabledFor(c)
      BY DEF Wants
    <3> QED BY <2>1, <2>2, <3>1, <3>2 DEF RowCurrent, Current, Registered
  <2>3. CASE connections[c].status = "absent"
    BY <2>3 DEF ServiceInv, AbsentUnknown, Registered, Unregistered
  <2>4. CASE connections[c].status = "tombstoned"
    <3>1. ASSUME NEW r \in Relays PROVE ~server[c][r].enabled
      <4>1. connections[c].revision <= server[c][r].revision
        BY <2>1, <2>4 DEF RegistrationInv, Delivered
      <4>2. AskedFor(c, server[c][r].revision, server[c][r].enabled)
        BY DEF RegistrationInv, ServerReached
      <4>3. connections[c].revision \in Nat /\ server[c][r].revision \in Int
        BY RowTypes DEF RegistrationInv
      <4> QED BY <2>4, <4>1, <4>2, <4>3 DEF AskedFor
    <3> QED BY <2>4, <3>1 DEF Registered
  <2>5. connections[c].status \in {"absent", "active", "tombstoned"}
    BY DEF RegistrationInv, RegistrationTypeOK, RegistryTypeOK, ConnectionRow
  <2> QED BY <2>2, <2>3, <2>4, <2>5
<1> QED BY <1>1, ApplicationInvariant, PTL DEF ApplicationSpec, ApplicationSafety

(***************************************************************************)
(* One registration pass runs at a time, in whatever order the host begins *)
(* and finishes passes, timers fire and refreshes are asked for.           *)
(***************************************************************************)
THEOREM PassesNeverOverlap == ApplicationSpec => []PassesSerialized
<1>1. ApplicationInv => PassesSerialized
  BY DEF ApplicationInv, TasksInv
<1> QED BY <1>1, ApplicationInvariant, PTL DEF ApplicationSpec, ApplicationSafety

(***************************************************************************)
(* An approval grants the request the user was shown, no more than it asks *)
(* for and before it expires: approve_nwa_connection.                      *)
(***************************************************************************)
THEOREM GrantsAreAsShown == ApplicationSpec => []GrantedAsShown
<1>1. ApplicationInv => GrantedAsShown
  BY DEF ApplicationInv, AuthInv
<1> QED BY <1>1, ApplicationInvariant, PTL DEF ApplicationSpec, ApplicationSafety

(***************************************************************************)
(* The callback of an approval waits until it is opened or given up; a     *)
(* later approval does not replace it: NwaCallbackCoordinator.             *)
(***************************************************************************)
THEOREM CallbacksWait == ApplicationSpec => []CallbackNotReplaced
<1>1. ApplicationInv => CallbackNotReplaced
  BY DEF ApplicationInv, AuthInv
<1> QED BY <1>1, ApplicationInvariant, PTL DEF ApplicationSpec, ApplicationSafety

(***************************************************************************)
(* create_wallet_connection and revoke_application_connection, cut off or  *)
(* failing at any step, leave no active connection without its secret.     *)
(***************************************************************************)
THEOREM SecretsAreKept == ApplicationSpec => []ConnectionHasSecret
<1>1. ApplicationInv => ConnectionHasSecret
  BY DEF ApplicationInv, SecretsInv
<1> QED BY <1>1, ApplicationInvariant, PTL DEF ApplicationSpec, ApplicationSafety

(***************************************************************************)
(* No relay that the outbox does not list is behind the installed version, *)
(* for any number of upgrades and any restart between a publication and    *)
(* its acknowledgement: requeue_active_nwc_info_events.                    *)
(***************************************************************************)
THEOREM InfoEventsStayCurrent == ApplicationSpec => []InfoEventsCurrent
<1>1. ApplicationInv => InfoEventsCurrent
  BY DEF ApplicationInv, InfoInv
<1> QED BY <1>1, ApplicationInvariant, PTL DEF ApplicationSpec, ApplicationSafety

=============================================================================
