------------------------- MODULE RegistrationProofs -------------------------
(***************************************************************************)
(* A delivered revocation is final, for every number of connections,       *)
(* relays, concurrent passes, failures and late requests.                  *)
(*                                                                         *)
(* RevocationSticks speaks of the moment the disable leaves the outbox; it *)
(* is inductive only together with what the passes, the requests under way *)
(* and the service may know of a connection (Reached) and what a pass has  *)
(* achieved when it acknowledges (Progressed).                             *)
(***************************************************************************)
EXTENDS WakeRegistration, RegistryProofs

\* A revision and state that connection c has asked for: never ahead of it,
\* and never an enable at the revision of its tombstone.
AskedFor(c, revision, enabled) ==
    /\ revision <= connections[c].revision
    /\ connections[c].status = "tombstoned" /\ revision = connections[c].revision
           => ~enabled

RevisionsInv ==
    \A c \in ConnectionIds :
        /\ connections[c].status # "tombstoned" => connections[c].revision = 0
        /\ outbox[c] # NoChange =>
               /\ AskedFor(c, outbox[c].revision, outbox[c].enabled)
               /\ connections[c].status = "tombstoned" =>
                      outbox[c].revision = connections[c].revision

PassesReached ==
    \A w \in Workers :
        /\ worker[w] # Resting => \A change \in worker[w].todo :
               AskedFor(change.conn, change.row.revision, change.row.enabled)
        /\ worker[w] \in Handling =>
               AskedFor(worker[w].change.conn, worker[w].change.row.revision,
                        worker[w].change.row.enabled)

LateReached ==
    \A request \in late :
        AskedFor(request.conn, request.what.revision, request.what.enabled)

ServerReached ==
    \A c \in ConnectionIds, r \in Relays :
        AskedFor(c, server[c][r].revision, server[c][r].enabled)

\* The relays a pass has gone through are at its change's revision or later.
Progressed ==
    \A w \in Workers : worker[w] \in Handling =>
        \A r \in Relays :
            r < worker[w].relay \/ worker[w].pc = "ack" =>
                worker[w].change.row.revision <=
                    server[worker[w].change.conn][r].revision

\* What is left of RevocationSticks once ServerReached is known.
Delivered ==
    \A c \in ConnectionIds :
        connections[c].status = "tombstoned" /\ outbox[c] = NoChange =>
            \A r \in Relays : connections[c].revision <= server[c][r].revision

RegistrationInv ==
    /\ RegistrationTypeOK /\ RevisionsInv
    /\ PassesReached /\ LateReached /\ ServerReached
    /\ Progressed /\ Delivered

-----------------------------------------------------------------------------
(* Types.                                                                  *)

\* The rows of one connection and what the service holds for it.
LEMMA RowTypes ==
    ASSUME RegistrationTypeOK, NEW c \in ConnectionIds
    PROVE  /\ connections[c] \in ConnectionRow /\ connections[c].revision \in Nat
           /\ outbox[c] # NoChange => /\ outbox[c] \in OutboxRow
                                      /\ outbox[c].revision \in Nat
           /\ \A r \in Relays : server[c][r].revision \in Int
<1>1. connections[c] \in ConnectionRow /\ connections[c].revision \in Nat
  BY DEF RegistrationTypeOK, RegistryTypeOK, ConnectionRow
<1>2. outbox[c] # NoChange => outbox[c] \in OutboxRow
  BY DEF RegistrationTypeOK, RegistryTypeOK
<1>3. outbox[c] # NoChange => outbox[c].revision \in Nat
  BY <1>2 DEF OutboxRow
<1>4. ASSUME NEW r \in Relays PROVE server[c][r].revision \in Int
  <2>1. server[c][r] \in Registration \cup {Unregistered}
    BY DEF RegistrationTypeOK
  <2> QED BY <2>1 DEF Registration, Unregistered
<1> QED BY <1>1, <1>2, <1>3, <1>4

\* The kinds of local state are told apart by the program counter.
LEMMA PassTypes ==
    ASSUME RegistrationTypeOK, NEW w \in Workers
    PROVE  /\ worker[w].pc = "next" => worker[w] \in Looping
           /\ worker[w].pc \in {"post", "ack", "retry"} => worker[w] \in Handling
           /\ worker[w] # Resting => worker[w] \in Looping \cup Handling
           /\ worker[w] \in Looping => worker[w].pc = "next"
<1>1. worker[w] \in {Resting} \cup Looping \cup Handling
  BY DEF RegistrationTypeOK
<1> QED BY <1>1 DEF Resting, Looping, Handling

\* A loaded row is a row of the outbox.
LEMMA ChangeTypes ==
    ASSUME NEW change \in Change
    PROVE  /\ change.conn \in ConnectionIds
           /\ change.row \in OutboxRow /\ change.row.revision \in Nat
           /\ change.row.attempt_count \in Nat
BY DEF Change, OutboxRow

\* What a pass that handles a change carries.
LEMMA HandlingTypes ==
    ASSUME NEW state \in Handling
    PROVE  /\ state.change \in Change /\ state.todo \subseteq Change
           /\ state.token \in PushTokens
           /\ state.relay \in Relays /\ state.relay \in Nat
           /\ state.pc \in {"post", "ack", "retry"} /\ state # Resting
BY RegistrationAssumption DEF Handling, Relays, Resting

\* retry_delay returns a number of seconds.
LEMMA RetryDelayType ==
    ASSUME NEW n \in Nat PROVE RetryDelay(n) \in Int
<1> DEFINE exponent == IF n < 16 THEN n ELSE 16
<1>1. exponent \in Nat
  OBVIOUS
<1>2. 2^exponent \in Int
  BY <1>1
<1> DEFINE power == 2^exponent
<1> HIDE DEF exponent
<1>3. power \in Int
  BY <1>2
<1> HIDE DEF power
<1>4. InitialRetryDelay * power \in Int
  BY <1>3, RegistrationAssumption
<1>5. RetryDelay(n) = IF InitialRetryDelay * power < MaxRetryDelay
                      THEN InitialRetryDelay * power ELSE MaxRetryDelay
  BY DEF RetryDelay, power, exponent
<1> QED BY <1>4, <1>5, RegistrationAssumption

-----------------------------------------------------------------------------
(* The service.                                                            *)

\* What one handled request does to the service: no revision goes back, the
\* relay it is about reaches the request's revision, and nothing is
\* registered that the connection did not ask for.
LEMMA ServeStep ==
    ASSUME RegistrationTypeOK, ServerReached, NEW request \in Request,
           AskedFor(request.conn, request.what.revision, request.what.enabled),
           Serve(request), UNCHANGED connections
    PROVE  /\ server' \in [ConnectionIds -> [Relays -> Registration \cup {Unregistered}]]
           /\ ServerReached'
           /\ \A c \in ConnectionIds, r \in Relays :
                  server[c][r].revision <= server'[c][r].revision
           /\ request.what.revision <=
                  server'[request.conn][request.relay].revision
<1> DEFINE c0 == request.conn
           r0 == request.relay
           old == server[c0][r0]
           new == Handled(old, request.what)
<1>1. c0 \in ConnectionIds /\ r0 \in Relays /\ request.what \in Registration
      /\ request.what.revision \in Nat
  BY DEF Request, Registration
<1>2. old \in Registration \cup {Unregistered} /\ old.revision \in Int
  BY <1>1, RowTypes DEF RegistrationTypeOK
<1>3. /\ new \in Registration \cup {Unregistered}
      /\ new = request.what \/ new = old
      /\ old.revision <= new.revision /\ request.what.revision <= new.revision
  BY <1>1, <1>2 DEF Handled
<1>4. server' = [server EXCEPT ![c0][r0] = new]
  BY DEF Serve
<1>5. /\ AskedFor(c0, old.revision, old.enabled)
      /\ AskedFor(c0, request.what.revision, request.what.enabled)
  BY <1>1 DEF ServerReached
<1>6. AskedFor(c0, new.revision, new.enabled)
  BY <1>3, <1>5
<1> HIDE DEF new
<1>7. server' \in [ConnectionIds -> [Relays -> Registration \cup {Unregistered}]]
  BY <1>1, <1>3, <1>4 DEF RegistrationTypeOK
<1>8. server'[c0][r0] = new
  BY <1>1, <1>4 DEF RegistrationTypeOK
<1>9. ASSUME NEW c \in ConnectionIds, NEW r \in Relays
      PROVE  \/ c = c0 /\ r = r0
             \/ server'[c][r] = server[c][r]
  BY <1>1, <1>4 DEF RegistrationTypeOK
<1>10. ASSUME NEW c \in ConnectionIds, NEW r \in Relays
       PROVE  /\ server[c][r].revision <= server'[c][r].revision
              /\ AskedFor(c, server'[c][r].revision, server'[c][r].enabled)
  <2>1. CASE c = c0 /\ r = r0
    BY <2>1, <1>3, <1>6, <1>8
  <2>2. CASE server'[c][r] = server[c][r]
    BY <2>2, RowTypes DEF ServerReached
  <2> QED BY <1>9, <2>1, <2>2
<1>11. ServerReached'
  BY <1>10 DEF ServerReached, AskedFor
<1> QED BY <1>3, <1>7, <1>8, <1>10, <1>11

\* The request of a pass is one of its connection's.
LEMMA RequestTypes ==
    ASSUME RegistrationInv, NEW w \in Workers, worker[w].pc = "post"
    PROVE  /\ worker[w] \in Handling
           /\ RequestOf(w) \in Request
           /\ AskedFor(RequestOf(w).conn, RequestOf(w).what.revision,
                       RequestOf(w).what.enabled)
<1>1. worker[w] \in Handling
  BY PassTypes DEF RegistrationInv
<1>2. worker[w].change \in Change /\ worker[w].token \in PushTokens
      /\ worker[w].relay \in Relays
  BY <1>1, HandlingTypes
<1>3. RequestOf(w) \in Request
  BY <1>2 DEF RequestOf, Request, Registration, Change, OutboxRow
<1> QED BY <1>1, <1>3 DEF RegistrationInv, PassesReached, RequestOf

-----------------------------------------------------------------------------
(* Steps of a pass.                                                        *)

\* A step that leaves the tables alone and moves the service forward keeps
\* what was delivered.
LEMMA ServiceAhead ==
    ASSUME RegistrationInv, UNCHANGED <<connections, outbox>>,
           server' \in [ConnectionIds -> [Relays -> Registration \cup {Unregistered}]],
           \A c \in ConnectionIds, r \in Relays :
               server[c][r].revision <= server'[c][r].revision
    PROVE  RevisionsInv' /\ Delivered'
<1>1. RevisionsInv'
  BY DEF RegistrationInv, RevisionsInv, AskedFor
<1>2. SUFFICES ASSUME NEW c \in ConnectionIds, NEW r \in Relays,
                      connections[c].revision <= server[c][r].revision
               PROVE  connections[c].revision <= server'[c][r].revision
  BY <1>1 DEF RegistrationInv, Delivered
<1>3. server'[c][r].revision \in Int
  BY DEF Registration, Unregistered
<1>4. connections[c].revision \in Int /\ server[c][r].revision \in Int
  BY RowTypes DEF RegistrationInv
<1> QED BY <1>2, <1>3, <1>4

\* What a pass must show about its next local state.
Sound(next) ==
    /\ next \in {Resting} \cup Looping \cup Handling
    /\ next # Resting => \A change \in next.todo :
           AskedFor(change.conn, change.row.revision, change.row.enabled)
    /\ next \in Handling =>
           AskedFor(next.change.conn, next.change.row.revision,
                    next.change.row.enabled)

PastRelays(next, service) ==
    next \in Handling => \A r \in Relays :
        r < next.relay \/ next.pc = "ack" =>
            next.change.row.revision <= service[next.change.conn][r].revision

\* A pass may take any sound local state; the others are not affected.
LEMMA MovePass ==
    ASSUME RegistrationInv, NEW w \in Workers, NEW next,
           worker' = [worker EXCEPT ![w] = next], UNCHANGED connections,
           server' \in [ConnectionIds -> [Relays -> Registration \cup {Unregistered}]],
           \A c \in ConnectionIds, r \in Relays :
               server[c][r].revision <= server'[c][r].revision,
           Sound(next), PastRelays(next, server')
    PROVE  /\ worker' \in [Workers -> {Resting} \cup Looping \cup Handling]
           /\ PassesReached' /\ Progressed'
<1> USE DEF RegistrationInv
<1>1. worker' \in [Workers -> {Resting} \cup Looping \cup Handling]
  BY DEF RegistrationTypeOK, Sound
<1>2. ASSUME NEW v \in Workers
      PROVE  worker'[v] = IF v = w THEN next ELSE worker[v]
  BY DEF RegistrationTypeOK
<1>3. PassesReached'
  BY <1>2 DEF PassesReached, AskedFor, Sound
<1>4. ASSUME NEW v \in Workers, worker'[v] \in Handling, NEW r \in Relays,
             r < worker'[v].relay \/ worker'[v].pc = "ack"
      PROVE  worker'[v].change.row.revision <=
                 server'[worker'[v].change.conn][r].revision
  <2>1. CASE v = w
    BY <1>2, <1>4, <2>1 DEF PastRelays
  <2>2. CASE v # w
    <3> DEFINE c == worker[v].change.conn
               n == worker[v].change.row.revision
    <3>1. worker'[v] = worker[v] /\ worker[v] \in Handling
      BY <1>2, <1>4, <2>2
    <3>2. worker[v].change \in Change
      BY <3>1, HandlingTypes
    <3>3. c \in ConnectionIds /\ n \in Nat
      BY <3>2, ChangeTypes
    <3>4. n <= server[c][r].revision
      BY <1>4, <3>1 DEF Progressed
    <3>5. server[c][r].revision \in Int
      BY <3>3, RowTypes
    <3>6. server'[c][r].revision \in Int
      BY <3>3 DEF Registration, Unregistered
    <3>7. server[c][r].revision <= server'[c][r].revision
      BY <3>3
    <3> HIDE DEF c, n
    <3>8. n <= server'[c][r].revision
      BY <3>3, <3>4, <3>5, <3>6, <3>7
    <3> QED BY <3>1, <3>8 DEF c, n
  <2> QED BY <2>1, <2>2
<1>5. Progressed'
  BY <1>4 DEF Progressed, Handling, Relays, Change, OutboxRow
<1> QED BY <1>1, <1>3, <1>5

\* A step of a pass that changes neither the tables nor the service.
LEMMA QuietStep ==
    ASSUME RegistrationInv, NEW w \in Workers, NEW next,
           worker' = [worker EXCEPT ![w] = next],
           Sound(next), PastRelays(next, server),
           UNCHANGED <<connections, outbox, used, server, late, now, token, wanted>>
    PROVE  RegistrationInv'
<1> USE DEF RegistrationInv
<1>1. /\ server' \in [ConnectionIds -> [Relays -> Registration \cup {Unregistered}]]
      /\ \A c \in ConnectionIds, r \in Relays :
             server[c][r].revision <= server'[c][r].revision
  BY RowTypes DEF RegistrationTypeOK
<1>2. PastRelays(next, server')
  BY DEF PastRelays
<1>3. /\ worker' \in [Workers -> {Resting} \cup Looping \cup Handling]
      /\ PassesReached' /\ Progressed'
  BY <1>1, <1>2, MovePass
<1>4. RegistrationTypeOK'
  BY <1>3 DEF RegistrationTypeOK, RegistryTypeOK
<1>5. RevisionsInv' /\ LateReached' /\ ServerReached' /\ Delivered'
  BY DEF RevisionsInv, LateReached, ServerReached, Delivered, AskedFor
<1> QED BY <1>3, <1>4, <1>5

\* Loading the due rows.
LEMMA LoadStep ==
    ASSUME RegistrationInv, NEW w \in Workers, LoadDue(w),
           UNCHANGED <<now, token, wanted>>
    PROVE  RegistrationInv'
<1> USE DEF RegistrationInv
<1> DEFINE next == [pc |-> "next", todo |-> Due(now), token |-> token]
<1>1. worker' = [worker EXCEPT ![w] = next]
  BY DEF LoadDue
<1>2. UNCHANGED <<connections, outbox, used, server, late>>
  BY DEF LoadDue, registryVars
<1>3. ASSUME NEW change \in Due(now)
      PROVE  /\ change \in Change
             /\ AskedFor(change.conn, change.row.revision, change.row.enabled)
  <2>1. PICK c \in ConnectionIds :
            outbox[c] # NoChange /\ change = [conn |-> c, row |-> outbox[c]]
    BY <1>3 DEF Due
  <2>2. outbox[c] \in OutboxRow
    BY <2>1, RowTypes
  <2> QED BY <2>1, <2>2 DEF Change, RevisionsInv
<1>4. next \in Looping /\ next \notin Handling
  BY <1>3 DEF Looping, Handling, RegistrationTypeOK
<1>5. Sound(next) /\ PastRelays(next, server)
  BY <1>3, <1>4 DEF Sound, PastRelays
<1> HIDE DEF next
<1> QED BY <1>1, <1>2, <1>5, QuietStep

\* A pass that ends has nothing to show.
LEMMA RestingIsSound ==
    Sound(Resting) /\ \A service : PastRelays(Resting, service)
BY DEF Sound, PastRelays, Resting, Handling

\* Taking the next change, or leaving the loop.
LEMMA TakeStep ==
    ASSUME RegistrationInv, NEW w \in Workers, TakeChange(w),
           UNCHANGED <<now, token, wanted>>
    PROVE  RegistrationInv'
<1> USE DEF RegistrationInv
<1>1. /\ worker[w] \in Looping /\ worker[w] # Resting
      /\ worker[w].todo \subseteq Change /\ worker[w].token \in PushTokens
  BY PassTypes DEF TakeChange, Looping, Resting
<1>2. UNCHANGED <<connections, outbox, used, server, late>>
  BY DEF TakeChange, registryVars
<1>3. CASE worker' = [worker EXCEPT ![w] = Resting]
  BY <1>2, <1>3, RestingIsSound, QuietStep
<1>4. ASSUME NEW change \in worker[w].todo,
             worker' = [worker EXCEPT ![w] =
                 [pc |-> "post", todo |-> @.todo \ {change},
                  token |-> @.token, change |-> change, relay |-> 1]]
      PROVE  RegistrationInv'
  <2> DEFINE next == [pc |-> "post", todo |-> worker[w].todo \ {change},
                      token |-> worker[w].token, change |-> change, relay |-> 1]
  <2>1. worker' = [worker EXCEPT ![w] = next]
    BY <1>4
  <2>2. 1 \in Relays
    BY RegistrationAssumption DEF Relays
  <2>3. next \in Handling
    BY <1>1, <2>2 DEF Handling
  <2>4. \A other \in worker[w].todo :
            AskedFor(other.conn, other.row.revision, other.row.enabled)
    BY <1>1 DEF PassesReached
  <2>5. Sound(next)
    BY <2>3, <2>4 DEF Sound
  <2>6. PastRelays(next, server)
    BY DEF PastRelays, Relays
  <2> HIDE DEF next
  <2> QED BY <1>2, <2>1, <2>5, <2>6, QuietStep
<1> QED BY <1>3, <1>4 DEF TakeChange

\* A step of a pass that changes the service by its own request or not at
\* all, and may leave that request under way.
LEMMA PostedStep ==
    ASSUME RegistrationInv, NEW w \in Workers, NEW next,
           worker[w].pc = "post", worker' = [worker EXCEPT ![w] = next],
           Sound(next), PastRelays(next, server'),
           Serve(RequestOf(w)) \/ UNCHANGED server,
           late' = late \/ late' = late \cup {RequestOf(w)},
           UNCHANGED <<connections, outbox, used, now, token, wanted>>
    PROVE  RegistrationInv'
<1> USE DEF RegistrationInv
<1>1. /\ RequestOf(w) \in Request
      /\ AskedFor(RequestOf(w).conn, RequestOf(w).what.revision,
                  RequestOf(w).what.enabled)
  BY RequestTypes
<1>2. /\ server' \in [ConnectionIds -> [Relays -> Registration \cup {Unregistered}]]
      /\ ServerReached'
      /\ \A c \in ConnectionIds, r \in Relays :
             server[c][r].revision <= server'[c][r].revision
  <2>1. CASE Serve(RequestOf(w))
    BY <1>1, <2>1, ServeStep
  <2>2. CASE UNCHANGED server
    BY <2>2, RowTypes DEF RegistrationTypeOK, ServerReached, AskedFor
  <2> QED BY <2>1, <2>2
<1>3. /\ worker' \in [Workers -> {Resting} \cup Looping \cup Handling]
      /\ PassesReached' /\ Progressed'
  BY <1>2, MovePass
<1>4. RevisionsInv' /\ Delivered'
  BY <1>2, ServiceAhead
<1>5. late' \subseteq Request /\ LateReached'
  BY <1>1 DEF RegistrationTypeOK, LateReached, AskedFor
<1>6. RegistrationTypeOK'
  BY <1>2, <1>3, <1>5 DEF RegistrationTypeOK, RegistryTypeOK
<1> QED BY <1>2, <1>3, <1>4, <1>5, <1>6

\* Giving up on a change, or on the whole pass, keeps the local state sound.
LEMMA GiveUpSound ==
    ASSUME RegistrationInv, NEW w \in Workers, worker[w] \in Handling
    PROVE  /\ [worker[w] EXCEPT !.pc = "retry"] \in Handling
           /\ Sound([worker[w] EXCEPT !.pc = "retry"])
           /\ PastRelays([worker[w] EXCEPT !.pc = "retry"], server)
<1> USE DEF RegistrationInv
<1>1. [worker[w] EXCEPT !.pc = "retry"] \in Handling
  BY DEF Handling
<1>2. worker[w] # Resting
  BY HandlingTypes
<1>3. /\ [worker[w] EXCEPT !.pc = "retry"].todo = worker[w].todo
      /\ [worker[w] EXCEPT !.pc = "retry"].change = worker[w].change
      /\ [worker[w] EXCEPT !.pc = "retry"].relay = worker[w].relay
      /\ [worker[w] EXCEPT !.pc = "retry"].pc = "retry"
  BY DEF Handling
<1>4. Sound([worker[w] EXCEPT !.pc = "retry"])
  BY <1>1, <1>2, <1>3 DEF Sound, PassesReached
<1>5. PastRelays([worker[w] EXCEPT !.pc = "retry"], server)
  BY <1>1, <1>3 DEF PastRelays, Progressed
<1> QED BY <1>1, <1>4, <1>5

\* What a pass has achieved is not lost when the service moves forward.
LEMMA PastRelaysStays ==
    ASSUME RegistrationInv, NEW next \in Handling, PastRelays(next, server),
           server' \in [ConnectionIds -> [Relays -> Registration \cup {Unregistered}]],
           \A c \in ConnectionIds, r \in Relays :
               server[c][r].revision <= server'[c][r].revision
    PROVE  PastRelays(next, server')
<1> DEFINE c == next.change.conn
           n == next.change.row.revision
<1>1. c \in ConnectionIds /\ n \in Nat
  BY HandlingTypes, ChangeTypes
<1>2. ASSUME NEW r \in Relays, n <= server[c][r].revision
      PROVE  n <= server'[c][r].revision
  <2>1. server[c][r].revision \in Int /\ server'[c][r].revision \in Int
    BY <1>1, RowTypes DEF RegistrationInv, Registration, Unregistered
  <2>2. server[c][r].revision <= server'[c][r].revision
    BY <1>1
  <2> HIDE DEF c, n
  <2> QED BY <1>1, <1>2, <2>1, <2>2
<1> QED BY <1>2 DEF PastRelays

\* The service handles a pass's request, or does not.
LEMMA ServedOrNot ==
    ASSUME RegistrationInv, NEW w \in Workers, worker[w].pc = "post",
           Serve(RequestOf(w)) \/ UNCHANGED server, UNCHANGED connections
    PROVE  /\ server' \in [ConnectionIds -> [Relays -> Registration \cup {Unregistered}]]
           /\ ServerReached'
           /\ \A c \in ConnectionIds, r \in Relays :
                  server[c][r].revision <= server'[c][r].revision
<1> USE DEF RegistrationInv
<1>1. CASE Serve(RequestOf(w))
  BY <1>1, RequestTypes, ServeStep
<1>2. CASE UNCHANGED server
  BY <1>2, RowTypes DEF RegistrationTypeOK, ServerReached, AskedFor
<1> QED BY <1>1, <1>2

\* A post without a success: the change is deferred or the pass stops.
LEMMA UnansweredStep ==
    ASSUME RegistrationInv, NEW w \in Workers, worker[w].pc = "post",
           \/ Goto(w, "retry")
           \/ worker' = [worker EXCEPT ![w] = Resting],
           Serve(RequestOf(w)) \/ UNCHANGED server,
           late' = late \/ late' = late \cup {RequestOf(w)},
           UNCHANGED <<connections, outbox, used, now, token, wanted>>
    PROVE  RegistrationInv'
<1>1. /\ server' \in [ConnectionIds -> [Relays -> Registration \cup {Unregistered}]]
      /\ \A c \in ConnectionIds, r \in Relays :
             server[c][r].revision <= server'[c][r].revision
  BY ServedOrNot
<1>2. CASE Goto(w, "retry")
  <2> DEFINE next == [worker[w] EXCEPT !.pc = "retry"]
  <2>1. worker' = [worker EXCEPT ![w] = next]
    BY <1>2 DEF Goto, RegistrationInv, RegistrationTypeOK
  <2>2. worker[w] \in Handling
    BY RequestTypes
  <2>3. next \in Handling /\ Sound(next) /\ PastRelays(next, server)
    BY <2>2, GiveUpSound
  <2> HIDE DEF next
  <2>4. PastRelays(next, server')
    BY <1>1, <2>3, PastRelaysStays
  <2> QED BY <2>1, <2>3, <2>4, PostedStep
<1>3. CASE worker' = [worker EXCEPT ![w] = Resting]
  <2>1. Sound(Resting) /\ PastRelays(Resting, server')
    BY RestingIsSound
  <2> QED BY <1>3, <2>1, PostedStep
<1> QED BY <1>2, <1>3

\* The service answers the request of one relay.
LEMMA PostStep ==
    ASSUME RegistrationInv, NEW w \in Workers, Post(w),
           UNCHANGED <<now, token, wanted>>
    PROVE  RegistrationInv'
<1> DEFINE state == worker[w]
           next == IF state.relay < RelayCount
                   THEN [state EXCEPT !.relay = state.relay + 1]
                   ELSE [state EXCEPT !.pc = "ack"]
           c == state.change.conn
           n == state.change.row.revision
<1>1. /\ worker[w].pc = "post" /\ Serve(RequestOf(w)) /\ late' = late
      /\ UNCHANGED <<connections, outbox, used>>
  BY DEF Post, registryVars
<1>2. /\ state \in Handling /\ RequestOf(w) \in Request
      /\ AskedFor(RequestOf(w).conn, RequestOf(w).what.revision,
                  RequestOf(w).what.enabled)
  BY <1>1, RequestTypes
<1>3. /\ state.change \in Change /\ state.relay \in Relays /\ state.relay \in Nat
      /\ state # Resting
  BY <1>2, HandlingTypes
<1>4. c \in ConnectionIds /\ n \in Nat
  BY <1>3, ChangeTypes
<1>5. CASE Goto(w, "retry")
  BY <1>1, <1>5, UnansweredStep
<1>6. CASE \/ /\ state.relay < RelayCount
              /\ worker' = [worker EXCEPT ![w].relay = @ + 1]
           \/ state.relay = RelayCount /\ Goto(w, "ack")
  <2>1. worker' = [worker EXCEPT ![w] = next]
    <3>1. CASE state.relay < RelayCount
      BY <1>3, <1>6, <3>1, RegistrationAssumption
    <3>2. CASE state.relay = RelayCount
      BY <1>3, <1>6, <3>2, RegistrationAssumption DEF Goto
    <3> QED BY <1>6, <3>1, <3>2
  <2>2. RelayCount \in Nat /\ Relays = 1..RelayCount
    BY RegistrationAssumption DEF Relays
  <2>3. next \in Handling
    BY <1>2, <1>3, <2>2 DEF Handling
  <2>4. next.change = state.change /\ next.todo = state.todo
    BY <1>2 DEF Handling
  <2>5. Sound(next)
    BY <1>2, <1>3, <2>3, <2>4 DEF Sound, RegistrationInv, PassesReached
  <2>6. ASSUME NEW r \in Relays, r < next.relay \/ next.pc = "ack"
        PROVE  r < state.relay \/ r = state.relay
    <3>1. CASE state.relay < RelayCount
      <4>1. next.relay = state.relay + 1 /\ next.pc = "post"
        BY <1>1, <1>2, <3>1 DEF Handling
      <4> QED BY <1>3, <2>2, <2>6, <4>1
    <3>2. CASE ~(state.relay < RelayCount)
      BY <1>3, <2>2, <3>2
    <3> QED BY <3>1, <3>2
  <2>7. /\ server' \in [ConnectionIds -> [Relays -> Registration \cup {Unregistered}]]
        /\ \A d \in ConnectionIds, r \in Relays :
               server[d][r].revision <= server'[d][r].revision
        /\ RequestOf(w).what.revision <=
               server'[RequestOf(w).conn][RequestOf(w).relay].revision
    BY <1>1, <1>2, ServeStep DEF RegistrationInv
  <2>8. n <= server'[c][state.relay].revision
    BY <2>7 DEF RequestOf
  <2>9. PastRelays(state, server)
    BY <1>2 DEF RegistrationInv, Progressed, PastRelays
  <2>10. PastRelays(state, server')
    BY <1>2, <2>7, <2>9, PastRelaysStays
  <2>11. ASSUME NEW r \in Relays, r < next.relay \/ next.pc = "ack"
         PROVE  n <= server'[c][r].revision
    BY <1>2, <2>6, <2>8, <2>10, <2>11 DEF PastRelays
  <2> HIDE DEF next
  <2>12. PastRelays(next, server')
    BY <2>4, <2>11 DEF PastRelays
  <2> QED BY <1>1, <2>1, <2>5, <2>12, PostedStep
<1> QED BY <1>5, <1>6 DEF Post

\* Going back to the loop after a change was handled.
LEMMA NextChangeStep ==
    ASSUME RegistrationInv, NEW w \in Workers, worker[w] \in Handling,
           NextChange(w), UNCHANGED <<connections, server>>
    PROVE  /\ worker' \in [Workers -> {Resting} \cup Looping \cup Handling]
           /\ PassesReached' /\ Progressed'
<1> DEFINE next == [pc |-> "next", todo |-> worker[w].todo, token |-> worker[w].token]
<1>1. worker' = [worker EXCEPT ![w] = next]
  BY DEF NextChange
<1>2. worker[w].todo \subseteq Change /\ worker[w].token \in PushTokens
      /\ worker[w] # Resting
  BY HandlingTypes
<1>3. next \in Looping /\ next \notin Handling
  BY <1>2 DEF Looping, Handling
<1>4. Sound(next) /\ PastRelays(next, server')
  BY <1>2, <1>3 DEF Sound, PastRelays, RegistrationInv, PassesReached
<1>5. /\ server' \in [ConnectionIds -> [Relays -> Registration \cup {Unregistered}]]
      /\ \A c \in ConnectionIds, r \in Relays :
             server[c][r].revision <= server'[c][r].revision
  BY RowTypes DEF RegistrationInv, RegistrationTypeOK
<1> HIDE DEF next
<1> QED BY <1>1, <1>4, <1>5, MovePass

\* acknowledge_wake_registration: a row that leaves the outbox at the
\* revision of a tombstone was posted to every relay.
LEMMA AcknowledgeStep ==
    ASSUME RegistrationInv, NEW w \in Workers, Acknowledge(w),
           UNCHANGED <<now, token, wanted>>
    PROVE  RegistrationInv'
<1> USE DEF RegistrationInv
<1> DEFINE change == worker[w].change
<1>1. /\ worker[w].pc = "ack" /\ NextChange(w)
      /\ UNCHANGED <<connections, used, server, late>>
      /\ outbox' = IF SameChange(change)
                   THEN [outbox EXCEPT ![change.conn] = NoChange] ELSE outbox
  BY DEF Acknowledge, AcknowledgeWakeRegistration
<1>2. worker[w] \in Handling
  BY <1>1, PassTypes
<1>3. change \in Change /\ change.conn \in ConnectionIds
  BY <1>2, HandlingTypes, ChangeTypes
<1>4. /\ worker' \in [Workers -> {Resting} \cup Looping \cup Handling]
      /\ PassesReached' /\ Progressed'
  BY <1>1, <1>2, NextChangeStep
<1>5. outbox' \in [ConnectionIds -> OutboxRow \cup {NoChange}]
  BY <1>1, <1>3 DEF RegistrationTypeOK, RegistryTypeOK
<1>6. ASSUME NEW c \in ConnectionIds
      PROVE  \/ outbox'[c] = outbox[c]
             \/ outbox'[c] = NoChange /\ c = change.conn /\ SameChange(change)
  BY <1>1, <1>3 DEF RegistrationTypeOK, RegistryTypeOK
<1>7. RegistrationTypeOK'
  BY <1>1, <1>4, <1>5 DEF RegistrationTypeOK, RegistryTypeOK
<1>8. RevisionsInv'
  BY <1>1, <1>6 DEF RevisionsInv, AskedFor
<1>9. LateReached' /\ ServerReached'
  BY <1>1 DEF LateReached, ServerReached, AskedFor
<1>10. ASSUME NEW c \in ConnectionIds, connections[c].status = "tombstoned",
              outbox'[c] = NoChange, NEW r \in Relays
       PROVE  connections[c].revision <= server[c][r].revision
  <2>1. CASE outbox'[c] = outbox[c]
    BY <1>10, <2>1 DEF Delivered
  <2>2. CASE c = change.conn /\ SameChange(change)
    <3>1. change.row.revision = connections[c].revision
      BY <1>10, <2>2 DEF SameChange, RevisionsInv
    <3>2. change.row.revision <= server[c][r].revision
      BY <1>1, <1>2, <2>2 DEF Progressed
    <3> QED BY <3>1, <3>2
  <2> QED BY <1>6, <2>1, <2>2
<1>11. Delivered'
  BY <1>1, <1>10 DEF Delivered
<1> QED BY <1>4, <1>7, <1>8, <1>9, <1>11

\* A row with a later attempt is the same change.
LEMMA DeferredRow ==
    ASSUME NEW row \in OutboxRow, NEW available \in Int, NEW t \in Nat
    PROVE  LET deferred == [row EXCEPT !.attempt_count = row.attempt_count + 1,
                               !.available_at = available, !.updated_at = t]
           IN  /\ deferred \in OutboxRow /\ deferred # NoChange
               /\ deferred.revision = row.revision
               /\ deferred.enabled = row.enabled
<1> DEFINE n == row.attempt_count + 1
           deferred == [row EXCEPT !.attempt_count = n,
                            !.available_at = available, !.updated_at = t]
<1>1. n \in Nat
  BY DEF OutboxRow
<1> HIDE DEF n
<1>2. deferred \in OutboxRow /\ deferred.revision = row.revision
      /\ deferred.enabled = row.enabled
  BY <1>1 DEF OutboxRow
<1>3. deferred.revision \in Nat
  BY <1>2 DEF OutboxRow
<1>4. NoChange.revision \notin Nat
  BY DEF NoChange
<1>5. deferred # NoChange
  <2> HIDE DEF deferred
  <2> QED BY <1>3, <1>4
<1> QED BY <1>2, <1>5 DEF n

\* retry_wake_registration keeps the revision and the state of the row.
LEMMA DeferStep ==
    ASSUME RegistrationInv, NEW w \in Workers, Defer(w),
           UNCHANGED <<now, token, wanted>>
    PROVE  RegistrationInv'
<1> USE DEF RegistrationInv
<1> DEFINE change == worker[w].change
           c0 == change.conn
           delay == RetryDelay(change.row.attempt_count)
           deferred == [outbox[c0] EXCEPT !.attempt_count = outbox[c0].attempt_count + 1,
                            !.available_at = now + delay, !.updated_at = now]
<1>1. /\ worker[w].pc = "retry" /\ NextChange(w)
      /\ UNCHANGED <<connections, used, server, late>>
      /\ outbox' = IF ~SameChange(change) THEN outbox
                   ELSE [outbox EXCEPT ![c0].attempt_count = @ + 1,
                             ![c0].available_at = now + delay,
                             ![c0].updated_at = now]
  BY DEF Defer, RetryWakeRegistration
<1>2. worker[w] \in Handling
  BY <1>1, PassTypes
<1>3. /\ change \in Change /\ c0 \in ConnectionIds
      /\ change.row.attempt_count \in Nat
  BY <1>2, HandlingTypes, ChangeTypes
<1>4. delay \in Int /\ now \in Nat
  BY <1>3, RetryDelayType, RegistryAssumption DEF RegistrationTypeOK, Time
<1>5. /\ worker' \in [Workers -> {Resting} \cup Looping \cup Handling]
      /\ PassesReached' /\ Progressed'
  BY <1>1, <1>2, NextChangeStep, SMTT(30)
<1> HIDE DEF delay
<1>6. SameChange(change) => /\ outbox[c0] # NoChange /\ outbox[c0] \in OutboxRow
                            /\ outbox' = [outbox EXCEPT ![c0] = deferred]
  BY <1>1, <1>3, RowTypes DEF SameChange
<1>7. SameChange(change) => /\ deferred \in OutboxRow /\ deferred # NoChange
                            /\ deferred.revision = outbox[c0].revision
                            /\ deferred.enabled = outbox[c0].enabled
  <2> DEFINE available == now + delay
  <2>1. available \in Int
    BY <1>4
  <2> HIDE DEF available
  <2>2. ASSUME SameChange(change)
        PROVE  LET row == outbox[c0]
                   next == [row EXCEPT !.attempt_count = row.attempt_count + 1,
                               !.available_at = available, !.updated_at = now]
               IN  /\ next \in OutboxRow /\ next # NoChange
                   /\ next.revision = row.revision
                   /\ next.enabled = row.enabled
    BY <1>4, <1>6, <2>1, <2>2, DeferredRow, ZenonT(60)
  <2> QED BY <2>2 DEF available
<1> HIDE DEF deferred
<1>8. ~SameChange(change) => outbox' = outbox
  BY <1>1
<1>9. outbox' \in [ConnectionIds -> OutboxRow \cup {NoChange}]
  BY <1>3, <1>6, <1>7, <1>8 DEF RegistrationTypeOK, RegistryTypeOK
<1>10. ASSUME NEW c \in ConnectionIds
       PROVE  \/ outbox'[c] = outbox[c]
              \/ /\ outbox[c] # NoChange /\ outbox'[c] # NoChange
                 /\ outbox'[c].revision = outbox[c].revision
                 /\ outbox'[c].enabled = outbox[c].enabled
  BY <1>3, <1>6, <1>7, <1>8 DEF RegistrationTypeOK, RegistryTypeOK
<1>11. RegistrationTypeOK'
  BY <1>1, <1>5, <1>9 DEF RegistrationTypeOK, RegistryTypeOK
<1>12. RevisionsInv' /\ Delivered'
  BY <1>1, <1>10, ZenonT(60) DEF RevisionsInv, AskedFor, Delivered
<1>13. LateReached' /\ ServerReached'
  BY <1>1 DEF LateReached, ServerReached, AskedFor
<1> QED BY <1>5, <1>11, <1>12, <1>13

\* A pass step, answered or not.
LEMMA PassStep ==
    ASSUME RegistrationInv, NEW w \in Workers, Pass(w) \/ Fault(w)
    PROVE  RegistrationInv'
<1>1. CASE Pass(w)
  BY <1>1, LoadStep, TakeStep, PostStep, AcknowledgeStep, DeferStep DEF Pass
<1>2. CASE Fault(w)
  <2>1. UNCHANGED <<connections, outbox, used, now, token, wanted>>
    BY <1>2 DEF Fault, registryVars
  <2>2. ASSUME Unanswered(w)
        PROVE  /\ Serve(RequestOf(w)) \/ UNCHANGED server
               /\ late' = late \/ late' = late \cup {RequestOf(w)}
    BY <2>2 DEF Unanswered
  <2>3. CASE PostFails(w)
    BY <2>1, <2>2, <2>3, UnansweredStep DEF PostFails
  <2>4. CASE StopPass(w) /\ worker[w].pc = "post"
    BY <2>1, <2>2, <2>4, UnansweredStep DEF StopPass
  <2>5. CASE StopPass(w) /\ worker[w].pc # "post"
    BY <2>1, <2>5, RestingIsSound, QuietStep DEF StopPass
  <2> QED BY <1>2, <2>3, <2>4, <2>5 DEF Fault
<1> QED BY <1>1, <1>2

-----------------------------------------------------------------------------
(* The network, the clock and the application.                             *)

\* A request nobody waits for is handled like any other.
LEMMA ArriveLateStep ==
    ASSUME RegistrationInv, ArriveLate
    PROVE  RegistrationInv'
<1> USE DEF RegistrationInv
<1>1. PICK request \in late : Serve(request) /\ late' = late \ {request}
  BY DEF ArriveLate
<1>2. UNCHANGED <<connections, outbox, used, now, worker, token, wanted>>
  BY DEF ArriveLate, registryVars
<1>3. /\ request \in Request
      /\ AskedFor(request.conn, request.what.revision, request.what.enabled)
  BY DEF RegistrationTypeOK, LateReached
<1>4. /\ server' \in [ConnectionIds -> [Relays -> Registration \cup {Unregistered}]]
      /\ ServerReached'
      /\ \A c \in ConnectionIds, r \in Relays :
             server[c][r].revision <= server'[c][r].revision
  BY <1>1, <1>2, <1>3, ServeStep
<1>5. RevisionsInv' /\ Delivered'
  BY <1>2, <1>4, ServiceAhead
<1>6. PassesReached' /\ LateReached'
  BY <1>1, <1>2 DEF PassesReached, LateReached, AskedFor
<1>7. ASSUME NEW w \in Workers, worker[w] \in Handling
      PROVE  PastRelays(worker[w], server')
  <2>1. PastRelays(worker[w], server)
    BY <1>7 DEF Progressed, PastRelays
  <2> QED BY <1>4, <1>7, <2>1, PastRelaysStays
<1>8. Progressed'
  BY <1>2, <1>7 DEF Progressed, PastRelays
<1>9. RegistrationTypeOK'
  BY <1>1, <1>2, <1>4 DEF RegistrationTypeOK, RegistryTypeOK
<1> QED BY <1>4, <1>5, <1>6, <1>8, <1>9

\* Time alone changes nothing the invariant speaks of.
LEMMA TickStep ==
    ASSUME RegistrationInv, Tick
    PROVE  RegistrationInv'
<1> USE DEF RegistrationInv
<1>1. UNCHANGED <<connections, outbox, used, worker, server, late, token, wanted>>
  BY DEF Tick, registryVars
<1>2. now' \in Time
  BY RegistryAssumption DEF Tick, RegistrationTypeOK, Time
<1>3. RegistrationTypeOK'
  BY <1>1, <1>2 DEF RegistrationTypeOK, RegistryTypeOK
<1>4. /\ RevisionsInv' /\ PassesReached' /\ LateReached' /\ ServerReached'
      /\ Progressed' /\ Delivered'
  BY <1>1 DEF RevisionsInv, PassesReached, LateReached, ServerReached,
              Progressed, Delivered, AskedFor
<1> QED BY <1>3, <1>4

\* What was asked for stays so when the revision of its connection grows and
\* its tombstone is new, or when the connection is not a tombstone.
LEMMA AskedForStays ==
    ASSUME \A c \in ConnectionIds :
               \/ connections'[c] = connections[c]
               \/ /\ connections[c].revision <= connections'[c].revision
                  /\ connections'[c].status # "tombstoned"
               \/ connections[c].revision < connections'[c].revision,
           \A c \in ConnectionIds : /\ connections[c].revision \in Nat
                                    /\ connections'[c].revision \in Nat
    PROVE  \A c \in ConnectionIds, revision \in Int : \A enabled :
               AskedFor(c, revision, enabled) =>
                   /\ revision <= connections'[c].revision
                   /\ connections'[c].status = "tombstoned"
                      /\ revision = connections'[c].revision => ~enabled
<1> TAKE c \in ConnectionIds, revision \in Int
<1> TAKE enabled
<1>1. HAVE AskedFor(c, revision, enabled)
<1>2. connections[c].revision \in Nat /\ connections'[c].revision \in Nat
  OBVIOUS
<1>3. CASE connections'[c] = connections[c]
  BY <1>1, <1>3 DEF AskedFor
<1>4. CASE /\ connections[c].revision <= connections'[c].revision
           /\ connections'[c].status # "tombstoned"
  BY <1>1, <1>2, <1>4 DEF AskedFor
<1>5. CASE connections[c].revision < connections'[c].revision
  BY <1>1, <1>2, <1>5 DEF AskedFor
<1> QED BY <1>3, <1>4, <1>5

\* A connection change leaves passes, requests and the service behind or
\* level, never ahead.
LEMMA ConnectionChange ==
    ASSUME RegistrationInv, UNCHANGED <<worker, server, late>>,
           \A c \in ConnectionIds :
               \/ connections'[c] = connections[c]
               \/ /\ connections[c].revision <= connections'[c].revision
                  /\ connections'[c].status # "tombstoned"
               \/ connections[c].revision < connections'[c].revision,
           \A c \in ConnectionIds : connections'[c].revision \in Nat
    PROVE  PassesReached' /\ LateReached' /\ ServerReached' /\ Progressed'
<1> USE DEF RegistrationInv
<1>1. \A c \in ConnectionIds : connections[c].revision \in Nat
  BY RowTypes
<1>2. \A c \in ConnectionIds, revision \in Int : \A enabled :
          AskedFor(c, revision, enabled) =>
              /\ revision <= connections'[c].revision
              /\ connections'[c].status = "tombstoned"
                 /\ revision = connections'[c].revision => ~enabled
  BY <1>1, AskedForStays
<1>3. ServerReached'
  BY <1>2, RowTypes DEF ServerReached, AskedFor
<1>4. LateReached'
  <2>1. \A request \in late : /\ request.conn \in ConnectionIds
                              /\ request.what.revision \in Int
    BY DEF RegistrationTypeOK, Request, Registration
  <2> QED BY <1>2, <2>1 DEF LateReached, AskedFor
<1>5. PassesReached'
  <2>1. \A change \in Change : /\ change.conn \in ConnectionIds
                               /\ change.row.revision \in Int
    BY ChangeTypes
  <2>2. ASSUME NEW w \in Workers, worker[w] # Resting
        PROVE  worker[w].todo \subseteq Change
    BY <2>2, PassTypes, HandlingTypes DEF Looping
  <2>3. ASSUME NEW w \in Workers, worker[w] \in Handling
        PROVE  worker[w].change \in Change
    BY <2>3, HandlingTypes
  <2> QED BY <1>2, <2>1, <2>2, <2>3 DEF PassesReached, AskedFor
<1>6. Progressed'
  BY DEF Progressed
<1> QED BY <1>3, <1>4, <1>5, <1>6

\* insert_connection_state starts at revision zero, where nothing is held yet.
LEMMA InsertStep ==
    ASSUME RegistrationInv, NEW c0 \in ConnectionIds, NEW created \in Time,
           created <= now, InsertConnectionState(c0, created, 0, now),
           wanted' \in [ConnectionIds -> Settings],
           UNCHANGED <<now, worker, server, late, token>>
    PROVE  RegistrationInv'
<1> USE DEF RegistrationInv
<1>1. InsertConnectionState(c0, created, 0, now)
  OBVIOUS
<1>2. UNCHANGED <<now, worker, server, late, token>>
  OBVIOUS
<1>3. RegistryTypeOK'
  <2>1. now \in Time /\ 0 \in Nat /\ RegistryTypeOK
    BY DEF RegistrationTypeOK
  <2> QED BY <1>1, <2>1, InsertConnectionStateType
<1>4. RegistrationTypeOK'
  BY <1>2, <1>3 DEF RegistrationTypeOK
<1>5. /\ connections[c0].status = "absent"
      /\ connections'[c0].status = "active" /\ connections'[c0].revision = 0
      /\ outbox'[c0] # NoChange /\ outbox'[c0].revision = 0
  BY <1>1 DEF InsertConnectionState, Unclaimed, RegistrationTypeOK,
              RegistryTypeOK, ConnectionRow, NoChange
<1>6. \A c \in ConnectionIds \ {c0} :
          connections'[c] = connections[c] /\ outbox'[c] = outbox[c]
  BY <1>1 DEF InsertConnectionState, RegistrationTypeOK, RegistryTypeOK
<1>7. connections[c0].revision = 0
  BY <1>5 DEF RevisionsInv
<1>8. \A c \in ConnectionIds :
          \/ connections'[c] = connections[c]
          \/ /\ connections[c].revision <= connections'[c].revision
             /\ connections'[c].status # "tombstoned"
  BY <1>5, <1>6, <1>7
<1>9. \A c \in ConnectionIds : connections'[c].revision \in Nat
  BY <1>3 DEF RegistryTypeOK, ConnectionRow
<1>10. PassesReached' /\ LateReached' /\ ServerReached' /\ Progressed'
  BY <1>2, <1>8, <1>9, ConnectionChange
<1>11. RevisionsInv' /\ Delivered'
  BY <1>2, <1>5, <1>6 DEF RevisionsInv, Delivered, AskedFor
<1> QED BY <1>4, <1>10, <1>11

\* An approval asks for wakes at the current token.
LEMMA ApproveStep ==
    ASSUME RegistrationInv, Approve
    PROVE  RegistrationInv'
<1> USE DEF RegistrationInv
<1>1. PICK c0 \in ConnectionIds :
          /\ InsertConnectionState(c0, now, 0, now)
          /\ wanted' = [wanted EXCEPT ![c0] = [enabled |-> TRUE, token |-> token]]
  BY DEF Approve, InsertConnection
<1>2. now \in Time /\ now <= now
  BY RegistryAssumption DEF RegistrationTypeOK, Time
<1>3. wanted' \in [ConnectionIds -> Settings]
  BY <1>1 DEF RegistrationTypeOK, Settings
<1>4. UNCHANGED <<now, worker, server, late, token>>
  BY DEF Approve
<1> QED BY <1>1, <1>2, <1>3, <1>4, InsertStep

\* tombstone_connection moves past every revision that is held.
LEMMA TombstoneStep ==
    ASSUME RegistrationInv, NEW c0 \in ConnectionIds,
           TombstoneConnection(c0, connections[c0].revision, now),
           UNCHANGED <<now, worker, server, late, token, wanted>>
    PROVE  RegistrationInv'
<1> USE DEF RegistrationInv
<1>1. TombstoneConnection(c0, connections[c0].revision, now)
  OBVIOUS
<1>2. UNCHANGED <<now, worker, server, late, token, wanted>>
  OBVIOUS
<1>3. RegistryTypeOK'
  <2>1. /\ now \in Time /\ RegistryTypeOK
        /\ connections[c0].revision \in Nat
    BY RowTypes DEF RegistrationTypeOK
  <2> QED BY <1>1, <2>1, TombstoneConnectionType
<1>4. RegistrationTypeOK'
  BY <1>2, <1>3 DEF RegistrationTypeOK
<1>5. /\ connections[c0].revision \in Nat
      /\ connections'[c0].status = "tombstoned"
      /\ connections'[c0].revision = connections[c0].revision + 1
      /\ outbox'[c0].revision = connections[c0].revision + 1
      /\ outbox'[c0].enabled = FALSE
  BY <1>1, RowTypes DEF TombstoneConnection, RegistrationTypeOK,
                        RegistryTypeOK, ConnectionRow
<1>6. \A c \in ConnectionIds \ {c0} :
          connections'[c] = connections[c] /\ outbox'[c] = outbox[c]
  BY <1>1 DEF TombstoneConnection, RegistrationTypeOK, RegistryTypeOK
<1>7. \A c \in ConnectionIds :
          \/ connections'[c] = connections[c]
          \/ connections[c].revision < connections'[c].revision
  BY <1>5, <1>6
<1>8. \A c \in ConnectionIds : connections'[c].revision \in Nat
  BY <1>3 DEF RegistryTypeOK, ConnectionRow
<1>9. PassesReached' /\ LateReached' /\ ServerReached' /\ Progressed'
  BY <1>2, <1>7, <1>8, ConnectionChange
<1>10. outbox'[c0] # NoChange
  BY <1>5 DEF NoChange
<1>11. RevisionsInv' /\ Delivered'
  BY <1>2, <1>5, <1>6, <1>10 DEF RevisionsInv, Delivered, AskedFor
<1> QED BY <1>4, <1>9, <1>11

\* A revocation is one tombstone.
LEMMA RevokeStep ==
    ASSUME RegistrationInv, Revoke
    PROVE  RegistrationInv'
BY TombstoneStep DEF Revoke

\* requeue_active_wake_registrations rewrites the rows of active connections
\* only, at their unchanged revision.
LEMMA RequeueStep ==
    ASSUME RegistrationInv, NEW enabled \in BOOLEAN, RequeueActive(enabled, now),
           token' \in PushTokens, wanted' \in [ConnectionIds -> Settings],
           UNCHANGED <<now, worker, server, late>>
    PROVE  RegistrationInv'
<1> USE DEF RegistrationInv
<1>1. RequeueActive(enabled, now)
  OBVIOUS
<1>2. UNCHANGED <<connections, used, now, worker, server, late>>
  BY DEF RequeueActive
<1>3. ASSUME NEW c \in ConnectionIds
      PROVE  \/ connections[c].status # "active" /\ outbox'[c] = outbox[c]
             \/ /\ connections[c].status = "active"
                /\ outbox'[c] \in OutboxRow
                /\ outbox'[c].revision = connections[c].revision
  <2>1. now \in Nat
    BY RegistryAssumption DEF RegistrationTypeOK, Time
  <2>2. connections[c].revision \in Nat
    BY RowTypes
  <2> QED BY <1>1, <2>1, <2>2 DEF RequeueActive, OutboxRow
<1>4. outbox' \in [ConnectionIds -> OutboxRow \cup {NoChange}]
  <2>1. \A c \in ConnectionIds : outbox'[c] \in OutboxRow \cup {NoChange}
    BY <1>3 DEF RegistrationTypeOK, RegistryTypeOK
  <2>2. outbox' = [c \in ConnectionIds |-> outbox'[c]]
    BY <1>1 DEF RequeueActive
  <2> QED BY <2>1, <2>2
<1>6. RegistrationTypeOK'
  BY <1>2, <1>4 DEF RegistrationTypeOK, RegistryTypeOK
<1>7. /\ PassesReached' /\ LateReached' /\ ServerReached' /\ Progressed'
  BY <1>2 DEF PassesReached, LateReached, ServerReached, Progressed, AskedFor
<1>8. RevisionsInv'
  <2>1. \A c \in ConnectionIds : connections[c].revision \in Nat
    BY RowTypes
  <2> QED BY <1>2, <1>3, <2>1 DEF RevisionsInv, AskedFor
<1>9. Delivered'
  BY <1>2, <1>3 DEF Delivered
<1> QED BY <1>6, <1>7, <1>8, <1>9

\* A refresh asks for every active connection anew.
LEMMA RefreshStep ==
    ASSUME RegistrationInv, RefreshWakeRegistrations
    PROVE  RegistrationInv'
<1> USE DEF RegistrationInv
<1>1. PICK enabled \in BOOLEAN :
          /\ token' \in PushTokens /\ RequeueActive(enabled, now)
          /\ wanted' = [c \in ConnectionIds |->
                 IF connections[c].status # "active" THEN wanted[c]
                 ELSE [enabled |-> enabled, token |-> token']]
  BY DEF RefreshWakeRegistrations
<1>2. wanted' \in [ConnectionIds -> Settings]
  BY <1>1 DEF RegistrationTypeOK, Settings
<1>3. UNCHANGED <<now, worker, server, late>>
  BY DEF RefreshWakeRegistrations
<1> QED BY <1>1, <1>2, <1>3, RequeueStep

-----------------------------------------------------------------------------
\* Nothing is registered and nothing is queued at first.
LEMMA RegistrationInvInit == RegistrationInit => RegistrationInv
<1> SUFFICES ASSUME RegistrationInit PROVE RegistrationInv
  OBVIOUS
<1>1. /\ connections = [c \in ConnectionIds |-> AbsentConnection]
      /\ outbox = [c \in ConnectionIds |-> NoChange]
      /\ used = [c \in ConnectionIds |-> [t \in Time |-> 0]]
      /\ worker = [w \in Workers |-> Resting] /\ late = {} /\ now = 0
      /\ server = [c \in ConnectionIds |-> [r \in Relays |-> Unregistered]]
      /\ token \in PushTokens
      /\ wanted = [c \in ConnectionIds |-> [enabled |-> FALSE, token |-> token]]
  BY DEF RegistrationInit, RegistryInit
<1>2. 0 \in Time
  BY RegistryAssumption DEF Time
<1>3. AbsentConnection \in ConnectionRow
  BY <1>2 DEF AbsentConnection, ConnectionRow
<1>4. RegistrationTypeOK
  BY <1>1, <1>2, <1>3 DEF RegistrationTypeOK, RegistryTypeOK, Settings
<1>5. Resting \notin Handling
  BY DEF Resting, Handling
<1>6. PassesReached /\ LateReached /\ Progressed
  BY <1>1, <1>5 DEF PassesReached, LateReached, Progressed
<1>7. RevisionsInv /\ ServerReached /\ Delivered
  BY <1>1 DEF RevisionsInv, ServerReached, Delivered, AskedFor,
              AbsentConnection, Unregistered
<1> QED BY <1>4, <1>6, <1>7 DEF RegistrationInv

\* One case per action; the application, the passes and the network.
LEMMA RegistrationInvStep ==
    RegistrationInv /\ [RegistrationNext]_registrationVars => RegistrationInv'
<1> SUFFICES ASSUME RegistrationInv, [RegistrationNext]_registrationVars
             PROVE  RegistrationInv'
  OBVIOUS
<1>1. CASE RegistrationNext
  BY <1>1, PassStep, ArriveLateStep, TickStep, ApproveStep, RevokeStep,
     RefreshStep DEF RegistrationNext
<1>2. CASE UNCHANGED registrationVars
  BY <1>2 DEF registrationVars, registryVars, RegistrationInv,
     RegistrationTypeOK, RegistryTypeOK, RevisionsInv, PassesReached,
     LateReached, ServerReached, Progressed, Delivered, AskedFor
<1> QED BY <1>1, <1>2

\* The inductive invariant holds throughout.
LEMMA RegistrationInvariant == RegistrationSafety => []RegistrationInv
BY RegistrationInvInit, RegistrationInvStep, PTL DEF RegistrationSafety

(***************************************************************************)
(* The outbox, the passes and the service keep their types: no pass ever   *)
(* posts to a relay that is not approved.                                  *)
(***************************************************************************)
THEOREM RegistrationTypeCorrect == RegistrationSafety => []RegistrationTypeOK
<1>1. RegistrationInv => RegistrationTypeOK
  BY DEF RegistrationInv
<1> QED BY <1>1, RegistrationInvariant, PTL

(***************************************************************************)
(* A revocation whose disable has left the outbox is in force at every     *)
(* relay and stays in force, however many passes, failures, lost answers   *)
(* and late requests there are.                                            *)
(***************************************************************************)
THEOREM RevocationIsFinal == RegistrationSafety => []RevocationSticks
<1>1. RegistrationInv => RevocationSticks
  <2> SUFFICES ASSUME RegistrationInv, NEW c \in ConnectionIds,
                      connections[c].status = "tombstoned", outbox[c] = NoChange,
                      NEW r \in Relays
               PROVE  /\ server[c][r].revision = connections[c].revision
                      /\ ~server[c][r].enabled
    BY DEF RevocationSticks
  <2>1. connections[c].revision <= server[c][r].revision
    BY DEF RegistrationInv, Delivered
  <2>2. AskedFor(c, server[c][r].revision, server[c][r].enabled)
    BY DEF RegistrationInv, ServerReached
  <2>3. connections[c].revision \in Nat /\ server[c][r].revision \in Int
    BY RowTypes DEF RegistrationInv
  <2> QED BY <2>1, <2>2, <2>3 DEF AskedFor
<1> QED BY <1>1, RegistrationInvariant, PTL
=============================================================================
