--------------------------- MODULE BoundaryProofs ---------------------------
(***************************************************************************)
(* Facts about the boundary of the engine, for every input: what a start   *)
(* call certifies, how long a claim covers its call, why a pruned event is *)
(* never executed again, what a relay's frames can make the client         *)
(* believe, and that pages of transactions neither overlap nor leave gaps. *)
(***************************************************************************)
EXTENDS WakeAdmission, RelayClient, WalletAuth, FiniteSetTheorems,
        WellFoundedInduction, TLAPS

-----------------------------------------------------------------------------
(* The payment boundary.                                                   *)

\* What a host may answer to start_payment.
StartAnswers ==
    [ok: {TRUE}, value: [status: {"unknown", "pending", "succeeded", "failed"},
                         preimage: {"valid", "invalid"}]]
        \cup [ok: {FALSE}, kind: HostErrorKind]

Calls == [cancelled: BOOLEAN, failed: BOOLEAN, took: Nat, delay: Nat,
          answer: StartAnswers]

\* An owned call returns what native code answered, or one of three errors
\* that certify nothing.
LEMMA OwnedCallAnswers ==
    ASSUME NEW timeout \in Nat, NEW call \in Calls
    PROVE  RunOwnedWithContext(timeout, call)
               \in {call.answer, Err("Internal"), Err("TimedOut"), Err("Cancelled")}
BY DEF RunOwnedWithContext, RunWithContext

\* A payment is treated as failed, and refunded, only if the host's own
\* answer says so: it failed, it was not submitted (Rejected, NotFound), or
\* it settled with a preimage that does not decode.  A cancelled, late or
\* panicked call never counts as a failure (run_owned_with_context and the
\* start branch of continue_payment).
THEOREM RefundNeedsAnswer ==
    ASSUME NEW timeout \in Nat, NEW call \in Calls,
           StartOutcome(BridgeStartPayment(RunOwnedWithContext(timeout, call))) = "failed"
    PROVE  /\ ~call.failed /\ ~call.cancelled /\ call.delay + call.took <= timeout
           /\ \/ ~call.answer.ok /\ call.answer.kind \in {"Rejected", "NotFound"}
              \/ call.answer.ok /\ call.answer.value.status = "failed"
              \/ /\ call.answer.ok /\ call.answer.value.status = "succeeded"
                 /\ call.answer.value.preimage = "invalid"
<1>1. call.answer \in StartAnswers /\ call.took \in Nat /\ call.delay \in Nat
      /\ call.failed \in BOOLEAN /\ call.cancelled \in BOOLEAN
  BY DEF Calls
<1>2. StartOutcome(BridgeStartPayment(Err("Internal"))) = "pending"
      /\ StartOutcome(BridgeStartPayment(Err("TimedOut"))) = "pending"
      /\ StartOutcome(BridgeStartPayment(Err("Cancelled"))) = "pending"
  BY DEF StartOutcome, BridgeStartPayment, Decoded, Err, ConfirmsPaymentWasNotSubmitted
<1>3. ~call.failed /\ ~call.cancelled /\ call.delay + call.took <= timeout
      /\ RunOwnedWithContext(timeout, call) = call.answer
  BY <1>1, <1>2 DEF RunOwnedWithContext, RunWithContext
<1>4. CASE call.answer.ok
  BY <1>1, <1>3, <1>4 DEF StartOutcome, BridgeStartPayment, Decoded, Err,
     DecodesStatus, StartAnswers
<1>5. CASE ~call.answer.ok
  BY <1>1, <1>3, <1>5 DEF StartOutcome, BridgeStartPayment, Decoded, Err,
     ConfirmsPaymentWasNotSubmitted, StartAnswers
<1> QED BY <1>3, <1>4, <1>5

-----------------------------------------------------------------------------
(* Clocks.                                                                 *)

\* A claim outlives the call it is made for: lease_duration_for_budget is
\* longer than what is left of the deadline, whatever the part of a second.
THEOREM LeaseOutlivesBudget ==
    ASSUME NEW remaining \in Nat,
           NEW seconds \in LeaseDurationForBudget(remaining)
    PROVE  remaining > 0 /\ seconds \in Nat /\ 1000 * seconds > remaining
<1>1. remaining # 0 /\ seconds = AsSecs(remaining)
                       + (IF remaining % 1000 = 0 THEN 0 ELSE 1) + 1
  BY DEF LeaseDurationForBudget
<1> DEFINE q == remaining \div 1000
           r == remaining % 1000
<1>2. q \in Nat /\ r \in 0..999 /\ remaining = 1000 * q + r
  BY SMT
<1> HIDE DEF q, r
<1>3. seconds = q + (IF r = 0 THEN 0 ELSE 1) + 1
  BY <1>1 DEF AsSecs, q, r
<1> QED BY <1>1, <1>2, <1>3

\* An event that was accepted no later than its row was last written, whose
\* row is older than the replay retention, is no longer accepted: pruning
\* such rows (prune_terminal) never lets a request run twice.  This is what
\* WakePolicy::new demands of the retention.
THEOREM PrunedIsStale ==
    ASSUME NEW policy \in [maximum_event_age: Nat, maximum_future_skew: Nat,
                           replay_retention: Nat, maximum_payload_bytes: Nat,
                           maximum_relays: Nat],
           ValidWakePolicy(policy),
           NEW created_at \in Nat, NEW accepted_at \in Nat, NEW updated_at \in Nat,
           NEW now \in Nat,
           AcceptsEventTime(policy, created_at, accepted_at),
           accepted_at <= updated_at,
           updated_at + AsSecs(policy.replay_retention) < now
    PROVE  ~AcceptsEventTime(policy, created_at, now)
<1> DEFINE age == AsSecs(policy.maximum_event_age)
           skew == AsSecs(policy.maximum_future_skew)
           retention == AsSecs(policy.replay_retention)
<1>1. age \in Nat /\ skew \in Nat /\ retention \in Nat /\ age + skew <= retention
  BY SMT DEF ValidWakePolicy, AsSecs
<1>2. created_at <= accepted_at + skew
  BY <1>1 DEF AcceptsEventTime
<1>3. now > created_at + age
  BY <1>1, <1>2
<1> QED BY <1>1, <1>3 DEF AcceptsEventTime

-----------------------------------------------------------------------------
(* Relays.                                                                 *)

\* A nonempty set of positions has a first one.
LEMMA FirstExists ==
    ASSUME NEW S \in SUBSET Nat, S # {}
    PROVE  IsFirst(CHOOSE i \in S : IsFirst(i, S), S)
<1> DEFINE R == OpToRel(<, Nat)
<1>1. IsWellFoundedOn(R, Nat)
  BY NatLessThanWellFounded
<1>2. \A i, j \in Nat : i < j => <<i, j>> \in R
  BY DEF OpToRel
<1> HIDE DEF R
<1>3. PICK i \in S : \A j \in S : <<j, i>> \notin R
  BY <1>1, WFMin
<1>4. i \in S /\ IsFirst(i, S)
  <2>1. \A j \in S : ~(j < i) /\ i \in Nat /\ j \in Nat
    BY <1>2, <1>3
  <2> QED BY <2>1 DEF IsFirst
<1> QED BY <1>4

\* Frames a relay may send, for events with ids in Ids.
Frames(Ids) ==
    [kind: {"text", "close", "error", "other"}, array: BOOLEAN, mine: BOOLEAN,
     label: {"EVENT", "EOSE", "CLOSED", "OK", "NOTICE"}, oversized: BOOLEAN,
     event: [id: Ids, kind: Nat, length: Nat], id: Ids,
     accepted: {"true", "false", "absent"}]

\* A fetch returns an event only if the relay sent it on this subscription
\* with the requested id, as a wallet request, within the size limit:
\* nothing else a relay sends can become the event of a wake
\* (parse_fetch_message).
THEOREM FetchedIsRequested ==
    ASSUME NEW Ids, NEW frames \in Seq(Frames(Ids)), NEW connect, NEW id \in Ids,
           NEW maximum \in Nat, NEW event,
           FetchRelayEvent(connect, frames, id, maximum) = Ok({event})
    PROVE  /\ event.id = id /\ event.kind = NwcRequestKind /\ event.length <= maximum
           /\ \E i \in 1..Len(frames) : frames[i].mine /\ frames[i].event = event
<1> DEFINE S == FetchDeciding(frames, id, maximum)
           i == CHOOSE k \in S : IsFirst(k, S)
           f == frames[i]
<1>1. \A kind : Err(kind) # Ok({event})
  BY DEF Err, Ok
<1>2. Ok({}) # Ok({event})
  BY DEF Ok
<1>3. S # {} /\ FetchFrame(f, id, maximum).answer = Ok({event})
  BY <1>1, <1>2 DEF FetchRelayEvent, ConnectError
<1>4. S \in SUBSET Nat /\ S \subseteq 1..Len(frames)
  BY DEF FetchDeciding
<1>5. i \in S
  BY <1>3, <1>4, FirstExists DEF IsFirst
<1>6. i \in 1..Len(frames) /\ f \in Frames(Ids) /\ FetchFrame(f, id, maximum).decided
  BY <1>4, <1>5 DEF FetchDeciding
<1> HIDE DEF S, i
<1>7. f.kind = "text" /\ ParseFetchMessage(f, id, maximum).answer = Ok({event})
      /\ ParseFetchMessage(f, id, maximum).decided
  BY <1>1, <1>2, <1>3, <1>6 DEF FetchFrame, Frames, Decided, Ignored, IoError
<1>8. /\ f.array /\ f.label = "EVENT" /\ f.mine
      /\ f.event.id = id /\ f.event.kind = NwcRequestKind /\ ~(f.event.length > maximum)
  BY <1>1, <1>2, <1>6, <1>7 DEF ParseFetchMessage, Frames, Decided, Ignored
<1>9. f.event.length \in Nat
  BY <1>6 DEF Frames
<1>10. /\ f.array /\ f.label = "EVENT" /\ f.mine
      /\ f.event.id = id /\ f.event.kind = NwcRequestKind /\ f.event.length <= maximum
      /\ Ok({f.event}) = Ok({event})
  BY <1>7, <1>8, <1>9 DEF ParseFetchMessage, Decided
<1>11. f.event = event
  BY <1>10 DEF Ok
<1> QED BY <1>6, <1>10, <1>11

\* A publication counts as accepted only if the relay acknowledged this very
\* event with true, and had not refused it before: an acknowledgement of
\* another event, a closed connection or silence never do
\* (parse_publish_ack).
THEOREM PublishedWasAcknowledged ==
    ASSUME NEW Ids, NEW frames \in Seq(Frames(Ids)), NEW connect, NEW id \in Ids,
           PublishRelayEvent(connect, frames, id) = Ok("published")
    PROVE  \E i \in 1..Len(frames) :
               /\ frames[i].label = "OK" /\ frames[i].id = id
               /\ frames[i].accepted = "true"
               /\ \A j \in 1..(i - 1) : ~PublishFrame(frames[j], id).decided
<1> DEFINE S == PublishDeciding(frames, id)
           i == CHOOSE k \in S : IsFirst(k, S)
           f == frames[i]
<1>1. \A kind : Err(kind) # Ok("published")
  BY DEF Err, Ok
<1>2. S # {} /\ PublishFrame(f, id).answer = Ok("published")
  BY <1>1 DEF PublishRelayEvent, ConnectError
<1>3. S \in SUBSET Nat /\ S \subseteq 1..Len(frames)
  BY DEF PublishDeciding
<1>4. IsFirst(i, S)
  BY <1>2, <1>3, FirstExists
<1>5. i \in 1..Len(frames) /\ f \in Frames(Ids) /\ PublishFrame(f, id).decided
  BY <1>3, <1>4 DEF PublishDeciding, IsFirst
<1>6. \A j \in 1..(i - 1) : ~PublishFrame(frames[j], id).decided
  <2> SUFFICES ASSUME NEW j \in 1..(i - 1), PublishFrame(frames[j], id).decided
               PROVE  FALSE
    OBVIOUS
  <2>1. j \in S
    BY <1>5 DEF PublishDeciding
  <2> QED BY <2>1, <1>4, <1>5 DEF IsFirst
<1> HIDE DEF S, i
<1>7. f.kind = "text" /\ ParsePublishAck(f, id).answer = Ok("published")
      /\ ParsePublishAck(f, id).decided
  BY <1>1, <1>2, <1>5 DEF PublishFrame, Frames, Decided, Ignored, IoError
<1>8. f.label = "OK" /\ f.id = id /\ f.accepted = "true"
  BY <1>1, <1>5, <1>7 DEF ParsePublishAck, Frames, Decided, Ignored
<1> QED BY <1>5, <1>6, <1>8

-----------------------------------------------------------------------------
(* Pages of transactions.                                                  *)

Transactions == [created_at: Nat, direction: {"incoming", "outgoing"},
                 status: {"unknown", "pending", "succeeded", "failed"}]

\* The transactions a query matches are finitely many positions of the list.
LEMMA MatchingFinite ==
    ASSUME NEW n \in Nat, NEW ts, NEW r
    PROVE  Matching(ts, n, r) \subseteq 1..n /\ IsFiniteSet(Matching(ts, n, r))
<1>1. Matching(ts, n, r) \in SUBSET (1..n)
  BY DEF Matching
<1>2. IsFiniteSet(1..n)
  BY FS_Interval
<1> QED BY <1>1, <1>2, FS_Subset

\* Ranks follow the order of the listing.
LEMMA RankIncreases ==
    ASSUME NEW n \in Nat, NEW ts \in [1..n -> Transactions], NEW r,
           NEW i \in Matching(ts, n, r), NEW j \in Matching(ts, n, r),
           ListedBefore(ts, i, j)
    PROVE  Rank(ts, n, r, i) < Rank(ts, n, r, j)
<1> DEFINE M == Matching(ts, n, r)
           A == {k \in M : ListedBefore(ts, k, i)}
           B == {k \in M : ListedBefore(ts, k, j)}
<1>1. M \subseteq 1..n /\ IsFiniteSet(M)
  BY MatchingFinite
<1>2. IsFiniteSet(A) /\ IsFiniteSet(B)
  BY <1>1, FS_Subset
<1>3. \A k \in M : k \in Nat /\ ts[k].created_at \in Nat
  BY <1>1 DEF Transactions
<1>4. i \notin A
  BY <1>3 DEF ListedBefore
<1>5. A \cup {i} \subseteq B
  BY <1>3 DEF ListedBefore
<1>6. Cardinality(A \cup {i}) = Cardinality(A) + 1 /\ IsFiniteSet(A \cup {i})
  BY <1>2, <1>4, FS_AddElement
<1>7. Cardinality(A \cup {i}) <= Cardinality(B)
  BY <1>2, <1>5, FS_Subset
<1>8. Cardinality(A) \in Nat /\ Cardinality(B) \in Nat
  BY <1>2, FS_CardinalityType
<1> QED BY <1>6, <1>7, <1>8 DEF Rank

\* A page never holds more than the limit, and every transaction that
\* matches is on exactly one of the pages with offsets 0, limit, 2 * limit...:
\* a client that walks the pages of list_transactions sees each once
\* (prepare_transaction_page).
THEOREM PagesPartition ==
    ASSUME NEW n \in Nat, NEW ts \in [1..n -> Transactions],
           NEW r \in [from: SUBSET Nat, until: SUBSET Nat,
                      direction: SUBSET {"incoming", "outgoing"},
                      limit: Nat \ {0}, offset: Nat, include_unpaid: BOOLEAN]
    PROVE  /\ Cardinality(PrepareTransactionPage(ts, n, r)) <= r.limit
           /\ \A i \in Matching(ts, n, r) : \E k \in Nat :
                  \A m \in Nat :
                      i \in PrepareTransactionPage(ts, n, [r EXCEPT !.offset = m * r.limit])
                          <=> m = k
<1> DEFINE M == Matching(ts, n, r)
           page == PrepareTransactionPage(ts, n, r)
           R == [i \in M |-> Rank(ts, n, r, i)]
<1>1. M \subseteq 1..n /\ IsFiniteSet(M)
  BY MatchingFinite
<1>2. \A i \in M : R[i] \in Nat
  <2> TAKE i \in M
  <2>1. IsFiniteSet({j \in M : ListedBefore(ts, j, i)})
    BY <1>1, FS_Subset
  <2>2. Rank(ts, n, r, i) \in Nat
    BY <2>1, FS_CardinalityType DEF Rank
  <2> QED BY <2>2
<1>3. \A i, j \in M : i # j => R[i] # R[j]
  <2> SUFFICES ASSUME NEW i \in M, NEW j \in M, i # j PROVE R[i] # R[j]
    OBVIOUS
  <2>1. ts[i].created_at \in Nat /\ ts[j].created_at \in Nat /\ i \in Nat /\ j \in Nat
    BY <1>1 DEF Transactions
  <2>2. ListedBefore(ts, i, j) \/ ListedBefore(ts, j, i)
    BY <2>1 DEF ListedBefore
  <2> QED BY <1>2, <2>2, RankIncreases
<1>4. Cardinality(page) <= r.limit
  <2> DEFINE I == r.offset..(r.offset + r.limit - 1)
             F == [i \in page |-> R[i]]
  <2>1. r.offset \in Nat /\ r.limit \in Nat /\ r.limit > 0
    OBVIOUS
  <2>2. page \subseteq M /\ \A i \in page : r.offset <= R[i] /\ R[i] < r.offset + r.limit
    BY DEF PrepareTransactionPage
  <2>3. IsFiniteSet(I) /\ Cardinality(I) = r.limit
    <3>1. r.offset \in Int /\ r.offset + r.limit - 1 \in Int
          /\ ~(r.offset > r.offset + r.limit - 1)
      BY <2>1
    <3>2. IsFiniteSet(I) /\ Cardinality(I) = (r.offset + r.limit - 1) - r.offset + 1
      BY <3>1, FS_Interval
    <3> QED BY <2>1, <3>2
  <2> HIDE DEF page, R, M
  <2>4. F \in Injection(page, I)
    BY <1>2, <1>3, <2>1, <2>2 DEF Injection, IsInjective
  <2>5. F \in Injection(page, I) => Cardinality(page) <= Cardinality(I)
    BY <2>3, FS_Injection
  <2> QED BY <2>3, <2>4, <2>5
<1>5. ASSUME NEW i \in M
      PROVE  \E k \in Nat : \A m \in Nat :
                i \in PrepareTransactionPage(ts, n, [r EXCEPT !.offset = m * r.limit])
                    <=> m = k
  <2> DEFINE limit == r.limit
             rank == Rank(ts, n, r, i)
  <2>1. limit \in Nat /\ limit > 0 /\ rank \in Nat
    BY <1>2
  <2>2. ASSUME NEW m \in Nat
        PROVE  i \in PrepareTransactionPage(ts, n, [r EXCEPT !.offset = m * r.limit])
                   <=> m * limit <= rank /\ rank < m * limit + limit
    <3> DEFINE s == [r EXCEPT !.offset = m * r.limit]
    <3>1. /\ s.from = r.from /\ s.until = r.until /\ s.direction = r.direction
          /\ s.include_unpaid = r.include_unpaid /\ s.limit = limit
          /\ s.offset = m * limit
      OBVIOUS
    <3> HIDE DEF s
    <3>2. Matching(ts, n, s) = M
      BY <3>1 DEF Matching, TransactionMatches
    <3>3. Rank(ts, n, s, i) = rank
      BY <3>2 DEF Rank
    <3>4. i \in PrepareTransactionPage(ts, n, s)
              <=> m * limit <= rank /\ rank < m * limit + limit
      BY <3>1, <3>2, <3>3 DEF PrepareTransactionPage
    <3> QED BY <3>4 DEF s
  <2> HIDE DEF limit, rank
  <2>3. PICK k \in Nat : k * limit <= rank /\ rank < k * limit + limit
    <3>1. rank \div limit \in Nat /\ rank % limit \in 0..(limit - 1)
          /\ rank = limit * (rank \div limit) + (rank % limit)
      BY <2>1, SMT
    <3>2. (rank \div limit) * limit <= rank
          /\ rank < (rank \div limit) * limit + limit
      BY <2>1, <3>1
    <3> QED BY <3>1, <3>2
  <2>4. \A m \in Nat : m * limit <= rank /\ rank < m * limit + limit <=> m = k
    BY <2>1, <2>3
  <2> QED BY <2>2, <2>4
<1> QED BY <1>4, <1>5

\* The page of a list_transactions request that parsed crosses the bridge:
\* whatever limit the client asked for, the page prepare_transaction_page cuts
\* is within the limit the bridge compares it with and within its own cap, so
\* only a transaction that does not decode is refused
\* (parse_list_transactions_request, MobileHostBridge::list_transactions).
THEOREM ParsedPageCrosses ==
    ASSUME NEW n \in Nat, NEW ts \in [1..n -> Transactions],
           NEW asked \in [from: SUBSET Nat, until: SUBSET Nat,
                          direction: SUBSET {"incoming", "outgoing"},
                          limit: SUBSET Nat, offset: SUBSET Nat,
                          unpaid: SUBSET BOOLEAN],
           ParseList(asked).ok,
           NEW r, r = ParseList(asked).value,
           NEW length, length = Cardinality(PrepareTransactionPage(ts, n, r)),
           NEW answer, answer.ok,
           \A i \in 1..length : DecodesTransaction(answer.value[i])
    PROVE  BridgeListTransactions(r.limit, length, answer) = answer
<1> DEFINE limit == OrElse(asked.limit, DefaultListLimit)
           cut == IF limit < MaxListLimit THEN limit ELSE MaxListLimit
           offset == OrElse(asked.offset, 0)
           unpaid == OrElse(asked.unpaid, FALSE)
<1>1. limit \in Nat /\ offset \in Nat /\ unpaid \in BOOLEAN
  BY DEF OrElse, DefaultListLimit
<1>2. r = [from |-> asked.from, until |-> asked.until,
           direction |-> asked.direction, limit |-> cut,
           offset |-> offset, include_unpaid |-> unpaid]
  BY DEF ParseList, Ok, Err
<1>3. cut \in Nat /\ cut <= MaxTransactionResults
  BY <1>1 DEF MaxListLimit, MaxTransactionResults
<1>4. /\ asked.from \in SUBSET Nat /\ asked.until \in SUBSET Nat
      /\ asked.direction \in SUBSET {"incoming", "outgoing"}
  OBVIOUS
<1> HIDE DEF limit, cut, offset, unpaid
<1>5. r \in [from: SUBSET Nat, until: SUBSET Nat,
             direction: SUBSET {"incoming", "outgoing"},
             limit: Nat, offset: Nat, include_unpaid: BOOLEAN]
  <2>1. \A f, u \in SUBSET Nat, d \in SUBSET {"incoming", "outgoing"},
           l, o \in Nat, p \in BOOLEAN :
            [from |-> f, until |-> u, direction |-> d, limit |-> l,
             offset |-> o, include_unpaid |-> p]
              \in [from: SUBSET Nat, until: SUBSET Nat,
                   direction: SUBSET {"incoming", "outgoing"},
                   limit: Nat, offset: Nat, include_unpaid: BOOLEAN]
    OBVIOUS
  <2>2. [from |-> asked.from, until |-> asked.until,
         direction |-> asked.direction, limit |-> cut,
         offset |-> offset, include_unpaid |-> unpaid]
          \in [from: SUBSET Nat, until: SUBSET Nat,
               direction: SUBSET {"incoming", "outgoing"},
               limit: Nat, offset: Nat, include_unpaid: BOOLEAN]
    BY <1>1, <1>3, <1>4, <2>1
  <2> QED BY <1>2, <2>2
<1>6. r.limit <= MaxTransactionResults
  BY <1>2, <1>3
<1>7. length <= r.limit /\ length \in Nat
  <2>1. CASE r.limit = 0
    <3>1. Matching(ts, n, r) \subseteq 1..n
      BY DEF Matching
    <3>2. \A i \in Matching(ts, n, r) : Rank(ts, n, r, i) \in Nat
      <4> SUFFICES ASSUME NEW i \in Matching(ts, n, r)
                   PROVE  Rank(ts, n, r, i) \in Nat
        OBVIOUS
      <4>1. {j \in Matching(ts, n, r) : ListedBefore(ts, j, i)} \subseteq 1..n
        BY <3>1
      <4>2. IsFiniteSet(1..n)
        BY FS_Interval
      <4> QED BY <4>1, <4>2, FS_Subset, FS_CardinalityType DEF Rank
    <3>3. PrepareTransactionPage(ts, n, r) = {}
      BY <1>5, <2>1, <3>2 DEF PrepareTransactionPage
    <3> QED BY <2>1, <3>3, FS_EmptySet
  <2>2. CASE r.limit # 0
    <3>1. r \in [from: SUBSET Nat, until: SUBSET Nat,
                 direction: SUBSET {"incoming", "outgoing"},
                 limit: Nat \ {0}, offset: Nat, include_unpaid: BOOLEAN]
      BY <1>5, <2>2
    <3>2. Cardinality(PrepareTransactionPage(ts, n, r)) <= r.limit
      BY <3>1, PagesPartition
    <3>3. PrepareTransactionPage(ts, n, r) \subseteq 1..n
      BY DEF PrepareTransactionPage, Matching
    <3>4. IsFiniteSet(PrepareTransactionPage(ts, n, r))
      BY <3>3, FS_Interval, FS_Subset
    <3> QED BY <3>2, <3>4, FS_CardinalityType
  <2> QED BY <2>1, <2>2
<1>8. length <= MaxTransactionResults
  BY <1>5, <1>6, <1>7 DEF MaxTransactionResults
<1> QED BY <1>7, <1>8 DEF BridgeListTransactions, Decoded

-----------------------------------------------------------------------------
(* Limits of a connection.                                                 *)

\* A connection that may pay is one whose limit is above the smallest fee
\* reserve, and a smaller limit never reserves more: lowering the limit in
\* the approval of an NWA request cannot raise the fee
\* (maximum_mobile_fee_sat, validate_nwa_connection_subset).
THEOREM FeeReserve ==
    ASSUME NEW limit \in Nat, NEW lower \in Nat, lower <= limit
    PROVE  /\ Usable(limit) <=> limit > 10
           /\ MaximumMobileFeeSat(lower) <= MaximumMobileFeeSat(limit)
           /\ MaximumMobileFeeSat(limit) <= limit
<1>1. /\ limit \div 20 \in Nat /\ 20 * (limit \div 20) <= limit
      /\ lower \div 20 \in Nat /\ lower \div 20 <= limit \div 20
  BY SMT
<1> QED BY <1>1 DEF MaximumMobileFeeSat, Usable, Smaller, Larger
=============================================================================
