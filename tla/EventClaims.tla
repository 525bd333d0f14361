----------------------------- MODULE EventClaims -----------------------------
(***************************************************************************)
(* wake_events: the durable claim every process must hold while it works   *)
(* on a request event, and the terminal state that stops its replay.  The  *)
(* extension, the application and background workers open the same file;   *)
(* each method is one short transaction, hence one step.                   *)
(*                                                                         *)
(* `now' is the greatest wall-clock value seen so far.  A call brings the  *)
(* clock value t <= now its caller read: the caller may have been          *)
(* descheduled since, or the clock may have been set back.                 *)
(***************************************************************************)
EXTENDS ConnectionRegistry

CONSTANTS
    Processes,      \* concurrent ledger users
    Tokens,         \* values of a random claim token
    Leases,         \* lease durations a caller may ask for, in seconds
    RetryDelay,     \* seconds given to retry_later
    Responses,      \* response_event_json values, NULL ("none") left out
    Nobody          \* stands for no process and for a NULL token

ASSUME ClaimsAssumption ==
    /\ Leases \subseteq Nat \ {0}
    /\ RetryDelay \in Nat \ {0}
    /\ Nobody \notin Processes /\ Nobody \notin Tokens

VARIABLES
    now,            \* high-water mark of the wall clock
    events,         \* [EventIds -> wake_events row or NoEvent]
    lease           \* [Processes -> EventLease or NoLease], process memory

claimVars == <<now, events, lease>>

NoEvent == [state |-> "none"]

\* token and available_at are NULL (Nobody, 0) exactly as the schema checks.
EventRow ==
    [state: {"claimed", "retryable", "terminal"}, conn: ConnectionIds,
     revision: Nat, token: Tokens \cup {Nobody}, available_at: Nat,
     fresh: BOOLEAN, kind: {"none", "completed", "rejected", "failed"},
     response: Responses \cup {"none"}, updated_at: Nat]

NoLease == [token |-> Nobody]

\* `until' is the expiry the holder knows, `fresh' freshness_was_accepted.
LeaseRecord ==
    [event: EventIds, token: Tokens, until: Nat, fresh: BOOLEAN]

Holds(p) == lease[p] # NoLease

\* Random tokens do not repeat while a row or a process still has them.
FreshTokens ==
    Tokens \ ({events[e].token : e \in {f \in EventIds : events[f] # NoEvent}}
              \cup {lease[p].token : p \in Processes})

-----------------------------------------------------------------------------
(* The ways claim_event ends.  Only "acquired" changes the ledger.         *)

\* Mutant: a live claim may be taken over.
ClaimOutcomeSteals(e, c, r, t) ==
    CASE events[e] = NoEvent -> "acquired"
      [] events[e].conn # c \/ events[e].revision # r -> "mismatch"
      [] events[e].state = "terminal" -> "terminal"
      [] OTHER -> "acquired"

ClaimOutcome(e, c, r, t) ==
    CASE events[e] = NoEvent -> "acquired"
      [] events[e].conn # c \/ events[e].revision # r -> "mismatch"
      [] events[e].state = "terminal" -> "terminal"
      [] events[e].available_at > t -> "in_progress"
      [] OTHER -> "acquired"

\* Mutant: the holder of a repeated claim is not told what was accepted.
ClaimTellsNothing(p, e, c, r, t, d) ==
    /\ ClaimOutcome(e, c, r, t) = "acquired"
    /\ \E token \in FreshTokens :
        /\ events' = [events EXCEPT ![e] =
               [state |-> "claimed", conn |-> c, revision |-> r, token |-> token,
                available_at |-> t + d, kind |-> "none", response |-> "none",
                fresh |-> events[e] # NoEvent /\ events[e].fresh, updated_at |-> t]]
        /\ lease' = [lease EXCEPT ![p] =
               [event |-> e, token |-> token, until |-> t + d, fresh |-> FALSE]]

ClaimEvent(p, e, c, r, t, d) ==
    /\ ClaimOutcome(e, c, r, t) = "acquired"
    /\ \E token \in FreshTokens :
        LET accepted == events[e] # NoEvent /\ events[e].fresh
        IN  /\ events' = [events EXCEPT ![e] =
                   [state |-> "claimed", conn |-> c, revision |-> r,
                    token |-> token, available_at |-> t + d,
                    fresh |-> accepted, kind |-> "none",
                    response |-> "none", updated_at |-> t]]
            /\ lease' = [lease EXCEPT ![p] =
                   [event |-> e, token |-> token, until |-> t + d,
                    fresh |-> accepted]]

\* Mutant: the token of the claim is not compared.
OwnsAnyClaim(p, t) ==
    /\ Holds(p)
    /\ events[lease[p].event].state = "claimed"
    /\ events[lease[p].event].available_at > t

\* The WHERE clause every write of a lease holder carries.
OwnsLease(p, t) ==
    /\ Holds(p)
    /\ events[lease[p].event].state = "claimed"
    /\ events[lease[p].event].token = lease[p].token
    /\ events[lease[p].event].available_at > t

AcceptEventFreshness(p, t) ==
    /\ OwnsLease(p, t)
    /\ events' = [events EXCEPT ![lease[p].event] =
           [@ EXCEPT !.fresh = TRUE, !.updated_at = t]]
    /\ UNCHANGED lease

RenewLease(p, t, d) ==
    /\ OwnsLease(p, t)
    /\ events' = [events EXCEPT ![lease[p].event] =
           [@ EXCEPT !.available_at = t + d, !.updated_at = t]]
    /\ lease' = [lease EXCEPT ![p].until = t + d]

\* Mutant: the delay is taken off the clock instead of added to it.
RetryLaterEarly(p, t) ==
    /\ OwnsLease(p, t)
    /\ events' = [events EXCEPT ![lease[p].event] =
           [@ EXCEPT !.state = "retryable", !.token = Nobody,
                     !.available_at = t - RetryDelay, !.updated_at = t]]
    /\ lease' = [lease EXCEPT ![p] = NoLease]

RetryLater(p, t) ==
    /\ OwnsLease(p, t)
    /\ events' = [events EXCEPT ![lease[p].event] =
           [@ EXCEPT !.state = "retryable", !.token = Nobody,
                     !.available_at = t + RetryDelay, !.updated_at = t]]
    /\ lease' = [lease EXCEPT ![p] = NoLease]

CompleteEvent(p, kind, response, t) ==
    /\ OwnsLease(p, t)
    /\ events' = [events EXCEPT ![lease[p].event] =
           [@ EXCEPT !.state = "terminal", !.token = Nobody,
                     !.available_at = 0, !.kind = kind,
                     !.response = response, !.updated_at = t]]
    /\ lease' = [lease EXCEPT ![p] = NoLease]

\* The connection predicate is part of the same statement.
CompleteEventForActiveConnection(p, c, r, response, t) ==
    /\ OwnsLease(p, t)
    /\ events[lease[p].event].conn = c /\ events[lease[p].event].revision = r
    /\ RevisionActive(c, r)
    /\ CompleteEvent(p, "completed", response, t)

\* One row of a retention batch.
PruneTerminal(e, cutoff) ==
    /\ events[e].state = "terminal" /\ events[e].updated_at < cutoff
    /\ events' = [events EXCEPT ![e] = NoEvent]
    /\ UNCHANGED lease

\* The lease value goes out of scope: LostLease, a crash, or the end of execute.
DropLease(p) ==
    Holds(p) /\ lease' = [lease EXCEPT ![p] = NoLease] /\ UNCHANGED events

-----------------------------------------------------------------------------
ClaimsInit ==
    /\ RegistryInit
    /\ now = 0
    /\ events = [e \in EventIds |-> NoEvent]
    /\ lease = [p \in Processes |-> NoLease]

Tick == now < MaxTime /\ now' = now + 1 /\ UNCHANGED <<events, lease>>

Claim(p) ==
    /\ ~Holds(p)
    /\ \E e \in EventIds, c \in ConnectionIds, t \in 0..now, d \in Leases :
        /\ RevisionActive(c, connections[c].revision)
        /\ ClaimEvent(p, e, c, connections[c].revision, t, d)

Accept(p) == \E t \in 0..now : AcceptEventFreshness(p, t)

Renew(p) == \E t \in 0..now, d \in Leases : RenewLease(p, t, d)

Retry(p) == \E t \in 0..now : RetryLater(p, t)

Finish(p) ==
    \E t \in 0..now :
        \/ \E kind \in {"rejected", "failed"} :
               CompleteEvent(p, kind, "none", t)
        \/ \E c \in ConnectionIds, r \in 0..1, response \in Responses :
               CompleteEventForActiveConnection(p, c, r, response, t)

Prune == \E e \in EventIds, cutoff \in 0..now : PruneTerminal(e, cutoff)

ProcessStep(p) ==
    Claim(p) \/ Accept(p) \/ Renew(p) \/ Retry(p) \/ Finish(p) \/ DropLease(p)

ClaimsNext ==
    \/ Tick /\ UNCHANGED registryVars
    \/ \E p \in Processes : ProcessStep(p) /\ UNCHANGED <<registryVars, now>>
    \/ Prune /\ UNCHANGED <<registryVars, now>>
    \/ /\ \E c \in ConnectionIds :
              \/ InsertConnection(c, now)
              \/ TombstoneConnection(c, connections[c].revision, now)
       /\ UNCHANGED claimVars

ClaimsSpec == ClaimsInit /\ [][ClaimsNext]_<<registryVars, claimVars>>

-----------------------------------------------------------------------------
(***************************************************************************)
(* Type correctness of the event table and of the leases in memory.        *)
(***************************************************************************)
ClaimsTypeOK ==
    /\ RegistryTypeOK
    /\ now \in Time
    /\ events \in [EventIds -> EventRow \cup {NoEvent}]
    /\ lease \in [Processes -> LeaseRecord \cup {NoLease}]

(***************************************************************************)
(* Two processes never both hold an unexpired lease on one event, however  *)
(* claims, renewals, releases, crashes and clock reads interleave: a lease *)
(* not past its expiry on the high-water clock is the one the row names.   *)
(***************************************************************************)
Live(p) == Holds(p) /\ lease[p].until > now

ExclusiveLease ==
    \A p, q \in Processes :
        Live(p) /\ Live(q) /\ lease[p].event = lease[q].event => p = q

(***************************************************************************)
(* The table implements EventLifecycle: an outcome is decided only while   *)
(* some process owns the claim, and a terminal row is never claimed,       *)
(* retried or decided again until it is pruned.                            *)
(***************************************************************************)
Owner(e) ==
    LET owners == {p \in Processes : /\ Holds(p) /\ lease[p].event = e
                                     /\ events[e] # NoEvent
                                     /\ events[e].state = "claimed"
                                     /\ events[e].token = lease[p].token}
    IN  IF owners = {} THEN Nobody ELSE CHOOSE p \in owners : TRUE

Claims == INSTANCE EventLifecycle WITH
    Events <- EventIds, Owners <- Processes,
    owner <- [e \in EventIds |-> Owner(e)],
    outcome <- [e \in EventIds |->
        IF events[e].state = "terminal" THEN events[e].kind ELSE "open"],
    accepted <- [e \in EventIds |-> events[e] # NoEvent /\ events[e].fresh]

ImplementsEventLifecycle == Claims!Spec
=============================================================================
