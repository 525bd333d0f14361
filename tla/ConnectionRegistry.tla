------------------------- MODULE ConnectionRegistry -------------------------
(***************************************************************************)
(* The connection tables of the durable ledger: `connections' with its     *)
(* revision and tombstone, the wake-registration outbox row that every     *)
(* connection change writes in the same transaction, and the budget        *)
(* periods an imported connection may start with.                          *)
(*                                                                         *)
(* Each operation is one IMMEDIATE SQLite transaction, so it is one step.  *)
(* The policy of a connection (keys, limit, fee policy, interval, expiry,  *)
(* methods) is written once by insert_connection_state and no statement    *)
(* ever updates it: it is a function of the connection id, hence CONSTANT. *)
(* Relay and method rows live exactly as long as the active row does.      *)
(***************************************************************************)
EXTENDS Integers, FiniteSets

CONSTANTS
    ConnectionIds,  \* identifiers the application may use
    EventIds,       \* Nostr request events, the keys of the other tables
    KeyPair,        \* [ConnectionIds -> keys]: client and wallet-service keys
    Limit,          \* [ConnectionIds -> Nat]: budget_limit_sat
    MaximumFee,     \* [ConnectionIds -> Nat]: maximum_fee_sat, 0 if excluded
    CountFees,      \* [ConnectionIds -> BOOLEAN]: fee_policy = 'count'
    Interval,       \* [ConnectionIds -> Nat]: seconds, 0 for 'never'
    ExpiresAt,      \* [ConnectionIds -> Nat]: expires_at, 0 for NULL
    MayPay,         \* [ConnectionIds -> BOOLEAN]: policy allows pay_invoice
    MaxTime         \* bound on the wall clock

Time == 0..MaxTime

ASSUME RegistryAssumption ==
    /\ MaxTime \in Nat
    /\ Limit \in [ConnectionIds -> Nat]
    /\ MaximumFee \in [ConnectionIds -> Nat]
    /\ CountFees \in [ConnectionIds -> BOOLEAN]
    /\ \A c \in ConnectionIds : ~CountFees[c] => MaximumFee[c] = 0
    /\ Interval \in [ConnectionIds -> Nat]
    /\ ExpiresAt \in [ConnectionIds -> Nat]
    /\ MayPay \in [ConnectionIds -> BOOLEAN]

VARIABLES
    connections,    \* [ConnectionIds -> row]
    outbox,         \* [ConnectionIds -> wake_registration_outbox row or NoChange]
    used            \* [ConnectionIds -> [Time -> Nat]]: budget_periods.used_sat

registryVars == <<connections, outbox, used>>

ConnectionRow ==
    [status: {"absent", "active", "tombstoned"}, revision: Nat,
     created_at: Time, updated_at: Time, imported: Nat, imported_in: Time]

\* No row.  The imported fields are ghosts: the budget use that came with an
\* import_connection call and the period it was charged to.
AbsentConnection ==
    [status |-> "absent", revision |-> 0, created_at |-> 0,
     updated_at |-> 0, imported |-> 0, imported_in |-> 0]

OutboxRow ==
    [revision: Nat, enabled: BOOLEAN, attempt_count: Nat,
     available_at: Int, updated_at: Nat]

NoChange == [revision |-> -1]

(***************************************************************************)
(* Start of the budget period that contains `t' for a connection anchored  *)
(* at `created'.  The same arithmetic serves reservation and import.       *)
(***************************************************************************)
PeriodStart(c, created, t) ==
    IF Interval[c] = 0
    THEN created
    ELSE created + ((t - created) \div Interval[c]) * Interval[c]

\* The exact revision is still the active one.
RevisionActive(c, r) ==
    connections[c].status = "active" /\ connections[c].revision = r

Expired(c, t) == ExpiresAt[c] # 0 /\ ExpiresAt[c] <= t

\* Neither the identifier nor its key pair was ever used, tombstones included.
Unclaimed(c) ==
    \A d \in ConnectionIds :
        connections[d].status # "absent" => d # c /\ KeyPair[d] # KeyPair[c]

(***************************************************************************)
(* insert_connection_state: the row at revision zero, the imported budget  *)
(* use charged to the current period, and the enable change in the outbox. *)
(***************************************************************************)
InsertConnectionState(c, created, amount, t) ==
    LET period == PeriodStart(c, created, t)
    IN  /\ ExpiresAt[c] = 0 \/ ExpiresAt[c] > created
        /\ Unclaimed(c)
        /\ connections' = [connections EXCEPT ![c] =
               [status |-> "active", revision |-> 0, created_at |-> created,
                updated_at |-> t, imported |-> amount, imported_in |-> period]]
        /\ used' = [used EXCEPT ![c][period] = amount]
        /\ outbox' = [outbox EXCEPT ![c] =
               [revision |-> 0, enabled |-> TRUE, attempt_count |-> 0,
                available_at |-> t, updated_at |-> t]]

InsertConnection(c, t) == InsertConnectionState(c, t, 0, t)

\* One-time migration of a wallet-owned authorization with its budget use.
ImportConnection(c, created, amount, t) ==
    /\ created <= t
    /\ amount <= Limit[c]
    /\ amount > 0 => MayPay[c]
    /\ InsertConnectionState(c, created, amount, t)

(***************************************************************************)
(* tombstone_connection: permanent, at the expected revision only, and the *)
(* disable change replaces whatever the outbox held.                       *)
(***************************************************************************)
TombstoneConnection(c, r, t) ==
    /\ RevisionActive(c, r)
    /\ t >= connections[c].created_at
    /\ connections' = [connections EXCEPT
           ![c].status = "tombstoned", ![c].revision = r + 1,
           ![c].updated_at = t]
    /\ outbox' = [outbox EXCEPT ![c] =
           [revision |-> r + 1, enabled |-> FALSE, attempt_count |-> 0,
            available_at |-> t, updated_at |-> t]]
    /\ UNCHANGED used

RegistryInit ==
    /\ connections = [c \in ConnectionIds |-> AbsentConnection]
    /\ outbox = [c \in ConnectionIds |-> NoChange]
    /\ used = [c \in ConnectionIds |-> [t \in Time |-> 0]]

RegistryTypeOK ==
    /\ connections \in [ConnectionIds -> ConnectionRow]
    /\ outbox \in [ConnectionIds -> OutboxRow \cup {NoChange}]
    /\ used \in [ConnectionIds -> [Time -> Nat]]
=============================================================================
