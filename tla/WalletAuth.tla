----------------------------- MODULE WalletAuth -----------------------------
(***************************************************************************)
(* Nostr Wallet Auth: what a request asks for and what a selection of the  *)
(* user may grant.  Values only; ApplicationManager holds the state.       *)
(*                                                                         *)
(* An offer is a request URI with its text abstracted: `wellformed' stands *)
(* for every check of its syntax (size, scheme, keys, parameters given     *)
(* twice, modes, secret material, relay and callback addresses).           *)
(***************************************************************************)
EXTENDS Integers, FiniteSets

CONSTANTS
    MaximumLifetime,    \* NwaParsePolicy::maximum_lifetime
    MaximumBudget,      \* NwaParsePolicy::maximum_budget_sat
    MaximumRelays       \* maximum_relays and DEFAULT_MAXIMUM_CONNECTION_RELAYS

ASSUME WalletAuthAssumption ==
    /\ MaximumLifetime \in Nat /\ MaximumBudget \in Nat
    /\ MaximumRelays \in Nat \ {0}

Smaller(a, b) == IF a < b THEN a ELSE b
Larger(a, b) == IF a > b THEN a ELSE b

\* A twentieth of the limit, between 10 and 1000 sat, never above the limit.
MaximumMobileFeeSat(limit) ==
    IF limit = 0 THEN 0
    ELSE Smaller(Smaller(Larger(limit \div 20, 10), 1000), limit)

\* A limit that leaves something to pay with after the fee reserve.
Usable(limit) == limit > MaximumMobileFeeSat(limit)

-----------------------------------------------------------------------------
(* NwaRequest::parse.  Zero stands for an absent expiry.                   *)

ParsesRelays(offer) ==
    offer.relays # {} /\ Cardinality(offer.relays) <= MaximumRelays

ParsesExpiration(offer, now) ==
    offer.expires_at # 0 =>
        /\ offer.expires_at > now
        /\ offer.expires_at - now <= MaximumLifetime

ParsesBudget(offer) ==
    /\ offer.max_amount % 1000 = 0
    /\ offer.max_amount \div 1000 <= MaximumBudget

\* No method asked for means get_info.
ParseMethods(offer) == IF offer.methods = {} THEN {"get_info"} ELSE offer.methods

\* A callback needs its correlation state, and the state a callback.
ParsesCallback(offer) == offer.return_to <=> offer.state

Parses(offer, now) ==
    /\ offer.wellformed
    /\ ParsesRelays(offer) /\ ParsesExpiration(offer, now)
    /\ ParsesBudget(offer) /\ ParsesCallback(offer)
    /\ "pay_invoice" \in ParseMethods(offer) => Usable(offer.max_amount \div 1000)

Parse(offer) ==
    [client |-> offer.client, relays |-> offer.relays,
     methods |-> ParseMethods(offer), limit |-> offer.max_amount \div 1000,
     maximum_fee |-> MaximumMobileFeeSat(offer.max_amount \div 1000),
     interval |-> offer.interval, expires_at |-> offer.expires_at,
     callback |-> offer.return_to]

-----------------------------------------------------------------------------
(* ConnectionSelection::from_host_input and ConnectionDraft::new.          *)

SelectedRelays(selection) ==
    IF selection.relays = {} THEN selection.fallback_relays ELSE selection.relays

Drafts(selection) ==
    /\ SelectedRelays(selection) # {}
    /\ Cardinality(SelectedRelays(selection)) <= MaximumRelays
    /\ selection.methods # {}

Draft(client, selection) ==
    [client |-> client, relays |-> SelectedRelays(selection),
     methods |-> selection.methods, limit |-> selection.limit,
     maximum_fee |-> MaximumMobileFeeSat(selection.limit),
     interval |-> selection.interval, expires_at |-> selection.expires_at]

-----------------------------------------------------------------------------
\* validate_nwa_connection_subset.
Subset(request, draft) ==
    /\ draft.client = request.client
    /\ draft.expires_at = request.expires_at
    /\ draft.relays # {} /\ draft.relays \subseteq request.relays
    /\ draft.methods # {} /\ draft.methods \subseteq request.methods
    /\ draft.limit <= request.limit
    /\ draft.interval = request.interval
    /\ draft.maximum_fee = MaximumMobileFeeSat(draft.limit)
    /\ draft.maximum_fee <= request.maximum_fee
    /\ "pay_invoice" \in draft.methods => Usable(draft.limit)

\* What the holder of `draft' may do, the asker of `request' asked for.
WithinRequest(request, draft) ==
    /\ draft.relays \subseteq request.relays
    /\ draft.methods \subseteq request.methods
    /\ draft.limit <= request.limit
    /\ draft.expires_at = request.expires_at
=============================================================================
