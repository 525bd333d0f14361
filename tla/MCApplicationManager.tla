------------------------ MODULE MCApplicationManager ------------------------
(***************************************************************************)
(* Small instances of ApplicationManager, one per activity.                *)
(***************************************************************************)
EXTENDS ApplicationManager, TLC

MCKeyPair == [c \in ConnectionIds |-> c]
MCZero == [c \in ConnectionIds |-> 0]
MCFalse == [c \in ConnectionIds |-> FALSE]

\* The first connection's request expires.
MCExpiresAt == [c \in ConnectionIds |-> IF c = "c1" THEN 2 ELSE 0]

Nothing ==
    [registers |-> FALSE, reopens |-> FALSE, settings |-> 0, faults |-> 0,
     offers |-> {}, selections |-> {}, fresh |-> {}, legacy |-> {}, upgrades |-> 0]

\* A spending request and a smaller one of the same client, and one of
\* another client.
Spend ==
    [id |-> "spend", client |-> "c1", relays |-> {"r1", "r2"},
     methods |-> {"pay_invoice", "get_info"}, max_amount |-> 40000, interval |-> "never",
     expires_at |-> 2, return_to |-> TRUE, state |-> TRUE, wellformed |-> TRUE]

Less == [Spend EXCEPT !.id = "less", !.relays = {"r1"}, !.max_amount = 20000]

Read ==
    [id |-> "read", client |-> "c2", relays |-> {"r1"}, methods |-> {},
     max_amount |-> 0, interval |-> "never", expires_at |-> 0,
     return_to |-> TRUE, state |-> TRUE, wellformed |-> TRUE]

\* Refused: an amount that is not whole, a budget the fee uses up.
Refused ==
    {[Spend EXCEPT !.id = "odd", !.max_amount = 40500],
     [Spend EXCEPT !.id = "fee", !.max_amount = 10000],
     [Read EXCEPT !.id = "state", !.state = FALSE]}

Selected(relays, methods, limit, expires_at) ==
    [relays |-> relays, fallback_relays |-> {"r1"}, methods |-> methods,
     limit |-> limit, interval |-> "never", expires_at |-> expires_at]

Both == {"get_info", "pay_invoice"}

\* What was asked for, less, an unusable budget, and more than was asked for.
Selections ==
    {Selected({"r1", "r2"}, Both, 40, 2), Selected({}, Both, 20, 2),
     Selected({}, Both, 10, 2), Selected({}, {"get_info"}, 0, 2),
     Selected({}, {"get_info"}, 0, 0), Selected({}, {}, 0, 0)}

Simple == {Selected({}, {"get_info"}, 0, 0)}

MCCasts ==
    {[Nothing EXCEPT !.registers = TRUE, !.reopens = TRUE, !.settings = 2,
                     !.legacy = {"c2"}],
     [Nothing EXCEPT !.registers = TRUE, !.settings = 1, !.faults = 1, !.legacy = {"c2"}],
     [Nothing EXCEPT !.registers = TRUE, !.faults = 2, !.legacy = {"c2"}],
     [Nothing EXCEPT !.registers = TRUE, !.reopens = TRUE, !.faults = 1,
                     !.fresh = {"c2"}, !.selections = Simple],
     [Nothing EXCEPT !.offers = {Spend, Less, Read} \cup Refused,
                     !.selections = Selections],
     [Nothing EXCEPT !.offers = {Spend, Read}, !.faults = 1,
                     !.selections = {Selected({}, Both, 20, 2), Selected({}, {"get_info"}, 0, 0)}],
     [Nothing EXCEPT !.faults = 2, !.fresh = {"c1", "c2"}, !.selections = Simple],
     [Nothing EXCEPT !.faults = 2, !.fresh = {"c2"}, !.selections = Simple,
                     !.upgrades = 1]}
=============================================================================
