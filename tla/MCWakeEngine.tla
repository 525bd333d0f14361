---------------------------- MODULE MCWakeEngine ----------------------------
(***************************************************************************)
(* Small instances of WakeEngine.                                          *)
(***************************************************************************)
EXTENDS WakeEngine, TLC

CONSTANTS LimitValue

MCKeyPair == [c \in ConnectionIds |-> c]
MCLimit == [c \in ConnectionIds |-> LimitValue]
MCMaximumFee == [c \in ConnectionIds |-> 1]
MCCountFees == [c \in ConnectionIds |-> TRUE]
MCZero == [c \in ConnectionIds |-> 0]
MCMayPay == [c \in ConnectionIds |-> TRUE]

\* Every event asks to pay the one invoice on the one connection.
Pay ==
    [kind |-> "pay_invoice", conn |-> CHOOSE c \in ConnectionIds : TRUE,
     hash |-> CHOOSE h \in Hashes : TRUE, principal |-> 2]

Nothing ==
    [requests |-> [e \in EventIds |-> Pay], woken |-> EventIds,
     processes |-> Processes, legacy |-> {}, left |-> {}, held |-> {},
     outside |-> FALSE, outlive |-> FALSE, prunes |-> FALSE, undecodable |-> FALSE,
     batch |-> Cardinality(EventIds), faults |-> 1]

\* Instances named by what is special in them and the event or hash it is
\* about; Everyone where it is about none.
Everyone == "everyone"

\* Injections: each event has a connection, or a hash, of its own.
Owns(S) == {f \in [EventIds -> S] : \A e, g \in EventIds : f[e] = f[g] => e = g}

Own(S) == CHOOSE f \in Owns(S) : TRUE

\* Two requests for one invoice; two requests, each for an invoice of its own,
\* against a budget that holds one of them; one request, while the invoice may be paid
\* outside; one that is not a payment; one left by an older version.
MCCasts ==
    LET names == {<<"shared", Everyone>>} \cup {"competing"} \X Owns(Hashes)
                     \cup {"outside", "direct", "legacy"} \X EventIds
        Instance(kind, e) ==
            CASE kind = "competing" ->
                    [Nothing EXCEPT !.requests =
                                        [g \in EventIds |-> [Pay EXCEPT !.hash = e[g]]],
                                    !.faults = 0]
              [] kind = "outside" ->
                    [Nothing EXCEPT !.woken = {e}, !.outside = TRUE, !.prunes = TRUE]
              [] kind = "direct" ->
                    [Nothing EXCEPT !.woken = {e}, !.requests[e].kind = "direct",
                                    !.prunes = TRUE]
              [] kind = "legacy" -> [Nothing EXCEPT !.legacy = {e}, !.outside = TRUE]
              [] OTHER -> Nothing
    IN  [n \in names |-> Instance(n[1], n[2])]

\* One request; two payments left behind, one of which stays pending.
MCProgress ==
    LET one == [Nothing EXCEPT !.woken = {CHOOSE e \in EventIds : TRUE}]
        Left(h) ==
            [Nothing EXCEPT
                !.requests = [e \in EventIds |-> [Pay EXCEPT !.hash = Own(Hashes)[e]]],
                !.processes = {}, !.left = EventIds, !.held = {h}, !.batch = 1]
    IN  [n \in {Everyone} \cup Hashes |-> IF n = Everyone THEN one ELSE Left(n)]

MCSuspended == [n \in {Everyone} |-> [Nothing EXCEPT !.outlive = TRUE, !.faults = 3]]

MCUndecodable ==
    [n \in {Everyone} |-> [Nothing EXCEPT !.undecodable = TRUE, !.faults = 0]]

MCMisattributed ==
    [n \in {Everyone} |->
        [Nothing EXCEPT
            !.requests = [e \in EventIds |-> [Pay EXCEPT !.conn = Own(ConnectionIds)[e]]],
            !.outside = TRUE, !.faults = 0]]

MCSymmetry == Permutations(Processes) \cup Permutations(Tokens)

\* Sound with casts that do not tell events apart.
MCEventSymmetry == MCSymmetry \cup Permutations(EventIds)
=============================================================================
