--------------------------- MODULE EventLifecycle ---------------------------
(***************************************************************************)
(* What the event ledger promises: an event has one owner at a time, a     *)
(* newer owner replaces a lost one, an outcome is decided only while there *)
(* is an owner, and stays until the retention policy forgets it.           *)
(***************************************************************************)
CONSTANTS Events, Owners, Nobody

VARIABLES owner, outcome, accepted

lifecycleVars == <<owner, outcome, accepted>>

SetOwner(e, p) == owner' = [owner EXCEPT ![e] = p]

Acquire(e, p) ==
    outcome[e] = "open" /\ SetOwner(e, p) /\ UNCHANGED <<outcome, accepted>>

Accept(e) ==
    /\ owner[e] # Nobody
    /\ accepted' = [accepted EXCEPT ![e] = TRUE]
    /\ UNCHANGED <<owner, outcome>>

\* Given back by its owner, or lost with the process that owned it.
Abandon(e) == SetOwner(e, Nobody) /\ UNCHANGED <<outcome, accepted>>

Decide(e) ==
    /\ owner[e] # Nobody /\ outcome[e] = "open"
    /\ SetOwner(e, Nobody)
    /\ \E kind \in {"completed", "rejected", "failed"} :
           outcome' = [outcome EXCEPT ![e] = kind]
    /\ UNCHANGED accepted

Forget(e) ==
    /\ outcome[e] # "open"
    /\ outcome' = [outcome EXCEPT ![e] = "open"]
    /\ accepted' = [accepted EXCEPT ![e] = FALSE]
    /\ UNCHANGED owner

Init == /\ owner = [e \in Events |-> Nobody]
        /\ outcome = [e \in Events |-> "open"]
        /\ accepted = [e \in Events |-> FALSE]

Next == \E e \in Events :
            \/ \E p \in Owners : Acquire(e, p)
            \/ Accept(e) \/ Abandon(e) \/ Decide(e) \/ Forget(e)

Spec == Init /\ [][Next]_lifecycleVars
=============================================================================
