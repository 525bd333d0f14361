-------------------------- MODULE PaymentLifecycle --------------------------
(***************************************************************************)
(* What the payment ledger promises about one authorized payment: its      *)
(* debit is taken before it is committed to the wallet, a debit can be     *)
(* given back only before commitment or on a definitive failure, and a     *)
(* settlement is final.  `hold' is the amount held against the budget.     *)
(***************************************************************************)
EXTENDS Integers

CONSTANT Payments

VARIABLES phase, hold

lifecycleVars == <<phase, hold>>

Move(p, from, to) == phase[p] \in from /\ phase' = [phase EXCEPT ![p] = to]

SetHold(p) == hold'[p] \in Nat /\ hold' = [hold EXCEPT ![p] = hold'[p]]

Debit(p)   == Move(p, {"free"}, "held") /\ SetHold(p) /\ hold'[p] > 0
Release(p) == Move(p, {"held"}, "free") /\ SetHold(p) /\ hold'[p] = 0
Commit(p)  == Move(p, {"held"}, "committed") /\ UNCHANGED hold
Refund(p)  == Move(p, {"committed"}, "refunded") /\ SetHold(p) /\ hold'[p] = 0
Settle(p)  == Move(p, {"committed", "refunded"}, "settled") /\ SetHold(p)

Init == /\ phase = [p \in Payments |-> "free"]
        /\ hold = [p \in Payments |-> 0]

Next == \E p \in Payments :
            Debit(p) \/ Release(p) \/ Commit(p) \/ Refund(p) \/ Settle(p)

Spec == Init /\ [][Next]_lifecycleVars
=============================================================================
