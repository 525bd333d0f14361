------------------------- MODULE MCWakeRegistration -------------------------
(***************************************************************************)
(* Small instances of WakeRegistration.                                    *)
(***************************************************************************)
EXTENDS WakeRegistration, TLC

MCKeyPair == [c \in ConnectionIds |-> c]
MCZero == [c \in ConnectionIds |-> 0]
MCFalse == [c \in ConnectionIds |-> FALSE]
MCSymmetry == Permutations(Workers) \cup Permutations(PushTokens)
=============================================================================
