--------------------------- MODULE MCWakeDelivery ---------------------------
(***************************************************************************)
(* Small instances of WakeDelivery.                                        *)
(***************************************************************************)
EXTENDS WakeDelivery, TLC

CONSTANTS e1, e2

Nothing == [pushes |-> (e1 :> 1 @@ e2 :> 0), faults |-> 0, cuts |-> 0, refused |-> {}]

\* One request pushed again, through failures and interruptions; two requests
\* competing for a one-entry inbox; a refused event.
MCCasts ==
    {[Nothing EXCEPT !.pushes[e1] = 2, !.cuts = 1],
     [Nothing EXCEPT !.faults = 1, !.cuts = 1],
     [Nothing EXCEPT !.faults = 2],
     [Nothing EXCEPT !.cuts = 2],
     [Nothing EXCEPT !.pushes[e2] = 1, !.cuts = 1],
     [Nothing EXCEPT !.pushes[e2] = 1, !.faults = 1, !.refused = {e2}]}

\* One interruption is enough to orphan a claim.
MCOneCut == {[Nothing EXCEPT !.cuts = 1]}
=============================================================================
