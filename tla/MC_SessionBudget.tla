-------------------------- MODULE MC_SessionBudget --------------------------
(***************************************************************************)
(* Three operations, two bridges and two probes over budgets of 3 and 4:   *)
(* the smaller one leaves bridges a single slot, the larger one lets both  *)
(* bridges hold one, so a restart from 4 to 3 finds bridges that counted   *)
(* on more than there is.  With three operations one may leave the queue   *)
(* at its head, in the middle of it and at its end.                        *)
(***************************************************************************)
EXTENDS SessionBudget, TLC

CONSTANTS o1, o2, o3, b1, b2, r1, r2

MC_Ops == {o1, o2, o3}
MC_Bridges == {b1, b2}
MC_Probers == {r1, r2}
MC_Limits == {3, 4}

=============================================================================
