------------------------------ MODULE MC_Request ------------------------------
(* One request: requests share nothing but the slots, whose module is       *)
(* SessionBudget, and the shutdown, which treats them all alike.            *)
EXTENDS Request

CONSTANT r1

MCRequests == {r1}
=============================================================================
