------------------------------ MODULE MC_Gateway ------------------------------
(* Two gateways, and one process id of a master more than a job can stop:   *)
(* one that escaped, and one that is started in its place.                  *)
EXTENDS Gateway

CONSTANTS g1, g2, m1, m2

MCGateways == {g1, g2}
MCMasters == {m1, m2}

=============================================================================
