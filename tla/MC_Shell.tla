------------------------------- MODULE MC_Shell -------------------------------
(* The shell has no parameters: every state of the gateway is reachable.    *)
EXTENDS Shell

=============================================================================
