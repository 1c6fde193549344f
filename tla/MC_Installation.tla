--------------------------- MODULE MC_Installation ---------------------------
(* Two hosts, so that an installation can change the host.                  *)
EXTENDS Installation

CONSTANTS h1, h2

MCHosts == {h1, h2}
=============================================================================
