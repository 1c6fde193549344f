------------------------------ MODULE MC_Bridge ------------------------------
(* Three service channels: the bridge's own, and one left behind by each of *)
(* two faults.                                                              *)
EXTENDS Bridge

CONSTANTS s1, s2, s3

MCSessions == {s1, s2, s3}

=============================================================================
