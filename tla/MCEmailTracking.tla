-------------------------- MODULE MCEmailTracking --------------------------
(* EmailTracking for TLC.                                                   *)
EXTENDS EmailTracking, TLC
=============================================================================
