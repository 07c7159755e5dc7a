---------------------------- MODULE MCLeaderLock ----------------------------
(* LeaderLock for TLC, with 300 s as the unit of time.                      *)
EXTENDS LeaderLock
=============================================================================
