---------------------------- MODULE MCChallenges ----------------------------
(* Challenges for TLC: the administrator's row, as data.sql inserts it.      *)
EXTENDS Challenges

Seeded == [auth |-> 5, refresh |-> 60]
=============================================================================
