----------------------------- MODULE MCCredits -----------------------------
(* Credits for TLC: requests are interchangeable.                          *)
EXTENDS Credits, TLC

RequestSymmetry == Permutations(Request)
=============================================================================
