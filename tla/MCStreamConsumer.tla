------------------------- MODULE MCStreamConsumer -------------------------
(* StreamConsumer for TLC; temporal properties exclude the symmetry of the  *)
(* consumers.                                                               *)
EXTENDS StreamConsumer
=============================================================================
