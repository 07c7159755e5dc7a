------------------------- MODULE MCBalancerRequests -------------------------
(* BalancerRequests for TLC.  PingPong's run explores a signal that comes    *)
(* before the listener is up; here it comes later.                         *)
EXTENDS BalancerRequests

SignalWhileListening == shutPc' # shutPc => startPc \in {"listen", "closed"}
ListeningSpec == ReqInit /\ [][ReqNext /\ SignalWhileListening]_allVars /\ ReqFairness
=============================================================================
