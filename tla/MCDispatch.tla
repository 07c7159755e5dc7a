----------------------------- MODULE MCDispatch -----------------------------
(* The two ways the balancer sends a request on, for TLC: split over all     *)
(* servers (ProxyDispatch), or to the one the algorithm picks (RoundRobin).  *)
(* They share no state: the one is explored while the other is at rest.     *)
EXTENDS ProxyDispatch, RoundRobin, TLC

CallerSymmetry == Permutations(Caller)

RRResting == index = 0 /\ \A t \in Caller : at[t] = "idle"

DispatchInit == Init /\ RRInit

DispatchSpec ==
    /\ DispatchInit
    /\ [][\/ Next /\ RRResting /\ UNCHANGED rrVars
          \/ RRNext /\ items = 0 /\ pc = "split" /\ UNCHANGED vars]_<<vars, rrVars>>
=============================================================================
