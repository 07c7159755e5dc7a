---------------------------- MODULE AtMostOnce ----------------------------
(***************************************************************************)
(* What the event streams promise: an entry is handed out at most once,     *)
(* what it stands for happens at most once and only after that, and nothing *)
(* is removed that was not handed out.                                      *)
(***************************************************************************)
EXTENDS Naturals

CONSTANT Entry

VARIABLES handedOut, \* entries a consumer received
          effects,   \* how many times an entry took effect
          removed    \* entries deleted from the stream

avars == <<handedOut, effects, removed>>

AInit == handedOut = {} /\ removed = {} /\ effects = [e \in Entry |-> 0]

HandOut ==
    /\ \E B \in SUBSET (Entry \ handedOut) : B # {} /\ handedOut' = handedOut \cup B
    /\ UNCHANGED <<effects, removed>>

TakeEffect ==
    /\ \E B \in SUBSET handedOut :
          /\ B # {} /\ \A e \in B : effects[e] = 0
          /\ effects' = [e \in Entry |-> IF e \in B THEN 1 ELSE effects[e]]
    /\ UNCHANGED <<handedOut, removed>>

Remove ==
    /\ \E B \in SUBSET (handedOut \ removed) : B # {} /\ removed' = removed \cup B
    /\ UNCHANGED <<handedOut, effects>>

ANext == HandOut \/ TakeEffect \/ Remove
ASpec == AInit /\ [][ANext]_avars
=============================================================================
