----------------------------- MODULE Lifecycle -----------------------------
(***************************************************************************)
(* What a client of the balancer goes through: it is out, its peer is       *)
(* dialled, it is listed for requests, it is out again, and in the end over. *)
(* A peer that was dialled before is dialled again only if the last thing    *)
(* heard of it allows that.                                                 *)
(***************************************************************************)
EXTENDS Naturals

CONSTANTS Client,
          Codes,      \* what a client can hear of its peer's end
          Resumable   \* those after which the peer is dialled again

VARIABLES phase, dials, heard

lcvars == <<phase, dials, heard>>

Begin ==
    /\ phase = [c \in Client |-> "out"] /\ dials = [c \in Client |-> 0]
    /\ heard \in [Client -> Codes]

Turn(c, from, to) == phase[c] = from /\ phase' = [phase EXCEPT ![c] = to]

Dial(c) ==
    /\ Turn(c, "out", "dialled")
    /\ dials[c] > 0 => heard[c] \in Resumable
    /\ dials' = [dials EXCEPT ![c] = @ + 1]
    /\ UNCHANGED heard

Join(c) == Turn(c, "dialled", "listed") /\ UNCHANGED <<dials, heard>>
Leave(c) == Turn(c, "listed", "out") /\ UNCHANGED <<dials, heard>>
Retire(c) == Turn(c, "out", "over") /\ UNCHANGED <<dials, heard>>

Hear(c) ==
    /\ phase[c] \in {"listed", "out"} /\ dials[c] > 0
    /\ \E code \in Codes : heard' = [heard EXCEPT ![c] = code]
    /\ UNCHANGED <<phase, dials>>

Live == \E c \in Client : Dial(c) \/ Join(c) \/ Hear(c) \/ Leave(c) \/ Retire(c)

LifeSpec == Begin /\ [][Live]_lcvars
=============================================================================
