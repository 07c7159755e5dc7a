------------------------------ MODULE Account ------------------------------
(***************************************************************************)
(* What a credit promises: a payment takes its price from the funds at once, *)
(* if they are there; who has heard that a payment was made does not pay     *)
(* again; the operator adds to the funds or sets them.  Nothing else moves a *)
(* credit.                                                                   *)
(***************************************************************************)
EXTENDS Integers

CONSTANTS Payer, Prices, InitialFunds, Absent, MayOverdraw, Additions, Settings

VARIABLES funds,   \* Absent until somebody sets or adds to them
          paid,    \* how often each has paid
          unheard, \* how many of these payments they do not know of
          price    \* what each has to pay

acvars == <<funds, paid, unheard, price>>

Open ==
    /\ funds \in InitialFunds
    /\ paid = [p \in Payer |-> 0] /\ unheard = [p \in Payer |-> 0]
    /\ price \in [Payer -> Prices]

Pay(p) ==
    /\ paid[p] = unheard[p] /\ funds # Absent
    /\ MayOverdraw \/ funds >= price[p]
    /\ funds' = funds - price[p]
    /\ paid' = [paid EXCEPT ![p] = @ + 1]
    /\ unheard' \in {unheard, [unheard EXCEPT ![p] = @ + 1]}
    /\ UNCHANGED price

Adjust ==
    /\ \/ \E v \in Additions : funds' = (IF funds = Absent THEN 0 ELSE funds) + v
       \/ funds' \in Settings
    /\ UNCHANGED <<paid, unheard, price>>

Move == Adjust \/ \E p \in Payer : Pay(p)

AccountSpec == Open /\ [][Move]_acvars
=============================================================================
