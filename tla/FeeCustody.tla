----------------------------- MODULE FeeCustody -----------------------------
(* What the settlement pipeline promises about the fees of each Reserve: every *)
(* unit redeemed from a fee vault is in custody until it is paid out, and it   *)
(* is paid out once.  FeeSettlement implements this (FeesNeverLost there).     *)
EXTENDS Integers

CONSTANT Reserves

VARIABLES custody, \* by Reserve: redeemed for its fee shares, not yet paid out
          payouts  \* by Reserve: paid out of what was redeemed for its shares

Init == custody = [r \in Reserves |-> 0] /\ payouts = [r \in Reserves |-> 0]

(* A redemption brings value into custody and pays nothing.                    *)
Collect ==
  /\ \A r \in Reserves : custody'[r] >= custody[r]
  /\ payouts' = payouts

(* A distribution pays out of custody, without loss and without reversal.      *)
Pay ==
  /\ \A r \in Reserves : /\ custody'[r] + payouts'[r] = custody[r] + payouts[r]
                         /\ payouts'[r] >= payouts[r] /\ custody'[r] >= 0

Spec == Init /\ [][Collect \/ Pay]_<<custody, payouts>>
=============================================================================
