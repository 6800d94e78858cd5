----------------------------- MODULE ShareLedger -----------------------------
(* What a Reserve promises whoever holds its shares, whatever its fees, its    *)
(* basket and its rebalances: every share is issued and redeemed at its part   *)
(* of each asset, and the rounding, of less than one unit of the asset, falls  *)
(* to those who stay.  ReserveCore implements this (LedgerImplemented there).  *)
EXTENDS Integers

CONSTANT Assets

VARIABLES supply,  \* shares outstanding
          backing, \* the amount of each asset held behind them
          closed   \* nothing happens to a closed Reserve any more

vars == <<supply, backing, closed>>

Init == supply = 0 /\ backing = [a \in Assets |-> 0] /\ closed = FALSE

(* What remains of an asset is its part for the shares that remain, exact or   *)
(* rounded up: cross-multiplied, as no division is exact.                      *)
AtFairPrice(a) ==
  LET exact == backing[a] * supply'
      kept  == backing'[a] * supply
  IN  exact <= kept /\ kept < exact + supply

(* Against an empty ledger there is no price: whoever comes first sets it.     *)
IssueFirst ==
  /\ supply = 0 /\ supply' > 0
  /\ \A a \in Assets : backing'[a] >= backing[a]

Issue ==
  /\ supply > 0 /\ supply' > supply
  /\ \A a \in Assets : AtFairPrice(a)

(* With no share left, AtFairPrice leaves nothing of any asset.                *)
Redeem ==
  /\ supply' < supply
  /\ \A a \in Assets : AtFairPrice(a)

(* The annual fee issues shares against no deposit.                            *)
Accrue ==
  /\ supply' > supply /\ backing' = backing

(* A transfer into a vault, by anyone.                                         *)
Gift ==
  /\ supply' = supply
  /\ \A a \in Assets : backing'[a] >= backing[a]

(* A rebalance gives of one asset for another.                                 *)
Trade ==
  /\ supply' = supply
  /\ \E sell, buy \in Assets :
       /\ backing'[sell] < backing[sell] /\ backing'[buy] > backing[buy]
       /\ \A a \in Assets \ {sell, buy} : backing'[a] = backing[a]

Move ==
  /\ ~closed /\ ~closed'
  /\ supply' \in Nat /\ backing' \in [Assets -> Nat]
  /\ IssueFirst \/ Issue \/ Redeem \/ Accrue \/ Gift \/ Trade

Close ==
  /\ ~closed /\ closed'
  /\ supply = 0 /\ \A a \in Assets : backing[a] = 0
  /\ UNCHANGED <<supply, backing>>

Spec == Init /\ [][Move \/ Close]_vars
=============================================================================
