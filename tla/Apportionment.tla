---------------------------- MODULE Apportionment ----------------------------
(* fee_math::apportion_to_recipients: a manager's part of a fee divided among  *)
(* its recipients by largest remainder.  allocation gives each active slot its *)
(* basis points, which validation makes add up to whole (10_000).              *)
EXTENDS FeeMath, FiniteSets, Functions

Numerator(total, allocation, i) == total * allocation[i]

FloorShares(total, allocation, whole) ==
  [i \in DOMAIN allocation |-> Numerator(total, allocation, i) \div whole]

Remainders(total, allocation, whole) ==
  [i \in DOMAIN allocation |-> Numerator(total, allocation, i) % whole]

(* The units no floor accounts for; each goes to another slot.                 *)
Leftover(total, allocation, whole) ==
  total - SumFunction(FloorShares(total, allocation, whole))

(* The slots before i in the order the leftover is handed out: by remainder,   *)
(* largest first, and by slot where remainders are equal.                      *)
Before(remainder, i) ==
  {j \in DOMAIN remainder : \/ remainder[j] > remainder[i]
                            \/ remainder[j] = remainder[i] /\ j < i}

Apportion(total, allocation, whole) ==
  LET floors    == FloorShares(total, allocation, whole)
      remainder == Remainders(total, allocation, whole)
      leftover  == Leftover(total, allocation, whole)
  IN  [i \in DOMAIN allocation |->
         IF Cardinality(Before(remainder, i)) < leftover THEN floors[i] + 1 ELSE floors[i]]
=============================================================================
