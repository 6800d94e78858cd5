-------------------------- MODULE MC_FeeSettlement --------------------------
(* FeeSettlement on small instances; the bounds are in the .cfg files.         *)
EXTENDS FeeSettlement, Apportionment
LOCAL INSTANCE SequencesExt

(* apportion_to_recipients as its loop runs: the active slots sorted by        *)
(* remainder, then the first leftover of them incremented.                     *)
ApportionInOrder(total, allocation, whole) ==
  LET remainder == Remainders(total, allocation, whole)
      order     == SetToSortSeq(DOMAIN allocation,
                     LAMBDA a, b : \/ remainder[a] > remainder[b]
                                   \/ remainder[a] = remainder[b] /\ a < b)
      taken     == {order[k] : k \in {n \in DOMAIN order : n <= Leftover(total, allocation, whole)}}
  IN  [i \in DOMAIN allocation |->
         FloorShares(total, allocation, whole)[i] + IF i \in taken THEN 1 ELSE 0]

(* Every division of a whole of 6 parts among one to four recipients.          *)
Allocations == UNION {{a \in [0 .. n - 1 -> 0 .. 6] : SumFunction(a) = 6} : n \in 1 .. 4}

(* Apportion gives every recipient what the loop gives it.                     *)
ASSUME ApportionmentAgrees ==
  \A allocation \in Allocations, total \in 0 .. 13 :
    Apportion(total, allocation, 6) = ApportionInOrder(total, allocation, 6)
=============================================================================
