---------------------------- MODULE MC_HolderFeed ----------------------------
(* HolderFeed with a basket of two assets, one twice as heavy as the other.    *)
EXTENDS HolderFeed

CONSTANTS a1, a2

Weights == [a \in {a1, a2} |-> IF a = a1 THEN 1 ELSE 2]
=============================================================================
