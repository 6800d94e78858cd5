------------------------------ MODULE AssetList ------------------------------
(* What the registry of a Reserve promises to every instruction that is given  *)
(* the Reserve's assets as accounts: one list without repetitions, to which a  *)
(* new asset is appended, and from which an asset goes with at most the last   *)
(* one changing its place.  AssetRegistry implements this (ListImplemented).   *)
EXTENDS Integers, Sequences

CONSTANTS Mints, MaxReserveAssets

VARIABLE list

Occurs(a) == \E i \in 1 .. Len(list) : list[i] = a

Init == list = << >>

Add(a) ==
  /\ ~Occurs(a) /\ Len(list) < MaxReserveAssets
  /\ list' = Append(list, a)

Remove(i) ==
  list' = [j \in 1 .. Len(list) - 1 |-> IF j = i THEN list[Len(list)] ELSE list[j]]

Close == list' = << >>

Next == (\E a \in Mints : Add(a)) \/ (\E i \in 1 .. Len(list) : Remove(i)) \/ Close

Spec == Init /\ [][Next]_list
=============================================================================
