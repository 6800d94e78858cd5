---------------------------- MODULE AssetRegistry ----------------------------
(* The assets of one Reserve: the ReserveAsset accounts with their order_index *)
(* and target weight, and the two figures the Reserve account keeps of them.   *)
(* Every instruction that touches all assets takes them as an account list and *)
(* accepts it only in the order of the indices; an index out of place would    *)
(* shut issuance, redemption and closing together.                             *)
(*                                                                             *)
(* Of a vault it only matters whether it is empty.  Who may sign is the        *)
(* subject of Delegates.                                                       *)
EXTENDS Integers, Sequences, FiniteSets, Folds, Functions

CONSTANTS
  Mints,
  MaxReserveAssets,  \* ProtocolConfig.max_reserve_assets
  BpsDenominator

ASSUME RegistryAssumption ==
  MaxReserveAssets \in Nat /\ BpsDenominator \in Nat /\ IsFiniteSet(Mints)

VARIABLES
  status,       \* Reserve.status
  assetCount,   \* Reserve.asset_count
  totalWeight,  \* Reserve.total_target_weight_bps
  registered,   \* the mints with a ReserveAsset account
  orderIndex,   \* ReserveAsset.order_index, 0 where there is no account
  weight,       \* ReserveAsset.target_weight_bps, 0 where there is no account
  funded        \* the registered mints whose vault is not empty

vars == <<status, assetCount, totalWeight, registered, orderIndex, weight, funded>>

Weights == 0 .. BpsDenominator

(* create_reserve leaves a Reserve without assets.                             *)
Init ==
  /\ status = "Created" /\ assetCount = 0 /\ totalWeight = 0
  /\ registered = {} /\ funded = {}
  /\ orderIndex = [a \in Mints |-> 0] /\ weight = [a \in Mints |-> 0]

-----------------------------------------------------------------------------
RoomFor(w) == assetCount < MaxReserveAssets /\ totalWeight + w <= BpsDenominator
NextIndex  == assetCount

Register(a, w) ==
  /\ a \notin registered /\ RoomFor(w)
  /\ registered' = registered \cup {a}
  /\ orderIndex' = [orderIndex EXCEPT ![a] = NextIndex]
  /\ weight' = [weight EXCEPT ![a] = w]
  /\ assetCount' = assetCount + 1
  /\ totalWeight' = totalWeight + w
  /\ UNCHANGED funded

InitializeReserveAsset(a, w) ==
  /\ status \in {"Created", "AssetsInitializing"}
  /\ Register(a, w)
  /\ status' = "AssetsInitializing"

AddReserveAssetActive(a, w) ==
  /\ status = "Active"
  /\ Register(a, w)
  /\ UNCHANGED status

(* Faults: the weight of a removed asset stays in the total; the last asset    *)
(* keeps its index; the assets behind the removed one move up.                 *)
TotalUnchanged(a)  == totalWeight
LastKeepsIndex(a)  == [orderIndex EXCEPT ![a] = 0]
AllMoveUp(a) ==
  [b \in Mints |-> IF b = a THEN 0
                   ELSE IF orderIndex[b] > orderIndex[a] THEN orderIndex[b] - 1
                   ELSE orderIndex[b]]

(* What removing asset a leaves of the total, and of the indices: the asset    *)
(* with the last one, if that is another, takes the place of a.                *)
TotalWithout(a) == totalWeight - weight[a]
IndexWithout(a) ==
  [b \in Mints |-> IF b = a THEN 0
                   ELSE IF b \in registered /\ orderIndex[b] = assetCount - 1
                   THEN orderIndex[a]
                   ELSE orderIndex[b]]

(* What both removals do: the ReserveAsset account and the empty vault go.     *)
Deregister(a) ==
  /\ status \in {"AssetsInitializing", "Active", "Paused"}
  /\ a \in registered /\ a \notin funded
  /\ weight[a] <= totalWeight
  /\ registered' = registered \ {a}
  /\ weight' = [weight EXCEPT ![a] = 0]
  /\ assetCount' = assetCount - 1
  /\ totalWeight' = TotalWithout(a)
  /\ UNCHANGED <<status, funded>>

RemoveReserveAsset(a) ==
  /\ Deregister(a)
  /\ orderIndex[a] = assetCount - 1
  /\ orderIndex' = [orderIndex EXCEPT ![a] = 0]

RemoveReserveAssetCompact(a) ==
  /\ Deregister(a)
  /\ assetCount > 1
  /\ \E last \in registered : orderIndex[last] = assetCount - 1
  /\ orderIndex' = IndexWithout(a)

-----------------------------------------------------------------------------
(* Account lists.                                                              *)

(* load_asset_legs, load_reserve_asset_configs and close_reserve accept a list *)
(* of asset_count registered assets whose indices are their positions.         *)
Lists == [1 .. assetCount -> Mints]
Accepts(list) ==
  \A i \in 1 .. assetCount : list[i] \in registered /\ orderIndex[list[i]] = i - 1

(* Fault: the new weights are accepted whatever they add up to.                *)
AnyWeights(weights) == TRUE
WeightsFit(weights) == SumFunction(weights) \in Weights

(* Refused in Paused only; an asset is never disabled by any instruction, so   *)
(* the test of ReserveAsset.enabled always passes.                             *)
UpdateTargets(list, weights) ==
  /\ status \notin {"Paused", "Closed"}
  /\ Accepts(list)
  /\ WeightsFit(weights)
  /\ weight' = [a \in Mints |->
                  IF \E i \in 1 .. assetCount : list[i] = a
                  THEN weights[CHOOSE i \in 1 .. assetCount : list[i] = a]
                  ELSE weight[a]]
  /\ totalWeight' = SumFunction(weights)
  /\ UNCHANGED <<status, assetCount, registered, orderIndex, funded>>

SeedReserve(list) ==
  /\ status = "AssetsInitializing" /\ assetCount > 0 /\ Accepts(list)
  /\ status' = "Active" /\ funded' = registered
  /\ UNCHANGED <<assetCount, totalWeight, registered, orderIndex, weight>>

(* The Reserve and every account of the list go.                               *)
CloseReserve(list) ==
  /\ status = "WindDown" /\ Accepts(list)
  /\ \A i \in 1 .. assetCount : list[i] \notin funded
  /\ status' = "Closed" /\ assetCount' = 0 /\ totalWeight' = 0
  /\ LET closed == {list[i] : i \in 1 .. assetCount} IN
     /\ registered' = registered \ closed
     /\ orderIndex' = [a \in Mints |-> IF a \in closed THEN 0 ELSE orderIndex[a]]
     /\ weight' = [a \in Mints |-> IF a \in closed THEN 0 ELSE weight[a]]
  /\ UNCHANGED funded

-----------------------------------------------------------------------------
(* What else changes the status, or empties and fills vaults.                  *)

ChangeStatus(from, to) ==
  /\ status = from /\ status' = to
  /\ UNCHANGED <<assetCount, totalWeight, registered, orderIndex, weight, funded>>

PauseReserve     == ChangeStatus("Active", "Paused")
UnpauseReserve   == ChangeStatus("Paused", "Active")
InitiateWindDown == ChangeStatus("Active", "WindDown")

(* A deposit, a purchase by the rebalancer, or a transfer anyone may make.     *)
FillVault(a) ==
  /\ a \in registered /\ funded' = funded \cup {a}
  /\ UNCHANGED <<status, assetCount, totalWeight, registered, orderIndex, weight>>

(* The last redemption, or a sale of all the vault holds.                      *)
EmptyVault(a) ==
  /\ status \in {"Active", "Paused", "WindDown"}
  /\ a \in funded /\ funded' = funded \ {a}
  /\ UNCHANGED <<status, assetCount, totalWeight, registered, orderIndex, weight>>

Next ==
  \/ \E a \in Mints, w \in Weights :
       InitializeReserveAsset(a, w) \/ AddReserveAssetActive(a, w)
  \/ \E a \in Mints :
       \/ RemoveReserveAsset(a) \/ RemoveReserveAssetCompact(a)
       \/ FillVault(a) \/ EmptyVault(a)
  \/ \E list \in Lists :
       \/ \E weights \in [1 .. assetCount -> Weights] : UpdateTargets(list, weights)
       \/ SeedReserve(list) \/ CloseReserve(list)
  \/ PauseReserve \/ UnpauseReserve \/ InitiateWindDown

Spec == Init /\ [][Next]_vars

-----------------------------------------------------------------------------
(* Properties.                                                                 *)

(* The figures of the Reserve stay within their limits and the accounts'       *)
(* within their types; what has no account has no weight, index or balance.    *)
TypeOK ==
  /\ status \in {"Created", "AssetsInitializing", "Active", "Paused", "WindDown",
                 "Closed"}
  /\ assetCount \in 0 .. MaxReserveAssets /\ totalWeight \in Weights
  /\ registered \in SUBSET Mints /\ funded \in SUBSET registered
  /\ orderIndex \in [Mints -> Nat] /\ weight \in [Mints -> Weights]
  /\ \A a \in Mints \ registered : orderIndex[a] = 0 /\ weight[a] = 0

(* Whatever was added and removed, in any order and from any position, there   *)
(* is one account list, and only one, that issuance, redemption, the update of *)
(* targets and closing accept; and it leaves no asset of the Reserve out.      *)
OneAccountList ==
  \E list \in Lists :
    /\ Accepts(list)
    /\ \A other \in Lists : Accepts(other) => other = list
    /\ \A a \in registered : \E i \in 1 .. assetCount : list[i] = a

(* The total the handlers check new weights against is the sum of the weights  *)
(* of the accounts, so that no removal can fail for a total that is too small. *)
TotalExact == totalWeight = SumFunction(weight)

(* The account list changes only as AssetList says: an instruction prepared    *)
(* for the old list finds at most two positions different in the new one.      *)
AccountList ==
  [i \in 1 .. assetCount |-> CHOOSE a \in registered : orderIndex[a] = i - 1]
AsList == INSTANCE AssetList WITH list <- AccountList
ListImplemented == AsList!Spec
=============================================================================
