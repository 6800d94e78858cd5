------------------------ MODULE AssetRegistry_proofs ------------------------
(* The order of a Reserve's assets, for any number of them: every reachable    *)
(* registry has one account list, and it changes only as AssetList allows.     *)
EXTENDS AssetRegistry, SequenceTheorems, FeeMath_proofs

(* The indices of the registered assets are exactly 0 .. assetCount - 1, each  *)
(* taken once.                                                                 *)
InRange  == \A a \in registered : orderIndex[a] < assetCount
Distinct == \A a, b \in registered : orderIndex[a] = orderIndex[b] => a = b
NoGap    == \A i \in 0 .. assetCount - 1 : \E a \in registered : orderIndex[a] = i
Indexed  == InRange /\ Distinct /\ NoGap

IInv == TypeOK /\ Indexed

-----------------------------------------------------------------------------
(* Functions with the same domain and the same values are equal.               *)
LEMMA SameFunction ==
  ASSUME NEW S, NEW T, NEW f \in [S -> T], NEW g \in [S -> T],
         \A x \in S : f[x] = g[x]
  PROVE  f = g
OBVIOUS

(* The account list holds every asset at the position of its index.            *)
ListIsIndexed ==
  /\ AccountList \in Lists
  /\ \A i \in 1 .. assetCount : /\ AccountList[i] \in registered
                                /\ orderIndex[AccountList[i]] = i - 1
  /\ \A a \in registered : /\ orderIndex[a] + 1 \in 1 .. assetCount
                           /\ AccountList[orderIndex[a] + 1] = a

LEMMA ListFacts == ASSUME IInv
  PROVE  /\ AccountList \in Lists
         /\ \A i \in 1 .. assetCount : /\ AccountList[i] \in registered
                                       /\ orderIndex[AccountList[i]] = i - 1
         /\ \A a \in registered : /\ orderIndex[a] + 1 \in 1 .. assetCount
                                  /\ AccountList[orderIndex[a] + 1] = a
<1> USE DEF IInv, TypeOK
<1>1. assetCount \in Nat
  BY RegistryAssumption
<1>2. ASSUME NEW i \in 1 .. assetCount
      PROVE  /\ AccountList[i] \in registered
             /\ orderIndex[AccountList[i]] = i - 1
  <2>1. i - 1 \in 0 .. assetCount - 1
    BY <1>1
  <2>2. \E a \in registered : orderIndex[a] = i - 1
    BY <2>1 DEF Indexed, NoGap
  <2>3. AccountList[i] = CHOOSE a \in registered : orderIndex[a] = i - 1
    BY DEF AccountList
  <2> QED
    BY <2>2, <2>3
<1>3. AccountList \in Lists
  BY <1>2 DEF AccountList, Lists
<1>4. ASSUME NEW a \in registered
      PROVE  /\ orderIndex[a] + 1 \in 1 .. assetCount
             /\ AccountList[orderIndex[a] + 1] = a
  <2>1. orderIndex[a] \in Nat /\ orderIndex[a] < assetCount
    BY DEF Indexed, InRange
  <2>2. orderIndex[a] + 1 \in 1 .. assetCount
    BY <1>1, <2>1
  <2>3. /\ AccountList[orderIndex[a] + 1] \in registered
        /\ orderIndex[AccountList[orderIndex[a] + 1]] = (orderIndex[a] + 1) - 1
    BY <2>2, <1>2
  <2> QED
    BY <2>1, <2>2, <2>3 DEF Indexed, Distinct
<1> QED
  BY <1>2, <1>3, <1>4

(* A list the loaders accept is that list.                                     *)
LEMMA AcceptedList == ASSUME IInv, NEW list \in Lists, Accepts(list)
  PROVE  list = AccountList
<1>1. ASSUME NEW i \in 1 .. assetCount PROVE list[i] = AccountList[i]
  BY ListFacts DEF Accepts, IInv, Indexed, Distinct
<1>2. AccountList \in [1 .. assetCount -> Mints] /\ list \in [1 .. assetCount -> Mints]
  BY ListFacts DEF Lists
<1>3. list = [i \in 1 .. assetCount |-> list[i]]
  BY <1>2
<1>4. AccountList = [i \in 1 .. assetCount |-> AccountList[i]]
  BY <1>2
<1> QED
  BY <1>1, <1>3, <1>4, Zenon

LEMMA IndexedGivesOneList == ASSUME IInv PROVE OneAccountList
<1>1. AccountList \in Lists /\ Accepts(AccountList)
  BY ListFacts DEF Accepts
<1>2. \A other \in Lists : Accepts(other) => other = AccountList
  BY AcceptedList
<1>3. \A a \in registered : \E i \in 1 .. assetCount : AccountList[i] = a
  BY ListFacts
<1> QED
  BY <1>1, <1>2, <1>3, Zenon DEF OneAccountList

-----------------------------------------------------------------------------
(* Each action preserves the invariant.                                        *)
LEMMA InitEstablishes == Init => IInv
<1> SUFFICES ASSUME Init PROVE IInv
  OBVIOUS
<1>1. orderIndex \in [Mints -> Nat] /\ weight \in [Mints -> Weights]
  BY RegistryAssumption DEF Init, Weights
<1>2. \A a \in Mints \ registered : orderIndex[a] = 0 /\ weight[a] = 0
  BY DEF Init
<1>3. assetCount \in 0 .. MaxReserveAssets /\ totalWeight \in Weights
  BY RegistryAssumption DEF Init, Weights
<1>4. TypeOK
  BY <1>1, <1>2, <1>3 DEF TypeOK, Init
<1>5. Indexed
  BY DEF Init, Indexed, InRange, Distinct, NoGap
<1> QED
  BY <1>4, <1>5 DEF IInv

LEMMA RegisterPreserves ==
  ASSUME IInv, NEW a \in Mints, NEW w \in Weights, Register(a, w),
         status' \in {"AssetsInitializing", "Active"}
  PROVE  IInv'
<1> USE DEF IInv
<1>1. /\ assetCount \in Nat /\ assetCount < MaxReserveAssets
      /\ assetCount' = assetCount + 1
      /\ a \notin registered /\ registered' = registered \cup {a}
      /\ orderIndex' = [orderIndex EXCEPT ![a] = assetCount]
      /\ weight' = [weight EXCEPT ![a] = w]
      /\ totalWeight' = totalWeight + w /\ totalWeight + w <= BpsDenominator
      /\ funded' = funded
  BY RegistryAssumption DEF Register, RoomFor, NextIndex, TypeOK
<1>2. TypeOK'
  <2>1. assetCount' \in 0 .. MaxReserveAssets
    BY <1>1, RegistryAssumption
  <2>2. totalWeight' \in Weights
    BY <1>1, RegistryAssumption DEF TypeOK, Weights
  <2>3. orderIndex' \in [Mints -> Nat] /\ weight' \in [Mints -> Weights]
    BY <1>1 DEF TypeOK
  <2>4. registered' \in SUBSET Mints /\ funded' \in SUBSET registered'
    BY <1>1 DEF TypeOK
  <2>5. \A b \in Mints \ registered' : orderIndex'[b] = 0 /\ weight'[b] = 0
    BY <1>1 DEF TypeOK
  <2> QED
    BY <2>1, <2>2, <2>3, <2>4, <2>5 DEF TypeOK
<1>3. \A b \in registered : orderIndex'[b] = orderIndex[b] /\ orderIndex[b] \in Nat
  BY <1>1 DEF TypeOK
<1>4. orderIndex'[a] = assetCount
  BY <1>1 DEF TypeOK
<1>5. InRange'
  BY <1>1, <1>3, <1>4 DEF InRange, Indexed
<1>6. Distinct'
  BY <1>1, <1>3, <1>4 DEF Distinct, InRange, Indexed
<1>7. NoGap'
  <2> SUFFICES ASSUME NEW i \in 0 .. assetCount' - 1
               PROVE  \E b \in registered' : orderIndex'[b] = i
    BY DEF NoGap
  <2>1. CASE i = assetCount
    BY <2>1, <1>1, <1>4
  <2>2. CASE i # assetCount
    <3>1. i \in 0 .. assetCount - 1
      BY <1>1, <2>2
    <3>2. PICK b \in registered : orderIndex[b] = i
      BY <3>1 DEF NoGap, Indexed
    <3> QED
      BY <3>2, <1>1, <1>3
  <2> QED
    BY <2>1, <2>2
<1> QED
  BY <1>2, <1>5, <1>6, <1>7 DEF Indexed

(* The types after a removal, whichever index the last asset then has.         *)
LEMMA DeregisterTypes ==
  ASSUME IInv, NEW a \in Mints, Deregister(a), orderIndex' \in [Mints -> Nat],
         \A b \in Mints \ registered' : orderIndex'[b] = 0
  PROVE  /\ TypeOK'
         /\ assetCount \in Nat \ {0} /\ assetCount' = assetCount - 1
         /\ a \in registered /\ registered' = registered \ {a}
<1> USE DEF IInv
<1>1. /\ a \in registered /\ registered' = registered \ {a}
      /\ weight' = [weight EXCEPT ![a] = 0]
      /\ assetCount' = assetCount - 1
      /\ totalWeight' = totalWeight - weight[a] /\ weight[a] <= totalWeight
      /\ UNCHANGED <<status, funded>> /\ a \notin funded
  BY DEF Deregister, TotalWithout
<1>2. assetCount \in Nat \ {0}
  BY <1>1, RegistryAssumption DEF TypeOK, Indexed, InRange
<1>3. assetCount' \in 0 .. MaxReserveAssets
  BY <1>1, <1>2, RegistryAssumption DEF TypeOK
<1>4. totalWeight' \in Weights
  <2>1. totalWeight \in 0 .. BpsDenominator /\ weight[a] \in 0 .. BpsDenominator
    BY DEF TypeOK, Weights
  <2> QED
    BY <2>1, <1>1, RegistryAssumption DEF Weights
<1>5. weight' \in [Mints -> Weights]
  <2>1. 0 \in Weights
    BY RegistryAssumption DEF Weights
  <2> QED
    BY <1>1, <2>1 DEF TypeOK
<1>6. registered' \in SUBSET Mints /\ funded' \in SUBSET registered'
  BY <1>1 DEF TypeOK
<1>7. \A b \in Mints \ registered' : orderIndex'[b] = 0 /\ weight'[b] = 0
  BY <1>1 DEF TypeOK
<1>8. status' = status
  BY <1>1
<1> QED
  BY <1>1, <1>2, <1>3, <1>4, <1>5, <1>6, <1>7, <1>8 DEF TypeOK

(* Taking an asset out and giving its index to the last one leaves the indices *)
(* without gap or repetition; when it is the last one, nothing else moves.     *)
LEMMA CompactionKeepsIndices ==
  ASSUME IInv, TypeOK', NEW a \in registered,
         assetCount \in Nat \ {0}, assetCount' = assetCount - 1,
         registered' = registered \ {a},
         \A b \in registered \ {a} :
           orderIndex'[b] = IF orderIndex[b] = assetCount - 1
                            THEN orderIndex[a] ELSE orderIndex[b]
  PROVE  Indexed'
<1> USE DEF IInv
<1>1. \A b \in registered : orderIndex[b] \in Nat /\ orderIndex[b] < assetCount
  BY DEF TypeOK, Indexed, InRange
<1>2. \A b, c \in registered : orderIndex[b] = orderIndex[c] => b = c
  BY DEF Indexed, Distinct
<1>3. InRange'
  <2> SUFFICES ASSUME NEW b \in registered \ {a}
               PROVE  orderIndex'[b] < assetCount - 1
    BY DEF InRange
  <2>1. orderIndex[a] # orderIndex[b]
    BY <1>2
  <2> QED
    BY <1>1, <2>1
<1>4. Distinct'
  <2> SUFFICES ASSUME NEW b \in registered \ {a}, NEW c \in registered \ {a},
                      orderIndex'[b] = orderIndex'[c]
               PROVE  b = c
    BY DEF Distinct
  <2>1. orderIndex[a] # orderIndex[b] /\ orderIndex[a] # orderIndex[c]
    BY <1>2
  <2>2. orderIndex[b] = orderIndex[c]
    BY <1>1, <2>1
  <2> QED
    BY <2>2, <1>2
<1>5. NoGap'
  <2> SUFFICES ASSUME NEW i \in 0 .. assetCount - 2
               PROVE  \E b \in registered \ {a} : orderIndex'[b] = i
    BY DEF NoGap
  <2>1. i \in 0 .. assetCount - 1 /\ assetCount - 1 \in 0 .. assetCount - 1
    OBVIOUS
  <2>2. PICK last \in registered : orderIndex[last] = assetCount - 1
    BY <2>1 DEF Indexed, NoGap
  <2>3. PICK b \in registered : orderIndex[b] = i
    BY <2>1 DEF Indexed, NoGap
  <2>4. CASE b = a
    <3>1. last # a
      BY <2>2, <2>3, <2>4
    <3> QED
      BY <3>1, <2>2, <2>3, <2>4
  <2>5. CASE b # a
    <3>1. orderIndex[b] # assetCount - 1
      BY <2>3
    <3> QED
      BY <3>1, <2>3, <2>5
  <2> QED
    BY <2>4, <2>5
<1> QED
  BY <1>3, <1>4, <1>5 DEF Indexed

(* Both removals leave the indices as IndexWithout says.                       *)
LEMMA RemovalIndex ==
  ASSUME IInv, NEW a \in Mints,
         RemoveReserveAsset(a) \/ RemoveReserveAssetCompact(a)
  PROVE  /\ Deregister(a)
         /\ orderIndex' \in [Mints -> Nat]
         /\ \A b \in Mints \ registered' : orderIndex'[b] = 0
         /\ \A b \in registered \ {a} :
              orderIndex'[b] = IF orderIndex[b] = assetCount - 1
                               THEN orderIndex[a] ELSE orderIndex[b]
<1> USE DEF IInv
<1>1. Deregister(a) /\ a \in registered /\ registered' = registered \ {a}
  BY DEF RemoveReserveAsset, RemoveReserveAssetCompact, Deregister
<1>2. CASE RemoveReserveAsset(a)
  <2>1. /\ orderIndex[a] = assetCount - 1
        /\ orderIndex' = [orderIndex EXCEPT ![a] = 0]
    BY <1>2 DEF RemoveReserveAsset
  <2> QED
    BY <1>1, <2>1 DEF TypeOK, Indexed, Distinct
<1>3. CASE RemoveReserveAssetCompact(a)
  <2>1. orderIndex' = IndexWithout(a)
    BY <1>3 DEF RemoveReserveAssetCompact
  <2> QED
    BY <1>1, <2>1 DEF IndexWithout, TypeOK
<1> QED
  BY <1>2, <1>3

LEMMA RemovalPreserves ==
  ASSUME IInv, NEW a \in Mints,
         RemoveReserveAsset(a) \/ RemoveReserveAssetCompact(a)
  PROVE  IInv'
<1>1. /\ TypeOK' /\ assetCount \in Nat \ {0} /\ assetCount' = assetCount - 1
      /\ a \in registered /\ registered' = registered \ {a}
  BY RemovalIndex, DeregisterTypes
<1>2. Indexed'
  BY <1>1, RemovalIndex, CompactionKeepsIndices
<1> QED
  BY <1>1, <1>2 DEF IInv

(* Steps that neither add nor remove an asset.                                 *)
LEMMA MembershipKept ==
  ASSUME IInv, UNCHANGED <<assetCount, registered, orderIndex>>
  PROVE  Indexed'
BY DEF IInv, Indexed, InRange, Distinct, NoGap

LEMMA UpdateTargetsPreserves ==
  ASSUME IInv, NEW list \in Lists,
         NEW weights \in [1 .. assetCount -> Weights], UpdateTargets(list, weights)
  PROVE  IInv'
<1> USE DEF IInv
<1>1. /\ UNCHANGED <<status, assetCount, registered, orderIndex, funded>>
      /\ totalWeight' \in Weights
  BY DEF UpdateTargets, WeightsFit
<1>2. weight' = [a \in Mints |->
                  IF \E i \in 1 .. assetCount : list[i] = a
                  THEN weights[CHOOSE i \in 1 .. assetCount : list[i] = a]
                  ELSE weight[a]]
  BY DEF UpdateTargets
<1>3. weight' \in [Mints -> Weights]
  <2> SUFFICES ASSUME NEW a \in Mints PROVE weight'[a] \in Weights
    BY <1>2
  <2>1. CASE \E i \in 1 .. assetCount : list[i] = a
    BY <1>2, <2>1
  <2>2. CASE ~ \E i \in 1 .. assetCount : list[i] = a
    BY <1>2, <2>2 DEF TypeOK
  <2> QED
    BY <2>1, <2>2
<1>4. ASSUME NEW a \in Mints \ registered PROVE weight'[a] = 0
  <2>1. ~ \E i \in 1 .. assetCount : list[i] = a
    BY DEF UpdateTargets, Accepts
  <2> QED
    BY <1>2, <2>1 DEF TypeOK
<1>5. TypeOK'
  BY <1>1, <1>3, <1>4 DEF TypeOK
<1> QED
  BY <1>1, <1>5, MembershipKept

LEMMA SeedReservePreserves ==
  ASSUME IInv, NEW list \in Lists, SeedReserve(list)
  PROVE  IInv'
<1>1. UNCHANGED <<assetCount, totalWeight, registered, orderIndex, weight>>
  BY DEF SeedReserve
<1>2. TypeOK'
  BY <1>1 DEF SeedReserve, IInv, TypeOK
<1> QED
  BY <1>1, <1>2, MembershipKept DEF IInv

(* The list holds every asset, so closing leaves no account behind.            *)
LEMMA CloseReservePreserves ==
  ASSUME IInv, NEW list \in Lists, CloseReserve(list)
  PROVE  IInv' /\ assetCount' = 0
<1> USE DEF IInv
<1> DEFINE closed == {list[i] : i \in 1 .. assetCount}
<1>1. closed = registered
  <2>1. closed \subseteq registered
    BY DEF CloseReserve, Accepts
  <2>2. list = AccountList
    BY AcceptedList DEF CloseReserve
  <2>3. ASSUME NEW a \in registered PROVE a \in closed
    BY <2>2, ListFacts
  <2> QED
    BY <2>1, <2>3
<1>2. /\ status' = "Closed" /\ assetCount' = 0 /\ totalWeight' = 0
      /\ registered' = registered \ closed /\ funded' = funded
      /\ orderIndex' = [a \in Mints |-> IF a \in closed THEN 0 ELSE orderIndex[a]]
      /\ weight' = [a \in Mints |-> IF a \in closed THEN 0 ELSE weight[a]]
  BY DEF CloseReserve
<1>3. registered' = {} /\ funded' = {}
  <2>1. closed \cap funded = {}
    BY DEF CloseReserve
  <2> QED
    BY <1>1, <1>2, <2>1 DEF TypeOK
<1>4. 0 \in Weights /\ 0 \in Nat /\ 0 \in 0 .. MaxReserveAssets
  BY RegistryAssumption DEF Weights
<1>5. orderIndex' \in [Mints -> Nat] /\ weight' \in [Mints -> Weights]
  BY <1>2, <1>4 DEF TypeOK
<1>6. \A a \in Mints : orderIndex'[a] = 0 /\ weight'[a] = 0
  BY <1>1, <1>2 DEF TypeOK
<1>7. TypeOK'
  BY <1>2, <1>3, <1>4, <1>5, <1>6 DEF TypeOK
<1>8. Indexed'
  BY <1>2, <1>3 DEF Indexed, InRange, Distinct, NoGap
<1> QED
  BY <1>2, <1>7, <1>8

LEMMA OthersPreserve ==
  ASSUME IInv,
         \/ PauseReserve \/ UnpauseReserve \/ InitiateWindDown
         \/ \E a \in Mints : FillVault(a) \/ EmptyVault(a)
  PROVE  IInv' /\ UNCHANGED <<assetCount, registered, orderIndex>>
<1>1. UNCHANGED <<assetCount, totalWeight, registered, orderIndex, weight>>
  BY DEF PauseReserve, UnpauseReserve, InitiateWindDown, ChangeStatus, FillVault,
         EmptyVault
<1>2. status' \in {"Created", "AssetsInitializing", "Active", "Paused", "WindDown",
                   "Closed"}
  BY DEF PauseReserve, UnpauseReserve, InitiateWindDown, ChangeStatus, FillVault,
         EmptyVault, IInv, TypeOK
<1>3. funded' \in SUBSET registered
  BY DEF PauseReserve, UnpauseReserve, InitiateWindDown, ChangeStatus, FillVault,
         EmptyVault, IInv, TypeOK
<1>4. TypeOK'
  BY <1>1, <1>2, <1>3 DEF IInv, TypeOK
<1> QED
  BY <1>1, <1>4, MembershipKept DEF IInv

(* The actions, grouped by what they do to the account list.                   *)
LEMMA NextCases ==
  ASSUME Next
  PROVE  \/ \E a \in Mints, w \in Weights :
              Register(a, w) /\ status' \in {"AssetsInitializing", "Active"}
         \/ \E a \in Mints : RemoveReserveAsset(a) \/ RemoveReserveAssetCompact(a)
         \/ \E list \in Lists, weights \in [1 .. assetCount -> Weights] :
              UpdateTargets(list, weights)
         \/ \E list \in Lists : SeedReserve(list)
         \/ \E list \in Lists : CloseReserve(list)
         \/ \/ PauseReserve \/ UnpauseReserve \/ InitiateWindDown
            \/ \E a \in Mints : FillVault(a) \/ EmptyVault(a)
<1>1. \A a \in Mints, w \in Weights :
        InitializeReserveAsset(a, w) \/ AddReserveAssetActive(a, w)
          => Register(a, w) /\ status' \in {"AssetsInitializing", "Active"}
  BY DEF InitializeReserveAsset, AddReserveAssetActive
<1> QED
  BY <1>1, Zenon DEF Next

LEMMA NextPreserves == IInv /\ [Next]_vars => IInv'
<1> SUFFICES ASSUME IInv, [Next]_vars PROVE IInv'
  OBVIOUS
<1>1. CASE UNCHANGED vars
  BY <1>1, MembershipKept DEF vars, IInv, TypeOK
<1>2. CASE Next
  BY <1>2, NextCases, RegisterPreserves, RemovalPreserves, UpdateTargetsPreserves,
     SeedReservePreserves, CloseReservePreserves, OthersPreserve, Zenon
<1> QED
  BY <1>1, <1>2

LEMMA Invariance == Spec => []IInv
BY InitEstablishes, NextPreserves, PTL DEF Spec

(* The Reserve's figures and its accounts stay within their types.             *)
THEOREM RegistryTypeCorrect == Spec => []TypeOK
BY Invariance, PTL DEF IInv

(* Whatever was added and removed, exactly one account list is accepted.       *)
THEOREM OneListIsAccepted == Spec => []OneAccountList
BY Invariance, IndexedGivesOneList, PTL

-----------------------------------------------------------------------------
(* The total of the weights.                                                   *)
TInv == IInv /\ TotalExact

(* TotalExact, as a sum over the mints.                                        *)
ExactOverMints == TotalExact <=> totalWeight = SumFunctionOnSet(weight, Mints)

LEMMA TotalIsSum == IInv => ExactOverMints
BY SumOverDomain DEF ExactOverMints, TotalExact, IInv, TypeOK

LEMMA TotalIsSumNext == IInv' => ExactOverMints'
BY TotalIsSum, PTL

NatWeights == totalWeight \in Nat /\ \A a \in Mints : weight[a] \in Nat

LEMMA WeightsAreNats == IInv => NatWeights
BY RegistryAssumption DEF NatWeights, IInv, TypeOK, Weights

LEMMA WeightsAreNatsNext == IInv' => NatWeights'
BY WeightsAreNats, PTL

(* One weight changes, and the total by the difference.                        *)
LEMMA OneWeightChanges ==
  ASSUME TInv, IInv', NEW a \in Mints,
         \A b \in Mints \ {a} : weight'[b] = weight[b],
         totalWeight' = totalWeight - weight[a] + weight'[a]
  PROVE  TotalExact'
<1>1. IInv /\ IsFiniteSet(Mints)
  BY RegistryAssumption DEF TInv
<1>2. \A b \in Mints : weight[b] \in Int /\ weight'[b] \in Int
  BY <1>1, WeightsAreNats, WeightsAreNatsNext DEF NatWeights
<1>3. SumFunctionOnSet(weight', Mints)
        = SumFunctionOnSet(weight, Mints) - weight[a] + weight'[a]
  BY <1>1, <1>2, SumChangedAt
<1>4. totalWeight = SumFunctionOnSet(weight, Mints)
  BY <1>1, TotalIsSum DEF ExactOverMints, TInv
<1>5. totalWeight' = SumFunctionOnSet(weight', Mints)
  BY <1>3, <1>4
<1> QED
  BY <1>5, TotalIsSumNext DEF ExactOverMints

LEMMA RegisterKeepsTotal ==
  ASSUME TInv, IInv', NEW a \in Mints, NEW w \in Weights, Register(a, w)
  PROVE  TotalExact'
<1>1. /\ weight' = [weight EXCEPT ![a] = w] /\ totalWeight' = totalWeight + w
      /\ weight \in [Mints -> Weights] /\ weight[a] = 0
  BY DEF Register, TInv, IInv, TypeOK
<1>2. totalWeight \in Nat
  BY WeightsAreNats DEF NatWeights, TInv
<1>3. weight'[a] = w /\ \A b \in Mints \ {a} : weight'[b] = weight[b]
  BY <1>1
<1>4. totalWeight' = totalWeight - weight[a] + weight'[a]
  BY <1>1, <1>2, <1>3
<1> QED
  BY <1>3, <1>4, OneWeightChanges

LEMMA RemovalKeepsTotal ==
  ASSUME TInv, IInv', NEW a \in Mints,
         RemoveReserveAsset(a) \/ RemoveReserveAssetCompact(a)
  PROVE  TotalExact'
<1>1. Deregister(a)
  BY RemovalIndex DEF TInv
<1>2. /\ weight' = [weight EXCEPT ![a] = 0] /\ totalWeight' = totalWeight - weight[a]
      /\ weight \in [Mints -> Weights]
  BY <1>1 DEF Deregister, TotalWithout, TInv, IInv, TypeOK
<1>3. totalWeight \in Nat /\ weight[a] \in Nat
  BY WeightsAreNats DEF NatWeights, TInv
<1>4. weight'[a] = 0 /\ \A b \in Mints \ {a} : weight'[b] = weight[b]
  BY <1>2
<1>5. totalWeight' = totalWeight - weight[a] + weight'[a]
  BY <1>2, <1>3, <1>4
<1> QED
  BY <1>4, <1>5, OneWeightChanges

(* The accepted list numbers the registered assets, so the sum of the weights  *)
(* given by position is the sum of those written to the accounts.              *)
LEMMA UpdateTargetsKeepsTotal ==
  ASSUME TInv, IInv', NEW list \in Lists,
         NEW weights \in [1 .. assetCount -> Weights], UpdateTargets(list, weights)
  PROVE  TotalExact'
<1> DEFINE positions == 1 .. assetCount
<1>1. IInv /\ IsFiniteSet(Mints) /\ assetCount \in Nat
  BY RegistryAssumption DEF TInv, IInv, TypeOK
<1>2. list = AccountList /\ list \in [positions -> Mints]
  BY <1>1, AcceptedList DEF UpdateTargets, Lists
<1>3. \A i \in positions : list[i] \in registered /\ orderIndex[list[i]] = i - 1
  BY <1>1, <1>2, ListFacts
<1>4. \A i, j \in positions : list[i] = list[j] => i = j
  <2> SUFFICES ASSUME NEW i \in positions, NEW j \in positions, list[i] = list[j]
               PROVE  i = j
    OBVIOUS
  <2>1. i - 1 = j - 1
    BY <1>3
  <2> QED
    BY <2>1
<1>5. /\ totalWeight' = SumFunction(weights)
      /\ weight' = [a \in Mints |->
                     IF \E i \in positions : list[i] = a
                     THEN weights[CHOOSE i \in positions : list[i] = a]
                     ELSE weight[a]]
  BY DEF UpdateTargets
<1>6. \A i \in positions : weight'[list[i]] = weights[i]
  <2> SUFFICES ASSUME NEW i \in positions PROVE weight'[list[i]] = weights[i]
    OBVIOUS
  <2>1. list[i] \in Mints /\ \E j \in positions : list[j] = list[i]
    BY <1>2
  <2>2. (CHOOSE j \in positions : list[j] = list[i]) = i
    BY <2>1, <1>4
  <2> QED
    BY <1>5, <2>1, <2>2
<1>7. \A a \in Mints : weight'[a] \in Int
  BY WeightsAreNatsNext DEF NatWeights
<1>8. \A a \in Mints \ registered : weight'[a] = 0
  BY DEF IInv, TypeOK, UpdateTargets
<1>9. \A a \in registered : \E i \in positions : list[i] = a
  BY <1>1, <1>2, ListFacts
<1>10. IsFiniteSet(positions) /\ registered \in SUBSET Mints
  BY <1>1, FS_Interval DEF IInv, TypeOK
<1> HIDE DEF positions
<1>11. list \in Bijection(positions, registered)
  BY <1>2, <1>3, <1>4, <1>9 DEF Bijection, Injection, Surjection, IsInjective
<1>12. SumFunctionOnSet(weights, positions) = SumFunctionOnSet(weight', registered)
  <2>1. PICK w : w = weights
    OBVIOUS
  <2>2. \A i \in positions : weight'[list[i]] \in Int /\ w[i] = weight'[list[i]]
    BY <1>2, <1>6, <1>7, <2>1
  <2>3. SumFunctionOnSet(w, positions) = SumFunctionOnSet(weight', registered)
    BY <1>10, <1>11, <2>2, SumRenamed
  <2> QED
    BY <2>1, <2>3
<1>13. SumFunctionOnSet(weight', Mints) = SumFunctionOnSet(weight', registered)
  BY <1>1, <1>7, <1>8, <1>10, SumOfSubset
<1>14. SumFunction(weights) = SumFunctionOnSet(weights, positions)
  BY SumOverDomain DEF positions
<1>15. totalWeight' = SumFunctionOnSet(weight', Mints)
  BY <1>5, <1>12, <1>13, <1>14
<1> QED
  BY <1>15, TotalIsSumNext DEF ExactOverMints

LEMMA CloseReserveKeepsTotal ==
  ASSUME TInv, IInv', NEW list \in Lists, CloseReserve(list)
  PROVE  TotalExact'
<1>1. totalWeight' = 0 /\ assetCount' = 0
  BY DEF CloseReserve
<1>2. registered' = {}
  BY <1>1, RegistryAssumption DEF IInv, TypeOK, Indexed, InRange
<1>3. \A a \in Mints : weight'[a] = 0
  BY <1>2 DEF IInv, TypeOK
<1>4. SumFunctionOnSet(weight', Mints) = 0
  BY <1>3, RegistryAssumption, SumOfZeros
<1> QED
  BY <1>1, <1>4, TotalIsSumNext DEF ExactOverMints

LEMMA OthersKeepTotal ==
  ASSUME TInv, UNCHANGED <<totalWeight, weight>>
  PROVE  TotalExact'
BY DEF TInv, TotalExact

LEMMA TotalStep == TInv /\ IInv' /\ [Next]_vars => TInv'
<1> SUFFICES ASSUME TInv, IInv', [Next]_vars PROVE TotalExact'
  BY DEF TInv
<1>1. CASE UNCHANGED vars
  BY <1>1, OthersKeepTotal DEF vars
<1>2. CASE Next
  <2>1. \A list \in Lists : SeedReserve(list) => UNCHANGED <<totalWeight, weight>>
    BY DEF SeedReserve
  <2>2. (\/ PauseReserve \/ UnpauseReserve \/ InitiateWindDown
         \/ \E a \in Mints : FillVault(a) \/ EmptyVault(a))
          => UNCHANGED <<totalWeight, weight>>
    BY DEF PauseReserve, UnpauseReserve, InitiateWindDown, ChangeStatus, FillVault,
           EmptyVault
  <2> QED
    BY <1>2, <2>1, <2>2, NextCases, RegisterKeepsTotal, RemovalKeepsTotal,
       UpdateTargetsKeepsTotal, CloseReserveKeepsTotal, OthersKeepTotal, Zenon
<1> QED
  BY <1>1, <1>2

LEMMA InitTotal == Init => TInv
<1> SUFFICES ASSUME Init PROVE TInv
  OBVIOUS
<1>1. \A a \in Mints : weight[a] = 0
  BY DEF Init
<1>2. SumFunctionOnSet(weight, Mints) = 0
  BY <1>1, RegistryAssumption, SumOfZeros
<1> QED
  BY <1>2, InitEstablishes, TotalIsSum DEF ExactOverMints, Init, TInv

LEMMA TotalInvariance == Spec => []TInv
<1>1. TInv /\ IInv' /\ [Next]_vars => TInv'
  BY TotalStep
<1> QED
  BY <1>1, InitTotal, Invariance, PTL DEF Spec

(* The total the handlers check new weights against is the sum of the weights  *)
(* of the accounts, whatever was added, removed and retargeted.                *)
THEOREM TotalIsExact == Spec => []TotalExact
BY TotalInvariance, PTL DEF TInv

(* So the subtraction of a removed asset's weight never underflows: the        *)
(* checked_sub of the removals is a guard that cannot fail.                    *)
THEOREM RemovalNeverUnderflows ==
  Spec => [](\A a \in registered : weight[a] <= totalWeight)
<1>1. TInv => \A a \in registered : weight[a] <= totalWeight
  <2> SUFFICES ASSUME TInv, NEW a \in registered PROVE weight[a] <= totalWeight
    OBVIOUS
  <2>1. IInv /\ a \in Mints /\ \A b \in Mints : weight[b] \in Nat
    BY WeightsAreNats DEF NatWeights, TInv, IInv, TypeOK
  <2>2. weight[a] <= SumFunctionOnSet(weight, Mints)
    BY <2>1, RegistryAssumption, SumIsNat
  <2> QED
    BY <2>1, <2>2, TotalIsSum DEF ExactOverMints, TInv
<1> QED
  BY <1>1, TotalInvariance, PTL

-----------------------------------------------------------------------------
(* AssetRegistry implements AssetList: initial states map to initial states    *)
(* and every step maps to a step of the list or leaves it as it is.            *)

LEMMA ListOccurs == ASSUME IInv, NEW a
  PROVE  /\ Len(AccountList) = assetCount
         /\ AsList!Occurs(a) <=> a \in registered
<1>1. assetCount \in Nat
  BY RegistryAssumption DEF IInv, TypeOK
<1>2. AccountList \in [1 .. assetCount -> Mints]
  BY ListFacts DEF Lists
<1>3. Len(AccountList) = assetCount
  BY <1>1, <1>2
<1> QED
  BY <1>3, ListFacts DEF AsList!Occurs

LEMMA InitRefines == Init => AsList!Init
<1> SUFFICES ASSUME Init PROVE AccountList = << >>
  BY DEF AsList!Init
<1>1. assetCount = 0
  BY DEF Init
<1> QED
  BY <1>1 DEF AccountList

(* The list changes only when the indices, the count or the accounts do.       *)
LEMMA ListKept ==
  ASSUME UNCHANGED <<assetCount, registered, orderIndex>>
  PROVE  AccountList' = AccountList
BY DEF AccountList

(* ListFacts holds of the next state as well.                                  *)
LEMMA ListFactsNow == IInv => ListIsIndexed
BY ListFacts DEF ListIsIndexed

LEMMA ListFactsNext == IInv' => ListIsIndexed'
BY ListFactsNow, PTL

LEMMA AppendIsFunction ==
  ASSUME NEW n \in Nat, NEW T, NEW f \in [1 .. n -> T], NEW x \in T
  PROVE  /\ Append(f, x) \in [1 .. n + 1 -> T]
         /\ Append(f, x)[n + 1] = x
         /\ \A i \in 1 .. n : Append(f, x)[i] = f[i]
<1>1. f \in Seq(T) /\ Len(f) = n
  OBVIOUS
<1>2. /\ Append(f, x) \in Seq(T) /\ Len(Append(f, x)) = n + 1
      /\ Append(f, x)[n + 1] = x
      /\ \A i \in 1 .. n : Append(f, x)[i] = f[i]
  BY <1>1, AppendProperties
<1>3. Append(f, x) \in [1 .. n + 1 -> T]
  BY <1>2, LenProperties
<1> QED
  BY <1>2, <1>3

LEMMA RegisterRefines ==
  ASSUME IInv, IInv', NEW a \in Mints, NEW w \in Weights, Register(a, w)
  PROVE  AsList!Add(a)
<1>1. /\ assetCount \in Nat /\ assetCount < MaxReserveAssets
      /\ assetCount' = assetCount + 1
      /\ a \notin registered /\ registered' = registered \cup {a}
      /\ orderIndex' = [orderIndex EXCEPT ![a] = assetCount]
  BY RegistryAssumption DEF Register, RoomFor, NextIndex, IInv, TypeOK
<1>2. ~AsList!Occurs(a) /\ Len(AccountList) = assetCount
  BY <1>1, ListOccurs
<1>3. AccountList \in [1 .. assetCount -> Mints]
  BY ListFacts DEF Lists
<1>4. AccountList' \in [1 .. assetCount + 1 -> Mints]
  BY <1>1, ListFactsNext DEF ListIsIndexed, Lists
<1>5. Append(AccountList, a) \in [1 .. assetCount + 1 -> Mints]
  BY <1>1, <1>3, AppendIsFunction
<1>6. ASSUME NEW i \in 1 .. assetCount + 1
      PROVE  AccountList'[i] = Append(AccountList, a)[i]
  <2>1. CASE i = assetCount + 1
    <3>1. orderIndex'[a] = assetCount /\ a \in registered'
      BY <1>1 DEF IInv, TypeOK
    <3>2. AccountList'[orderIndex'[a] + 1] = a
      BY <3>1, ListFactsNext DEF ListIsIndexed
    <3> QED
      BY <2>1, <3>1, <3>2, <1>1, <1>3, AppendIsFunction
  <2>2. CASE i # assetCount + 1
    <3>1. i \in 1 .. assetCount
      BY <2>2, <1>1
    <3> DEFINE b == AccountList[i]
    <3>2. b \in registered /\ orderIndex[b] = i - 1
      BY <3>1, ListFacts
    <3>3. b \in registered' /\ orderIndex'[b] = i - 1
      BY <3>2, <1>1 DEF IInv, TypeOK
    <3>4. AccountList'[orderIndex'[b] + 1] = b
      BY <3>3, ListFactsNext DEF ListIsIndexed
    <3>5. AccountList'[i] = b
      BY <3>1, <3>3, <3>4, <1>1
    <3>6. Append(AccountList, a)[i] = b
      BY <3>1, <1>1, <1>3, AppendIsFunction
    <3> QED
      BY <3>5, <3>6
  <2> QED
    BY <2>1, <2>2
<1>7. AccountList' = [i \in 1 .. assetCount + 1 |-> AccountList'[i]]
  BY <1>4
<1>8. Append(AccountList, a) = [i \in 1 .. assetCount + 1 |-> Append(AccountList, a)[i]]
  BY <1>5
<1>9. AccountList' = Append(AccountList, a)
  BY <1>6, <1>7, <1>8, Zenon
<1> QED
  BY <1>1, <1>2, <1>9 DEF AsList!Add

LEMMA RemovalRefines ==
  ASSUME IInv, IInv', NEW a \in Mints,
         RemoveReserveAsset(a) \/ RemoveReserveAssetCompact(a)
  PROVE  \E i \in 1 .. Len(AccountList) : AsList!Remove(i)
<1> DEFINE k == orderIndex[a] + 1
           after == [j \in 1 .. Len(AccountList) - 1 |->
                       IF j = k THEN AccountList[Len(AccountList)]
                                ELSE AccountList[j]]
<1>1. /\ assetCount \in Nat \ {0} /\ assetCount' = assetCount - 1
      /\ a \in registered /\ registered' = registered \ {a}
  BY RemovalIndex, DeregisterTypes
<1>2. \A b \in registered \ {a} :
        orderIndex'[b] = IF orderIndex[b] = assetCount - 1
                         THEN orderIndex[a] ELSE orderIndex[b]
  BY RemovalIndex
<1>3. Len(AccountList) = assetCount
  BY ListOccurs
<1>4. k \in 1 .. assetCount /\ AccountList[k] = a
  BY <1>1, ListFacts
<1>5. AccountList \in [1 .. assetCount -> Mints]
  BY ListFacts DEF Lists
<1>6. AccountList' \in [1 .. assetCount - 1 -> Mints]
  BY <1>1, ListFactsNext DEF ListIsIndexed, Lists
<1>7. after \in [1 .. assetCount - 1 -> Mints]
  BY <1>1, <1>3, <1>5
<1>8. ASSUME NEW j \in 1 .. assetCount - 1
      PROVE  AccountList'[j] = after[j]
  <2> DEFINE b == after[j]
  <2>1. b \in registered \ {a} /\ orderIndex'[b] = j - 1
    <3>1. CASE j = k
      <4>1. b = AccountList[assetCount]
        BY <3>1, <1>3
      <4>2. b \in registered /\ orderIndex[b] = assetCount - 1
        BY <4>1, <1>1, ListFacts
      <4>3. orderIndex[a] = j - 1
        BY <3>1, <1>1 DEF IInv, TypeOK
      <4>4. b # a
        BY <4>2, <4>3, <1>1
      <4> QED
        BY <4>2, <4>3, <4>4, <1>2
    <3>2. CASE j # k
      <4>1. b = AccountList[j] /\ j \in 1 .. assetCount
        BY <3>2, <1>1, <1>3
      <4>2. b \in registered /\ orderIndex[b] = j - 1
        BY <4>1, ListFacts
      <4>3. b # a
        BY <4>2, <3>2
      <4> QED
        BY <4>2, <4>3, <1>1, <1>2
    <3> QED
      BY <3>1, <3>2
  <2> HIDE DEF b
  <2>2. AccountList'[orderIndex'[b] + 1] = b
    BY <2>1, <1>1, ListFactsNext DEF ListIsIndexed
  <2>3. orderIndex'[b] + 1 = j
    BY <2>1
  <2> QED
    BY <2>2, <2>3 DEF b
<1>9. AccountList' = after
  BY <1>6, <1>7, <1>8, SameFunction
<1>10. AsList!Remove(k)
  BY <1>9 DEF AsList!Remove
<1> QED
  BY <1>3, <1>4, <1>10

LEMMA StepRefines ==
  IInv /\ IInv' /\ [Next]_vars => [AsList!Next]_AccountList
<1> SUFFICES ASSUME IInv, IInv', [Next]_vars
             PROVE  AsList!Next \/ AccountList' = AccountList
  OBVIOUS
<1>1. CASE UNCHANGED vars
  BY <1>1, ListKept DEF vars
<1>2. CASE Next
  <2>1. ASSUME NEW a \in Mints, NEW w \in Weights, Register(a, w)
        PROVE  AsList!Next
    BY <2>1, RegisterRefines DEF AsList!Next
  <2>2. ASSUME NEW a \in Mints,
               RemoveReserveAsset(a) \/ RemoveReserveAssetCompact(a)
        PROVE  AsList!Next
    BY <2>2, RemovalRefines DEF AsList!Next
  <2>3. ASSUME NEW list \in Lists, NEW weights \in [1 .. assetCount -> Weights],
               UpdateTargets(list, weights)
        PROVE  AccountList' = AccountList
    BY <2>3, ListKept DEF UpdateTargets
  <2>4. ASSUME NEW list \in Lists, SeedReserve(list)
        PROVE  AccountList' = AccountList
    BY <2>4, ListKept DEF SeedReserve
  <2>5. ASSUME NEW list \in Lists, CloseReserve(list)
        PROVE  AsList!Next
    <3>1. assetCount' = 0
      BY <2>5, CloseReservePreserves
    <3>2. AccountList' = << >>
      BY <3>1 DEF AccountList
    <3> QED
      BY <3>2 DEF AsList!Next, AsList!Close
  <2>6. ASSUME \/ PauseReserve \/ UnpauseReserve \/ InitiateWindDown
               \/ \E a \in Mints : FillVault(a) \/ EmptyVault(a)
        PROVE  AccountList' = AccountList
    BY <2>6, OthersPreserve, ListKept
  <2> QED
    BY <1>2, NextCases, <2>1, <2>2, <2>3, <2>4, <2>5, <2>6, Zenon
<1> QED
  BY <1>1, <1>2

(* The account list changes only by appending one asset, by removing one with  *)
(* the last taking its place, or by closing.                                   *)
THEOREM RegistryImplementsList == Spec => ListImplemented
<1>1. Init => AsList!Init
  BY InitRefines
<1>2. IInv /\ IInv' /\ [Next]_vars => [AsList!Next]_AccountList
  BY StepRefines
<1> QED
  BY <1>1, <1>2, Invariance, PTL DEF Spec, ListImplemented, AsList!Spec
=============================================================================
