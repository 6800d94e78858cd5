------------------------ MODULE FeeSettlement_proofs ------------------------
(* Fee settlement for any number of Reserves and assets: whatever the keeper's *)
(* runs lose, repeat or leave half-done, the counters and balances stay        *)
(* amounts, and all that fee shares were redeemed for is in custody or was     *)
(* paid out, once.  The second needs sums over Reserves and assets: their laws *)
(* are those at the end of FeeMath_proofs.                                     *)
EXTENDS FeeSettlement, FeeMath_proofs

(* TypeOK in two parts, and what it leaves open: the run's later steps have a  *)
(* Reserve, and a swap that follows a transfer has an asset.                   *)
ChainOK ==
  /\ basket \in [Reserves -> SUBSET Assets]
  /\ inVault \in [Reserves -> [protocol : Nat, manager : Nat]]
  /\ pending \in [Reserves -> [protocol : Nat, manager : Nat]]
  /\ staged \in [Reserves -> [Legs -> Nat]]
  /\ usdc \in [Reserves -> [Reserves -> Nat]]
  /\ keeperAta \in [Legs -> [Reserves -> Nat]]
  /\ paid \in [Reserves -> Nat]

Visits == [reserve : Reserves \cup {NoReserve}, ordered : SUBSET Assets,
           staged : [Legs -> Nat], held : [Legs -> Nat],
           legs : SUBSET Legs, selling : Legs \cup {NoAsset}]

RunOK ==
  /\ at \in {"idle", "next", "redeem", "read", "leg", "swap"}
  /\ todo \subseteq Reserves /\ vaultSeen \in [Reserves -> Nat]
  /\ visit \in Visits
  /\ at \in {"redeem", "read", "leg", "swap"} => visit.reserve \in Reserves
  /\ at = "swap" => visit.selling \in Legs
  /\ credited \in 0 .. MaxShares /\ faults \in 0 .. MaxFaults

IInv == ChainOK /\ RunOK

LEMMA InvariantTypes == IInv => TypeOK
BY DEF IInv, ChainOK, RunOK, Visits, TypeOK

(* What a step may do to the chain, whoever takes it.                          *)
ChainStep ==
  \/ UNCHANGED chain
  \/ \E r \in Reserves, n \in Nat :
       CanRedeem(r, n, basket[r]) /\ RedeemFeeVaultShares(r, n)
  \/ \E r \in Reserves, a \in Legs, n \in Nat :
       CanMove(r, a, n) /\ ApproveAndMove(r, a, n)
  \/ \E r \in Reserves, a \in Legs, n \in Nat :
       (n > 0 => CanMove(r, a, n)) /\ Swap(r, a, n)
  \/ \E r \in Reserves : DistributeFeeUsdc(r)
  \/ \E r \in Reserves, part \in {Split(1, 0), Split(0, 1)} :
       /\ inVault' = [inVault EXCEPT ![r] = Plus(@, part)]
       /\ UNCHANGED <<basket, pending, staged, usdc, keeperAta, paid>>
  \/ \E r \in Reserves, a \in Assets :
       /\ basket' = [basket EXCEPT ![r] = @ \ {a}]
       /\ UNCHANGED <<inVault, pending, staged, usdc, keeperAta, paid>>

-----------------------------------------------------------------------------
(* Sums of balances are balances.                                              *)
LEMMA FiniteIndices == IsFiniteSet(Reserves) /\ IsFiniteSet(Legs)
<1>1. Legs \in SUBSET Assets
  BY DEF Legs
<1> QED
  BY <1>1, SettlementAssumption, FS_Subset

LEMMA SumOfBalances == ASSUME NEW S, IsFiniteSet(S), NEW f \in [S -> Nat]
  PROVE  SumFunction(f) \in Nat
<1>1. PICK g : g = f
  OBVIOUS
<1>2. SumFunctionOnSet(g, S) \in Nat
  BY <1>1, SumIsNat
<1>3. SumFunction(g) = SumFunctionOnSet(g, S)
  BY <1>1, SumOverDomain
<1> QED
  BY <1>1, <1>2, <1>3

LEMMA HeldIsNat == ASSUME ChainOK, NEW a \in Legs
  PROVE  Held(a) \in Nat
BY FiniteIndices, SumOfBalances DEF ChainOK, Held

LEMMA UsdcStagedIsNat == ASSUME ChainOK, NEW r \in Reserves
  PROVE  UsdcStaged(r) \in Nat
BY FiniteIndices, SumOfBalances DEF ChainOK, UsdcStaged

-----------------------------------------------------------------------------
(* The balances and counters stay amounts.                                     *)

LEMMA RedeemKeepsTypes ==
  ASSUME ChainOK, NEW r \in Reserves, NEW n \in Nat,
         CanRedeem(r, n, basket[r]), RedeemFeeVaultShares(r, n)
  PROVE  ChainOK'
<1> DEFINE counters == inVault[r]
           part == SplitByWeight(n, counters.protocol, counters.manager)
<1>1. /\ counters.protocol \in Nat /\ counters.manager \in Nat
      /\ n <= counters.protocol + counters.manager
  BY DEF ChainOK, CanRedeem, Total
<1>2. /\ part \in [protocol : Nat, manager : Nat]
      /\ part.protocol <= counters.protocol /\ part.manager <= counters.manager
  <2> HIDE DEF counters
  <2> QED BY <1>1, WeightSplit
<1>3. Less(counters, part) \in [protocol : Nat, manager : Nat]
  <2>1. /\ part.protocol \in Nat /\ part.manager \in Nat
    BY <1>2
  <2> HIDE DEF counters, part
  <2> QED BY <1>1, <1>2, <2>1 DEF Less, Split
<1>4. Plus(pending[r], part) \in [protocol : Nat, manager : Nat]
  <2>1. pending[r].protocol \in Nat /\ pending[r].manager \in Nat
    BY DEF ChainOK
  <2>2. /\ part.protocol \in Nat /\ part.manager \in Nat
    BY <1>2
  <2> HIDE DEF part
  <2> QED BY <2>1, <2>2 DEF Plus, Split
<1>5. /\ inVault' = [inVault EXCEPT ![r] = Less(counters, part)]
      /\ pending' = [pending EXCEPT ![r] = Plus(pending[r], part)]
      /\ staged' = [staged EXCEPT ![r] = [a \in Legs |->
                      IF a \in basket[r] THEN staged[r][a] + n ELSE staged[r][a]]]
      /\ usdc' = IF Usdc \in basket[r] THEN [usdc EXCEPT ![r][r] = @ + n] ELSE usdc
      /\ UNCHANGED <<basket, keeperAta, paid>>
  BY DEF RedeemFeeVaultShares, ChainOK
<1> HIDE DEF counters, part
<1>6. /\ inVault' \in [Reserves -> [protocol : Nat, manager : Nat]]
      /\ pending' \in [Reserves -> [protocol : Nat, manager : Nat]]
  BY <1>3, <1>4, <1>5 DEF ChainOK
<1>7. staged' \in [Reserves -> [Legs -> Nat]]
  BY <1>5 DEF ChainOK
<1>8. usdc' \in [Reserves -> [Reserves -> Nat]]
  BY <1>5 DEF ChainOK
<1> QED
  BY <1>5, <1>6, <1>7, <1>8 DEF ChainOK

LEMMA MoveKeepsTypes ==
  ASSUME ChainOK, NEW r \in Reserves, NEW a \in Legs, NEW n \in Nat,
         CanMove(r, a, n), ApproveAndMove(r, a, n)
  PROVE  ChainOK'
<1>1. staged' \in [Reserves -> [Legs -> Nat]]
  <2>1. staged[r][a] - n \in Nat
    BY DEF ChainOK, CanMove
  <2> QED
    BY <2>1 DEF ChainOK, ApproveAndMove
<1>2. keeperAta' \in [Legs -> [Reserves -> Nat]]
  BY DEF ChainOK, ApproveAndMove
<1> QED
  BY <1>1, <1>2 DEF ChainOK, ApproveAndMove

LEMMA SwapKeepsTypes ==
  ASSUME ChainOK, NEW r \in Reserves, NEW a \in Legs, NEW n \in Nat,
         n > 0 => CanMove(r, a, n), Swap(r, a, n)
  PROVE  ChainOK'
<1>1. staged' \in [Reserves -> [Legs -> Nat]]
  <2>1. staged[r][a] \in Nat /\ staged[r][a] - n \in Nat
    BY DEF ChainOK, CanMove
  <2> QED
    BY <2>1 DEF ChainOK, Swap
<1>2. keeperAta' \in [Legs -> [Reserves -> Nat]]
  BY DEF ChainOK, Swap
<1>3. usdc' \in [Reserves -> [Reserves -> Nat]]
  <2>1. \A o \in Reserves :
          usdc[r][o] + keeperAta[a][o] + (IF o = r THEN n ELSE 0) \in Nat
    BY DEF ChainOK
  <2> QED
    BY <2>1 DEF ChainOK, Swap
<1> QED
  BY <1>1, <1>2, <1>3 DEF ChainOK, Swap

LEMMA DistributeKeepsTypes ==
  ASSUME ChainOK, NEW r \in Reserves, DistributeFeeUsdc(r)
  PROVE  ChainOK'
<1>1. CASE UsdcStaged(r) = 0
  BY <1>1 DEF DistributeFeeUsdc, chain, ChainOK
<1>2. CASE UsdcStaged(r) # 0
  <2>1. \/ /\ paid' = [o \in Reserves |-> paid[o] + usdc[r][o]]
           /\ usdc' = [usdc EXCEPT ![r] = [o \in Reserves |-> 0]]
        \/ UNCHANGED <<paid, usdc>>
    BY <1>2, Zenon DEF DistributeFeeUsdc
  <2>2. /\ pending' = [pending EXCEPT ![r] = Split(0, 0)]
        /\ UNCHANGED <<basket, inVault, staged, keeperAta>>
    BY <1>2, Zenon DEF DistributeFeeUsdc
  <2>3. pending' \in [Reserves -> [protocol : Nat, manager : Nat]]
    BY <2>2 DEF ChainOK, Split
  <2>4. paid' \in [Reserves -> Nat]
    <3>1. \A o \in Reserves : paid[o] + usdc[r][o] \in Nat
      BY DEF ChainOK
    <3> QED
      BY <2>1, <3>1 DEF ChainOK
  <2>5. usdc' \in [Reserves -> [Reserves -> Nat]]
    <3>1. [o \in Reserves |-> 0] \in [Reserves -> Nat]
      OBVIOUS
    <3> QED
      BY <2>1, <3>1 DEF ChainOK
  <2> QED
    BY <2>2, <2>3, <2>4, <2>5 DEF ChainOK
<1> QED
  BY <1>1, <1>2

LEMMA ChainTypes == ASSUME ChainOK, ChainStep PROVE ChainOK'
<1>1. CASE UNCHANGED chain
  BY <1>1 DEF chain, ChainOK
<1>2. ASSUME NEW r \in Reserves, NEW part \in {Split(1, 0), Split(0, 1)},
             inVault' = [inVault EXCEPT ![r] = Plus(@, part)],
             UNCHANGED <<basket, pending, staged, usdc, keeperAta, paid>>
      PROVE  ChainOK'
  <2>1. Plus(inVault[r], part) \in [protocol : Nat, manager : Nat]
    BY DEF ChainOK, Plus, Split
  <2> QED
    BY <1>2, <2>1 DEF ChainOK
<1>3. ASSUME NEW r \in Reserves, NEW a \in Assets,
             basket' = [basket EXCEPT ![r] = @ \ {a}],
             UNCHANGED <<inVault, pending, staged, usdc, keeperAta, paid>>
      PROVE  ChainOK'
  BY <1>3 DEF ChainOK
<1> QED
  BY <1>1, <1>2, <1>3, RedeemKeepsTypes, MoveKeepsTypes, SwapKeepsTypes,
     DistributeKeepsTypes, Zenon DEF ChainStep

-----------------------------------------------------------------------------
(* Every action takes a step of the chain and leaves the run as it should be.  *)
StepOK == ChainStep /\ RunOK'

LEMMA NoVisitTypes == NoVisit \in Visits
BY DEF NoVisit, Visits, None

LEMMA StartRunStep == ASSUME IInv, StartRun PROVE StepOK
<1>1. \A r \in Reserves : Total(inVault[r]) \in Nat
  BY DEF IInv, ChainOK, Total
<1>2. vaultSeen' \in [Reserves -> Nat]
  BY <1>1 DEF StartRun
<1> QED
  BY <1>2 DEF StartRun, StepOK, ChainStep, IInv, RunOK

LEMMA EndRunStep == ASSUME IInv, EndRun PROVE StepOK
BY DEF EndRun, StepOK, ChainStep, IInv, RunOK

LEMMA StopRunStep == ASSUME IInv, StopRun PROVE StepOK
BY NoVisitTypes, SettlementAssumption
   DEF StopRun, Fault, Go, StepOK, ChainStep, IInv, RunOK

LEMMA BeginVisitStep ==
  ASSUME IInv, NEW r \in Reserves, BeginVisit(r)
  PROVE  StepOK
<1>1. visit' \in Visits /\ visit'.reserve = r
  <2>1. basket[r] \in SUBSET Assets
    BY DEF IInv, ChainOK
  <2> QED
    BY <2>1 DEF BeginVisit, Go, NoVisit, None, Visits
<1> QED
  BY <1>1 DEF BeginVisit, Go, StepOK, ChainStep, IInv, RunOK

LEMMA RedeemStepStep == ASSUME IInv, RedeemStep PROVE StepOK
<1> DEFINE r == visit.reserve
           n == vaultSeen[r]
<1>1. r \in Reserves /\ n \in Nat
  BY DEF RedeemStep, IInv, RunOK
<1>2. /\ \/ UNCHANGED chain
         \/ CanRedeem(r, n, visit.ordered) /\ RedeemFeeVaultShares(r, n)
      /\ Go("read", visit) \/ Go("next", NoVisit)
      /\ faults' \in 0 .. MaxFaults
  BY SettlementAssumption DEF RedeemStep, Send, Fault, IInv, RunOK
<1>3. ChainStep
  <2>1. CanRedeem(r, n, visit.ordered) => CanRedeem(r, n, basket[r])
    BY DEF CanRedeem
  <2> HIDE DEF r, n
  <2> QED
    BY <1>1, <1>2, <2>1 DEF ChainStep
<1>4. UNCHANGED <<todo, vaultSeen, credited>>
  BY DEF RedeemStep
<1>5. RunOK'
  <2>1. CASE Go("read", visit)
    BY <1>1, <1>2, <1>4, <2>1 DEF Go, IInv, RunOK
  <2>2. CASE Go("next", NoVisit)
    BY <1>2, <1>4, <2>2, NoVisitTypes DEF Go, IInv, RunOK
  <2> QED
    BY <1>2, <2>1, <2>2
<1> QED
  BY <1>3, <1>5 DEF StepOK

LEMMA ReadBalancesStep == ASSUME IInv, ReadBalances PROVE StepOK
<1> DEFINE r == visit.reserve
           s == [a \in Legs |-> IF a \in visit.ordered THEN staged[r][a] ELSE 0]
           h == [a \in Legs |-> IF a \in visit.ordered THEN Held(a) ELSE 0]
           l == {a \in Legs : ToSwap(s[a], h[a]) > 0}
<1>1. r \in Reserves /\ visit \in Visits
  BY DEF ReadBalances, IInv, RunOK
<1>2. s \in [Legs -> Nat]
  BY <1>1 DEF IInv, ChainOK
<1>3. h \in [Legs -> Nat]
  BY HeldIsNat DEF IInv
<1>4. l \in SUBSET Legs
  OBVIOUS
<1>5. Go("leg", [visit EXCEPT !.staged = s, !.held = h, !.legs = l])
  BY DEF ReadBalances
<1> HIDE DEF s, h, l
<1>6. visit' \in Visits /\ visit'.reserve = visit.reserve /\ at' = "leg"
  BY <1>1, <1>2, <1>3, <1>4, <1>5 DEF Go, Visits
<1>7. UNCHANGED <<chain, todo, vaultSeen, credited, faults>>
  BY DEF ReadBalances
<1> QED
  BY <1>1, <1>6, <1>7 DEF StepOK, ChainStep, IInv, RunOK

(* The end of a leg.                                                           *)
LEMMA LegEnds ==
  ASSUME IInv, NEW a \in Legs, at \in {"leg", "swap"}, Go("leg", Done(a)),
         UNCHANGED <<todo, vaultSeen, credited>>, faults' \in 0 .. MaxFaults
  PROVE  RunOK'
<1>1. visit \in Visits /\ visit.reserve \in Reserves
  BY DEF IInv, RunOK
<1>2. Done(a) \in Visits /\ Done(a).reserve = visit.reserve
  BY <1>1 DEF Done, Visits
<1> QED
  BY <1>1, <1>2 DEF Go, IInv, RunOK

LEMMA SkipLegStep == ASSUME IInv, NEW a \in Legs, SkipLeg(a) PROVE StepOK
<1>1. /\ at = "leg" /\ Go("leg", Done(a)) /\ UNCHANGED chain
      /\ UNCHANGED <<todo, vaultSeen, credited>> /\ faults' \in 0 .. MaxFaults
  BY SettlementAssumption DEF SkipLeg, Fault, IInv, RunOK
<1> QED
  BY <1>1, LegEnds DEF StepOK, ChainStep

LEMMA SwapLegStep == ASSUME IInv, NEW a \in Legs, SwapLeg(a) PROVE StepOK
<1> DEFINE r == visit.reserve
           n == visit.staged[a]
<1>1. r \in Reserves /\ n \in Nat
  BY DEF SwapLeg, IInv, RunOK, Visits
<1>2. /\ at = "leg" /\ Go("leg", Done(a)) /\ UNCHANGED <<todo, vaultSeen, credited>>
      /\ faults' \in 0 .. MaxFaults
      /\ \/ UNCHANGED chain
         \/ (n > 0 => CanMove(r, a, n)) /\ Swap(r, a, n)
  BY SettlementAssumption DEF SwapLeg, Send, Fault, IInv, RunOK
<1> HIDE DEF r, n
<1>3. ChainStep
  BY <1>1, <1>2 DEF ChainStep
<1> QED
  BY <1>2, <1>3, LegEnds DEF StepOK

LEMMA MoveLegStep == ASSUME IInv, NEW a \in Legs, MoveLeg(a) PROVE StepOK
<1> DEFINE r == visit.reserve
           n == visit.staged[a]
<1>1. r \in Reserves /\ n \in Nat /\ visit \in Visits
  BY DEF MoveLeg, IInv, RunOK, Visits
<1>2. /\ at = "leg" /\ UNCHANGED <<todo, vaultSeen, credited>>
      /\ Go("leg", Done(a)) \/ Go("swap", [visit EXCEPT !.selling = a])
      /\ faults' \in 0 .. MaxFaults
      /\ \/ UNCHANGED chain
         \/ CanMove(r, a, n) /\ ApproveAndMove(r, a, n)
  BY SettlementAssumption DEF MoveLeg, Send, Fault, IInv, RunOK
<1>3. ChainStep
  <2> HIDE DEF r, n
  <2> QED BY <1>1, <1>2 DEF ChainStep
<1>4. RunOK'
  <2>1. CASE Go("swap", [visit EXCEPT !.selling = a])
    <3>1. /\ visit' \in Visits /\ visit'.reserve = visit.reserve
          /\ visit'.selling = a /\ at' = "swap"
      BY <1>1, <2>1 DEF Go, Visits
    <3> QED
      BY <1>1, <1>2, <3>1 DEF IInv, RunOK
  <2> QED
    BY <1>2, <2>1, LegEnds
<1> QED
  BY <1>3, <1>4 DEF StepOK

LEMMA SwapMovedLegStep == ASSUME IInv, SwapMovedLeg PROVE StepOK
<1> DEFINE r == visit.reserve
           a == visit.selling
<1>1. r \in Reserves /\ a \in Legs
  BY DEF SwapMovedLeg, IInv, RunOK
<1>2. /\ at = "swap" /\ Go("leg", Done(a)) /\ UNCHANGED <<todo, vaultSeen, credited>>
      /\ faults' \in 0 .. MaxFaults
      /\ UNCHANGED chain \/ Swap(r, a, 0)
  BY SettlementAssumption DEF SwapMovedLeg, Send, Fault, IInv, RunOK
<1> HIDE DEF r, a
<1>3. ChainStep
  <2>1. 0 \in Nat /\ ~ (0 > 0)
    OBVIOUS
  <2> QED
    BY <1>1, <1>2, <2>1 DEF ChainStep
<1> QED
  BY <1>1, <1>2, <1>3, LegEnds DEF StepOK

LEMMA DistributeStepStep == ASSUME IInv, DistributeStep PROVE StepOK
<1> DEFINE r == visit.reserve
<1>1. r \in Reserves
  BY DEF DistributeStep, IInv, RunOK
<1>2. /\ Go("next", NoVisit) /\ UNCHANGED <<todo, vaultSeen, credited>>
      /\ faults' \in 0 .. MaxFaults
      /\ UNCHANGED chain \/ DistributeFeeUsdc(r)
  BY SettlementAssumption DEF DistributeStep, Send, Fault, IInv, RunOK
<1> HIDE DEF r
<1>3. ChainStep
  BY <1>1, <1>2 DEF ChainStep
<1> QED
  BY <1>2, <1>3, NoVisitTypes DEF StepOK, Go, IInv, RunOK

LEMMA EveryoneStep == ASSUME IInv, Everyone PROVE StepOK
<1>1. PICK r \in Reserves :
        \/ \E part \in {Split(1, 0), Split(0, 1)} : CreditFees(r, part)
        \/ \E n \in 1 .. MaxShares : RedeemByAnyone(r, n)
        \/ DistributeByAnyone(r)
        \/ \E a \in Assets : RemoveReserveAsset(r, a)
  BY Zenon DEF Everyone
<1>2. ASSUME NEW part \in {Split(1, 0), Split(0, 1)}, CreditFees(r, part)
      PROVE  StepOK
  <2>1. /\ inVault' = [inVault EXCEPT ![r] = Plus(@, part)]
        /\ UNCHANGED <<basket, pending, staged, usdc, keeperAta, paid>>
    BY <1>2 DEF CreditFees
  <2>2. ChainStep
    BY <2>1, Zenon DEF ChainStep
  <2>3. RunOK'
    BY <1>2, SettlementAssumption DEF CreditFees, run, IInv, RunOK
  <2> QED
    BY <2>2, <2>3 DEF StepOK
<1>3. ASSUME NEW n \in 1 .. MaxShares, RedeemByAnyone(r, n)
      PROVE  StepOK
  <2>1. n \in Nat /\ CanRedeem(r, n, basket[r]) /\ RedeemFeeVaultShares(r, n)
    BY <1>3, SettlementAssumption DEF RedeemByAnyone
  <2>2. ChainStep
    BY <2>1 DEF ChainStep
  <2>3. UNCHANGED <<run, credited>>
    BY <1>3 DEF RedeemByAnyone
  <2> QED
    BY <2>2, <2>3 DEF run, StepOK, IInv, RunOK
<1>4. CASE DistributeByAnyone(r)
  BY <1>4 DEF DistributeByAnyone, run, StepOK, ChainStep, IInv, RunOK
<1>5. ASSUME NEW a \in Assets, RemoveReserveAsset(r, a)
      PROVE  StepOK
  BY <1>5 DEF RemoveReserveAsset, run, StepOK, ChainStep, IInv, RunOK
<1> QED
  BY <1>1, <1>2, <1>3, <1>4, <1>5

LEMMA NextStep == ASSUME IInv, Next PROVE StepOK
BY StartRunStep, EndRunStep, StopRunStep, BeginVisitStep, RedeemStepStep,
   ReadBalancesStep, SkipLegStep, SwapLegStep, MoveLegStep, SwapMovedLegStep,
   DistributeStepStep, EveryoneStep, Zenon DEF Next, Keeper

LEMMA InitEstablishes == Init => IInv
<1> SUFFICES ASSUME Init PROVE IInv
  OBVIOUS
<1>1. ChainOK
  BY DEF Init, ChainOK, None, Split
<1>2. RunOK
  BY NoVisitTypes, SettlementAssumption DEF Init, RunOK
<1> QED
  BY <1>1, <1>2 DEF IInv

LEMMA NextPreserves == IInv /\ [Next]_vars => IInv'
<1> SUFFICES ASSUME IInv, [Next]_vars PROVE IInv'
  OBVIOUS
<1>1. CASE UNCHANGED vars
  BY <1>1 DEF vars, chain, IInv, ChainOK, RunOK
<1>2. CASE Next
  BY <1>2, NextStep, ChainTypes DEF StepOK, IInv
<1> QED
  BY <1>1, <1>2

LEMMA Invariance == Spec => []IInv
BY InitEstablishes, NextPreserves, PTL DEF Spec

(* The counters never go below zero and the balances stay amounts, whatever is *)
(* redeemed, distributed or swapped by whom.                                   *)
THEOREM SettlementTypeCorrect == Spec => []TypeOK
BY Invariance, InvariantTypes, PTL

-----------------------------------------------------------------------------
(* Custody: what is staged, what the keeper holds and what waits in USDC, each *)
(* a sum over the accounts that hold value redeemed for the shares of o.       *)
StagedOf(o) == SumFunctionOnSet(staged[o], Legs)
KeptOf(o)   == SumFunctionOnSet([a \in Legs |-> keeperAta[a][o]], Legs)
UsdcOf(o)   == SumFunctionOnSet([r \in Reserves |-> usdc[r][o]], Reserves)

PartsOK ==
  \A o \in Reserves :
    /\ InCustody(o) = StagedOf(o) + KeptOf(o) + UsdcOf(o)
    /\ StagedOf(o) \in Nat /\ KeptOf(o) \in Nat /\ UsdcOf(o) \in Nat
    /\ paid[o] \in Nat

LEMMA CustodyParts == ChainOK => PartsOK
<1> SUFFICES ASSUME ChainOK, NEW o \in Reserves
             PROVE  /\ InCustody(o) = StagedOf(o) + KeptOf(o) + UsdcOf(o)
                    /\ StagedOf(o) \in Nat /\ KeptOf(o) \in Nat /\ UsdcOf(o) \in Nat
                    /\ paid[o] \in Nat
  BY DEF PartsOK
<1> DEFINE s == staged[o]
           k == [a \in Legs |-> keeperAta[a][o]]
           u == [r \in Reserves |-> usdc[r][o]]
<1>1. s \in [Legs -> Nat] /\ k \in [Legs -> Nat] /\ u \in [Reserves -> Nat]
  BY DEF ChainOK
<1>2. /\ \A a \in Legs : s[a] \in Nat /\ k[a] \in Nat
      /\ \A r \in Reserves : u[r] \in Nat
      /\ DOMAIN s = Legs /\ DOMAIN k = Legs /\ DOMAIN u = Reserves
  BY <1>1
<1>3. InCustody(o) = SumFunction(s) + SumFunction(k) + SumFunction(u)
  BY DEF InCustody
<1>4. /\ StagedOf(o) = SumFunctionOnSet(s, Legs)
      /\ KeptOf(o) = SumFunctionOnSet(k, Legs)
      /\ UsdcOf(o) = SumFunctionOnSet(u, Reserves)
  BY DEF StagedOf, KeptOf, UsdcOf
<1>5. paid[o] \in Nat
  BY DEF ChainOK
<1> HIDE DEF s, k, u
<1>6. /\ SumFunction(s) = SumFunctionOnSet(s, Legs)
      /\ SumFunction(k) = SumFunctionOnSet(k, Legs)
      /\ SumFunction(u) = SumFunctionOnSet(u, Reserves)
  BY <1>2, SumOverDomain
<1>7. /\ SumFunctionOnSet(s, Legs) \in Nat /\ SumFunctionOnSet(k, Legs) \in Nat
      /\ SumFunctionOnSet(u, Reserves) \in Nat
  BY <1>2, FiniteIndices, SumIsNat
<1> QED
  BY <1>3, <1>4, <1>5, <1>6, <1>7

LEMMA CustodyPartsNext == ChainOK' => PartsOK'
BY CustodyParts, PTL

(* A redemption adds to what is staged and to the USDC of its own Reserve.     *)
LEMMA RedeemCollects ==
  ASSUME ChainOK, ChainOK', NEW r \in Reserves, NEW n \in Nat,
         CanRedeem(r, n, basket[r]), RedeemFeeVaultShares(r, n)
  PROVE  paid' = paid /\ \A o \in Reserves : InCustody(o)' >= InCustody(o)
<1>1. PartsOK /\ PartsOK'
  BY CustodyParts, CustodyPartsNext
<1>2. /\ staged' = [staged EXCEPT ![r] = [a \in Legs |->
                      IF a \in basket[r] THEN staged[r][a] + n ELSE staged[r][a]]]
      /\ usdc' = IF Usdc \in basket[r] THEN [usdc EXCEPT ![r][r] = @ + n] ELSE usdc
      /\ keeperAta' = keeperAta /\ paid' = paid
  BY DEF RedeemFeeVaultShares, ChainOK
<1> SUFFICES ASSUME NEW o \in Reserves PROVE InCustody(o)' >= InCustody(o)
  BY <1>2
<1> DEFINE s  == staged[o]
           s2 == staged'[o]
           u  == [x \in Reserves |-> usdc[x][o]]
           u2 == [x \in Reserves |-> usdc'[x][o]]
<1>3. \A a \in Legs : s[a] \in Int /\ s2[a] \in Int /\ s[a] <= s2[a]
  BY <1>2 DEF ChainOK
<1>4. \A x \in Reserves : u[x] \in Int /\ u2[x] \in Int /\ u[x] <= u2[x]
  BY <1>2 DEF ChainOK
<1>5. StagedOf(o) = SumFunctionOnSet(s, Legs) /\ StagedOf(o)' = SumFunctionOnSet(s2, Legs)
  BY DEF StagedOf
<1>6. UsdcOf(o) = SumFunctionOnSet(u, Reserves) /\ UsdcOf(o)' = SumFunctionOnSet(u2, Reserves)
  BY DEF UsdcOf
<1> HIDE DEF s, s2, u, u2
<1>7. StagedOf(o) <= StagedOf(o)' /\ UsdcOf(o) <= UsdcOf(o)'
  BY <1>3, <1>4, <1>5, <1>6, FiniteIndices, SumMonotone
<1>8. KeptOf(o)' = KeptOf(o)
  BY <1>2 DEF KeptOf
<1> QED
  BY <1>1, <1>7, <1>8 DEF PartsOK

(* One term of each part changes in the other steps.                           *)
LEMMA StagedChangesAt ==
  ASSUME ChainOK, ChainOK', NEW o \in Reserves, NEW b \in Legs,
         \A a \in Legs \ {b} : staged'[o][a] = staged[o][a]
  PROVE  StagedOf(o)' = StagedOf(o) - staged[o][b] + staged'[o][b]
<1> DEFINE f == staged[o]
           g == staged'[o]
<1>1. \A a \in Legs : f[a] \in Int /\ g[a] \in Int
  BY DEF ChainOK
<1>2. StagedOf(o) = SumFunctionOnSet(f, Legs) /\ StagedOf(o)' = SumFunctionOnSet(g, Legs)
  BY DEF StagedOf
<1>3. \A a \in Legs \ {b} : f[a] = g[a]
  OBVIOUS
<1>4. f[b] = staged[o][b] /\ g[b] = staged'[o][b]
  OBVIOUS
<1> HIDE DEF f, g
<1>5. SumFunctionOnSet(g, Legs) = SumFunctionOnSet(f, Legs) - f[b] + g[b]
  BY <1>1, <1>3, FiniteIndices, SumChangedAt
<1> QED
  BY <1>2, <1>4, <1>5

LEMMA KeptChangesAt ==
  ASSUME ChainOK, ChainOK', NEW o \in Reserves, NEW b \in Legs,
         \A a \in Legs \ {b} : keeperAta'[a][o] = keeperAta[a][o]
  PROVE  KeptOf(o)' = KeptOf(o) - keeperAta[b][o] + keeperAta'[b][o]
<1> DEFINE f == [a \in Legs |-> keeperAta[a][o]]
           g == [a \in Legs |-> keeperAta'[a][o]]
<1>1. \A a \in Legs : f[a] \in Int /\ g[a] \in Int
  BY DEF ChainOK
<1>2. KeptOf(o) = SumFunctionOnSet(f, Legs) /\ KeptOf(o)' = SumFunctionOnSet(g, Legs)
  BY DEF KeptOf
<1>3. \A a \in Legs \ {b} : f[a] = g[a]
  OBVIOUS
<1>4. f[b] = keeperAta[b][o] /\ g[b] = keeperAta'[b][o]
  OBVIOUS
<1> HIDE DEF f, g
<1>5. SumFunctionOnSet(g, Legs) = SumFunctionOnSet(f, Legs) - f[b] + g[b]
  BY <1>1, <1>3, FiniteIndices, SumChangedAt
<1> QED
  BY <1>2, <1>4, <1>5

LEMMA UsdcChangesAt ==
  ASSUME ChainOK, ChainOK', NEW o \in Reserves, NEW r \in Reserves,
         \A x \in Reserves \ {r} : usdc'[x][o] = usdc[x][o]
  PROVE  UsdcOf(o)' = UsdcOf(o) - usdc[r][o] + usdc'[r][o]
<1> DEFINE f == [x \in Reserves |-> usdc[x][o]]
           g == [x \in Reserves |-> usdc'[x][o]]
<1>1. \A x \in Reserves : f[x] \in Int /\ g[x] \in Int
  BY DEF ChainOK
<1>2. UsdcOf(o) = SumFunctionOnSet(f, Reserves) /\ UsdcOf(o)' = SumFunctionOnSet(g, Reserves)
  BY DEF UsdcOf
<1>3. \A x \in Reserves \ {r} : f[x] = g[x]
  OBVIOUS
<1>4. f[r] = usdc[r][o] /\ g[r] = usdc'[r][o]
  OBVIOUS
<1> HIDE DEF f, g
<1>5. SumFunctionOnSet(g, Reserves) = SumFunctionOnSet(f, Reserves) - f[r] + g[r]
  <2>1. IsFiniteSet(Reserves)
    BY FiniteIndices
  <2> QED
    BY <1>1, <1>3, <2>1, SumChangedAt, SMTT(30)
<1> QED
  BY <1>2, <1>4, <1>5

LEMMA MoveKeepsCustody ==
  ASSUME ChainOK, ChainOK', NEW r \in Reserves, NEW b \in Legs, NEW n \in Nat,
         CanMove(r, b, n), ApproveAndMove(r, b, n)
  PROVE  paid' = paid /\ \A o \in Reserves : InCustody(o)' = InCustody(o)
<1>1. PartsOK /\ PartsOK'
  BY CustodyParts, CustodyPartsNext
<1>2. /\ staged' = [staged EXCEPT ![r][b] = @ - n]
      /\ keeperAta' = [keeperAta EXCEPT ![b][r] = @ + n]
      /\ usdc' = usdc /\ paid' = paid
  BY DEF ApproveAndMove
<1> SUFFICES ASSUME NEW o \in Reserves PROVE InCustody(o)' = InCustody(o)
  BY <1>2
<1> DEFINE d == IF o = r THEN n ELSE 0
<1>3. /\ \A a \in Legs \ {b} : staged'[o][a] = staged[o][a]
      /\ \A a \in Legs \ {b} : keeperAta'[a][o] = keeperAta[a][o]
      /\ staged'[o][b] = staged[o][b] - d /\ keeperAta'[b][o] = keeperAta[b][o] + d
      /\ staged[o][b] \in Nat /\ keeperAta[b][o] \in Nat /\ d \in Nat
  BY <1>2 DEF ChainOK
<1> HIDE DEF d
<1>4. /\ StagedOf(o)' = StagedOf(o) - staged[o][b] + staged'[o][b]
      /\ KeptOf(o)' = KeptOf(o) - keeperAta[b][o] + keeperAta'[b][o]
  BY <1>3, StagedChangesAt, KeptChangesAt
<1>5. UsdcOf(o)' = UsdcOf(o)
  BY <1>2 DEF UsdcOf
<1> QED
  BY <1>1, <1>3, <1>4, <1>5 DEF PartsOK

LEMMA SwapKeepsCustody ==
  ASSUME ChainOK, ChainOK', NEW r \in Reserves, NEW b \in Legs, NEW n \in Nat,
         n > 0 => CanMove(r, b, n), Swap(r, b, n)
  PROVE  paid' = paid /\ \A o \in Reserves : InCustody(o)' = InCustody(o)
<1>1. PartsOK /\ PartsOK'
  BY CustodyParts, CustodyPartsNext
<1>2. /\ staged' = [staged EXCEPT ![r][b] = @ - n]
      /\ keeperAta' = [keeperAta EXCEPT ![b] = [o \in Reserves |-> 0]]
      /\ usdc' = [usdc EXCEPT ![r] =
                    [o \in Reserves |-> usdc[r][o] + keeperAta[b][o]
                                        + (IF o = r THEN n ELSE 0)]]
      /\ paid' = paid
  BY DEF Swap, ChainOK
<1> SUFFICES ASSUME NEW o \in Reserves PROVE InCustody(o)' = InCustody(o)
  BY <1>2
<1> DEFINE d == IF o = r THEN n ELSE 0
<1>3. /\ \A a \in Legs \ {b} : staged'[o][a] = staged[o][a]
      /\ staged'[o][b] = staged[o][b] - d
      /\ staged[o][b] \in Nat /\ d \in Nat
  BY <1>2 DEF ChainOK
<1>4. /\ \A a \in Legs \ {b} : keeperAta'[a][o] = keeperAta[a][o]
      /\ keeperAta'[b][o] = 0 /\ keeperAta[b][o] \in Nat
  BY <1>2 DEF ChainOK
<1>5. /\ \A x \in Reserves \ {r} : usdc'[x][o] = usdc[x][o]
      /\ usdc'[r][o] = usdc[r][o] + keeperAta[b][o] + d
      /\ usdc[r][o] \in Nat
  BY <1>2 DEF ChainOK
<1> HIDE DEF d
<1>6. /\ StagedOf(o)' = StagedOf(o) - staged[o][b] + staged'[o][b]
      /\ KeptOf(o)' = KeptOf(o) - keeperAta[b][o] + keeperAta'[b][o]
      /\ UsdcOf(o)' = UsdcOf(o) - usdc[r][o] + usdc'[r][o]
  BY <1>3, <1>4, <1>5, StagedChangesAt, KeptChangesAt, UsdcChangesAt
<1> QED
  BY <1>1, <1>3, <1>4, <1>5, <1>6 DEF PartsOK

(* What a distribution takes out of custody it pays, each Reserve's own part.  *)
LEMMA DistributePays ==
  ASSUME ChainOK, ChainOK', NEW r \in Reserves, DistributeFeeUsdc(r)
  PROVE  \A o \in Reserves : /\ InCustody(o)' + paid'[o] = InCustody(o) + paid[o]
                             /\ paid'[o] >= paid[o]
<1>1. PartsOK /\ PartsOK'
  BY CustodyParts, CustodyPartsNext
<1>2. /\ staged' = staged /\ keeperAta' = keeperAta
      /\ \/ /\ paid' = [o \in Reserves |-> paid[o] + usdc[r][o]]
            /\ usdc' = [usdc EXCEPT ![r] = [o \in Reserves |-> 0]]
         \/ UNCHANGED <<paid, usdc>>
  BY Zenon DEF DistributeFeeUsdc, chain
<1> SUFFICES ASSUME NEW o \in Reserves
             PROVE  /\ InCustody(o)' + paid'[o] = InCustody(o) + paid[o]
                    /\ paid'[o] >= paid[o]
  OBVIOUS
<1>3. StagedOf(o)' = StagedOf(o) /\ KeptOf(o)' = KeptOf(o)
  BY <1>2 DEF StagedOf, KeptOf
<1>4. CASE UNCHANGED <<paid, usdc>>
  <2>1. UsdcOf(o)' = UsdcOf(o)
    BY <1>4 DEF UsdcOf
  <2> QED
    BY <1>1, <1>3, <1>4, <2>1 DEF PartsOK
<1>5. CASE /\ paid' = [x \in Reserves |-> paid[x] + usdc[r][x]]
           /\ usdc' = [usdc EXCEPT ![r] = [x \in Reserves |-> 0]]
  <2>1. /\ \A x \in Reserves \ {r} : usdc'[x][o] = usdc[x][o]
        /\ usdc'[r][o] = 0 /\ usdc[r][o] \in Nat /\ paid'[o] = paid[o] + usdc[r][o]
    BY <1>5 DEF ChainOK
  <2>2. UsdcOf(o)' = UsdcOf(o) - usdc[r][o] + usdc'[r][o]
    BY <2>1, UsdcChangesAt
  <2> QED
    BY <1>1, <1>3, <2>1, <2>2 DEF PartsOK
<1> QED
  BY <1>2, <1>4, <1>5

(* A step that touches no balance changes nothing in custody.                  *)
LEMMA OthersKeepCustody ==
  ASSUME UNCHANGED <<staged, usdc, keeperAta, paid>>
  PROVE  paid' = paid /\ \A o \in Reserves : InCustody(o)' = InCustody(o)
BY DEF InCustody

-----------------------------------------------------------------------------
(* FeeSettlement implements FeeCustody.                                        *)
CustodyStep ==
  \/ paid' = paid /\ \A o \in Reserves : InCustody(o)' >= InCustody(o)
  \/ \A o \in Reserves : /\ InCustody(o)' + paid'[o] = InCustody(o) + paid[o]
                         /\ paid'[o] >= paid[o]

LEMMA KeptIsStep ==
  ASSUME PartsOK, PartsOK', paid' = paid,
         \A o \in Reserves : InCustody(o)' = InCustody(o)
  PROVE  CustodyStep
BY DEF CustodyStep, PartsOK

LEMMA ChainStepIsCustodyStep ==
  ASSUME ChainOK, ChainOK', ChainStep
  PROVE  CustodyStep
<1>1. PartsOK /\ PartsOK'
  BY CustodyParts, CustodyPartsNext
<1>2. CASE UNCHANGED chain
  BY <1>1, <1>2, OthersKeepCustody, KeptIsStep DEF chain
<1>3. ASSUME NEW r \in Reserves, NEW n \in Nat,
             CanRedeem(r, n, basket[r]), RedeemFeeVaultShares(r, n)
      PROVE  CustodyStep
  BY <1>3, RedeemCollects DEF CustodyStep
<1>4. ASSUME NEW r \in Reserves, NEW a \in Legs, NEW n \in Nat,
             CanMove(r, a, n), ApproveAndMove(r, a, n)
      PROVE  CustodyStep
  BY <1>1, <1>4, MoveKeepsCustody, KeptIsStep
<1>5. ASSUME NEW r \in Reserves, NEW a \in Legs, NEW n \in Nat,
             n > 0 => CanMove(r, a, n), Swap(r, a, n)
      PROVE  CustodyStep
  BY <1>1, <1>5, SwapKeepsCustody, KeptIsStep
<1>6. ASSUME NEW r \in Reserves, DistributeFeeUsdc(r)
      PROVE  CustodyStep
  BY <1>6, DistributePays DEF CustodyStep
<1>7. CASE UNCHANGED <<staged, usdc, keeperAta, paid>>
  BY <1>1, <1>7, OthersKeepCustody, KeptIsStep
<1> QED
  BY <1>2, <1>3, <1>4, <1>5, <1>6, <1>7, Zenon DEF ChainStep

(* The refinement mapping turns CustodyStep into a step of FeeCustody.         *)
CustodyMap == [o \in Reserves |-> InCustody(o)]

LEMMA CustodyStepRefines ==
  ASSUME PartsOK, PartsOK', CustodyStep
  PROVE  Custody!Collect \/ Custody!Pay
<1>1. \A o \in Reserves : /\ CustodyMap[o] = InCustody(o)
                          /\ CustodyMap'[o] = InCustody(o)'
                          /\ InCustody(o)' >= 0
  BY DEF CustodyMap, PartsOK
<1> QED
  BY <1>1, Zenon DEF CustodyStep, CustodyMap, Custody!Collect, Custody!Pay

LEMMA InitRefines == Init => Custody!Init
<1> SUFFICES ASSUME Init PROVE Custody!Init
  OBVIOUS
<1>1. PartsOK
  BY InitEstablishes, CustodyParts DEF IInv
<1>2. ASSUME NEW o \in Reserves PROVE InCustody(o) = 0
  <2>1. /\ \A a \in Legs : staged[o][a] = 0
        /\ \A a \in Legs : [x \in Legs |-> keeperAta[x][o]][a] = 0
        /\ \A r \in Reserves : [x \in Reserves |-> usdc[x][o]][r] = 0
    BY DEF Init, None
  <2>2. StagedOf(o) = 0 /\ KeptOf(o) = 0 /\ UsdcOf(o) = 0
    BY <2>1, FiniteIndices, SumOfZeros DEF StagedOf, KeptOf, UsdcOf
  <2> QED
    BY <1>1, <2>2 DEF PartsOK
<1>3. paid = [o \in Reserves |-> 0]
  BY DEF Init
<1> QED
  BY <1>2, <1>3 DEF Custody!Init

LEMMA StepRefines ==
  IInv /\ IInv' /\ [Next]_vars
    => [Custody!Collect \/ Custody!Pay]_<<[o \in Reserves |-> InCustody(o)], paid>>
<1> SUFFICES ASSUME IInv, IInv', [Next]_vars
             PROVE  \/ Custody!Collect \/ Custody!Pay
                    \/ UNCHANGED <<[o \in Reserves |-> InCustody(o)], paid>>
  OBVIOUS
<1>1. CASE UNCHANGED vars
  <2>1. UNCHANGED <<staged, usdc, keeperAta, paid>>
    BY <1>1 DEF vars, chain
  <2> QED
    BY <2>1, OthersKeepCustody
<1>2. CASE Next
  <2>1. ChainOK /\ ChainOK' /\ ChainStep
    BY <1>2, NextStep DEF StepOK, IInv
  <2> QED
    BY <2>1, ChainStepIsCustodyStep, CustodyParts, CustodyPartsNext,
       CustodyStepRefines
<1> QED
  BY <1>1, <1>2

(* Whatever is lost, repeated, skipped or stopped half-way, what fee shares    *)
(* were redeemed for is in custody until it is paid out, and paid out once.    *)
THEOREM SettlementImplementsCustody == Spec => FeesNeverLost
<1>1. Init => Custody!Init
  BY InitRefines
<1>2. IInv /\ IInv' /\ [Next]_vars
        => [Custody!Collect \/ Custody!Pay]_<<[o \in Reserves |-> InCustody(o)], paid>>
  BY StepRefines
<1> QED
  BY <1>1, <1>2, Invariance, PTL DEF Spec, FeesNeverLost, Custody!Spec
=============================================================================
