------------------------- MODULE ReserveCore_proofs -------------------------
(* Proofs, for every value of the constants, of the invariants and the action  *)
(* properties of ReserveCore.                                                  *)
EXTENDS ReserveCore, FeeMath_proofs

(* What the other parts need besides themselves: an asset outside the basket   *)
(* has no vault balance, a Reserve that does not exist (yet, or any more) has  *)
(* no basket, and no checkpoint lies in the future.                            *)
Support ==
  /\ \A a \in Assets : a \notin basket => vault[a] = 0
  /\ status \in {"None", "Closed"} => basket = {}
  /\ tvl.lastCheckpoint <= now

IInv == TypeOK /\ FeeSharesBacked /\ ClosedOwesNothing /\ NeverOverbilled /\ Support

-----------------------------------------------------------------------------
(* Lemmas about the helpers.                                                   *)

LEMMA SupplyIsNat == ASSUME TypeOK PROVE Supply \in Nat
BY DEF TypeOK, Supply

(* A checkpoint brings the accumulator up to date without billing more than    *)
(* the exposure, whatever part s of the supply it counts.                      *)
LEMMA CheckpointFacts ==
  ASSUME TypeOK, NeverOverbilled, Support, NEW s \in Nat, s <= Supply
  PROVE  /\ Checkpoint(s) \in Tvl
         /\ Checkpoint(s).started
         /\ Checkpoint(s).lastCheckpoint = now
         /\ Checkpoint(s).period <= exposure
<1> DEFINE d == now - tvl.lastCheckpoint
<1>1. /\ tvl \in Tvl /\ now \in Nat /\ exposure \in Nat /\ Supply \in Nat
      /\ tvl.lastCheckpoint <= now
  BY SupplyIsNat DEF TypeOK, Support
<1>2. d \in Nat /\ tvl.period \in Nat
  BY <1>1 DEF Tvl
<1>3. CASE ~tvl.started
  BY <1>1, <1>3 DEF Checkpoint, Tvl
<1>4. CASE tvl.started /\ now <= tvl.lastCheckpoint
  <2>1. Checkpoint(s) = tvl /\ now = tvl.lastCheckpoint
    BY <1>1, <1>4 DEF Checkpoint, Tvl
  <2>2. Supply * d \in Nat /\ tvl.period + Supply * d <= exposure
    BY <1>1, <1>2, <1>4, ProductIsNat DEF NeverOverbilled
  <2> QED
    BY <1>1, <1>2, <1>4, <2>1, <2>2
<1>5. CASE tvl.started /\ ~(now <= tvl.lastCheckpoint)
  <2>1. Checkpoint(s) = [started |-> TRUE, lastCheckpoint |-> now,
                         lastSettled |-> tvl.lastSettled, period |-> tvl.period + s * d]
    BY <1>5 DEF Checkpoint
  <2>2. s * d \in Nat /\ Supply * d \in Nat /\ s * d <= Supply * d
    BY <1>1, <1>2, ProductIsNat, ProductMonotone
  <2>3. tvl.period + Supply * d <= exposure
    BY <1>5 DEF NeverOverbilled
  <2> DEFINE sd == s * d
             Sd == Supply * d
  <2>4. sd \in Nat /\ tvl.period + sd <= exposure
    BY <1>1, <1>2, <2>2, <2>3
  <2> HIDE DEF sd, Sd
  <2>5. Checkpoint(s) = [started |-> TRUE, lastCheckpoint |-> now,
                         lastSettled |-> tvl.lastSettled, period |-> tvl.period + sd]
    BY <2>1 DEF sd
  <2> HIDE DEF d
  <2> QED
    BY <1>1, <1>5, <2>4, <2>5 DEF Tvl
<1> QED
  BY <1>3, <1>4, <1>5

LEMMA AddedNats == ASSUME NEW x \in Nat, NEW y \in Nat PROVE x + y \in Nat
OBVIOUS

(* Right after a checkpoint nothing is outstanding, at any supply.             *)
LEMMA FreshCheckpointBillsPeriod ==
  ASSUME NEW S \in Nat, NEW t \in Nat, NEW p \in Nat
  PROVE  p + S * (t - t) = p
BY SMT

(* The fee of each source is a natural number, and what is attributed of it to *)
(* the two parties is no more than what is minted.                             *)
LEMMA MintFeeFacts ==
  ASSUME CoreAssumption, TypeOK, NEW n \in Nat
  PROVE  /\ MintFeeOf(n) \in Nat
         /\ MintFeeSplit(MintFeeOf(n)) \in Fees
         /\ MintFeeSplit(MintFeeOf(n)).protocol + MintFeeSplit(MintFeeOf(n)).manager
              <= MintFeeOf(n)
<1>1. feeConfig.mint \in Nat /\ MinMintFeeBps \in Nat /\ BpsDenominator \in Nat \ {0}
  BY DEF TypeOK, Rates, CoreAssumption
<1>2. MintFeeOf(n) \in Nat
  BY <1>1, ConfiguredSplit, CeilFacts DEF MintFeeOf, MintFeeBps
<1>3. SplitConfiguredBps(feeConfig.mint, MinMintFeeBps) \in Fees
  BY <1>1, ConfiguredSplit DEF Fees
<1> QED
  BY <1>2, <1>3, TotalFeeSplit DEF MintFeeSplit

LEMMA RedemptionFeeFacts ==
  ASSUME CoreAssumption, TypeOK, NEW n \in Nat
  PROVE  /\ RedemptionFeeOf(n) \in Nat
         /\ RedemptionFeeSplit(RedemptionFeeOf(n)) \in Fees
         /\ RedemptionFeeSplit(RedemptionFeeOf(n)).protocol
              + RedemptionFeeSplit(RedemptionFeeOf(n)).manager <= RedemptionFeeOf(n)
<1>1. /\ feeConfig.redemption \in Nat /\ MinMintFeeBps \in Nat
      /\ BpsDenominator \in Nat \ {0}
  BY DEF TypeOK, Rates, CoreAssumption
<1>2. RedemptionFeeOf(n) \in Nat
  BY <1>1, CeilFacts DEF RedemptionFeeOf
<1>3. SplitRedemptionBps(feeConfig.redemption, MinMintFeeBps) \in Fees
  BY <1>1, RedemptionSplit DEF Fees
<1> QED
  BY <1>2, <1>3, TotalFeeSplit DEF RedemptionFeeSplit

LEMMA AnnualFeeFacts ==
  ASSUME CoreAssumption, TypeOK, NEW n \in Nat
  PROVE  /\ AnnualFeeOf(n) \in Nat
         /\ AnnualFeeSplit(AnnualFeeOf(n)) \in Fees
         /\ AnnualFeeSplit(AnnualFeeOf(n)).protocol
              + AnnualFeeSplit(AnnualFeeOf(n)).manager <= AnnualFeeOf(n)
<1>1. /\ feeConfig.annual \in Nat /\ MinAnnualFeeBps \in Nat
      /\ BpsDenominator \in Nat \ {0} /\ SecondsPerYear \in Nat \ {0}
  BY DEF TypeOK, Rates, CoreAssumption
<1>2. BpsDenominator * SecondsPerYear \in Nat \ {0}
  BY <1>1, SMT
<1>3. AnnualFeeOf(n) \in Nat
  <2> DEFINE D == BpsDenominator * SecondsPerYear
             E == EffectiveBps(feeConfig.annual, MinAnnualFeeBps)
  <2>1. D \in Nat \ {0} /\ E \in Nat
    BY <1>1, <1>2, ConfiguredSplit
  <2>2. AnnualFeeOf(n) = MulDivCeil(n, E, D)
    BY DEF AnnualFeeOf
  <2> HIDE DEF D, E
  <2> QED
    BY <2>1, <2>2, CeilFacts
<1>4. SplitConfiguredBps(feeConfig.annual, MinAnnualFeeBps) \in Fees
  BY <1>1, ConfiguredSplit DEF Fees
<1> QED
  BY <1>3, <1>4, TotalFeeSplit DEF AnnualFeeSplit

(* Crediting no more than what is minted keeps the attribution backed.         *)
LEMMA CreditFacts ==
  ASSUME TypeOK, FeeSharesBacked, NEW fee \in Nat, NEW part \in Fees,
         part.protocol + part.manager <= fee
  PROVE  LET s == IF fee > 0 THEN CreditFees(part) ELSE settlement IN
         /\ s \in Settlement
         /\ s.protocolInVault + s.managerInVault <= feeVault + fee
BY DEF TypeOK, FeeSharesBacked, CreditFees, Settlement, Fees

(* Deposits and withdrawals keep every balance a token amount and leave assets *)
(* outside the basket alone.                                                   *)
LEMMA DepositFacts ==
  ASSUME CoreAssumption, TypeOK, NEW amounts \in [Assets -> Nat],
         WithinU64(Deposit(amounts))
  PROVE  /\ Deposit(amounts) \in [Assets -> Amount]
         /\ \A a \in Assets : a \notin basket => Deposit(amounts)[a] = vault[a]
BY DEF CoreAssumption, TypeOK, Deposit, WithinU64, Amount

LEMMA EntitlementFacts ==
  ASSUME TypeOK, NEW n \in Nat, n <= Supply, Supply > 0, NEW a \in Assets
  PROVE  Entitlement(n, a) \in Nat /\ Entitlement(n, a) <= vault[a]
<1>1. vault[a] \in Nat /\ Supply \in Nat \ {0}
  BY SupplyIsNat DEF TypeOK, Amount
<1> QED
  BY <1>1, FloorFacts, FloorAtMost DEF Entitlement

LEMMA WithdrawFacts ==
  ASSUME CoreAssumption, TypeOK, NEW n \in Nat, n <= Supply, Supply > 0
  PROVE  LET out == [a \in Assets |-> Entitlement(n, a)] IN
         /\ Withdraw(out) \in [Assets -> Amount]
         /\ \A a \in Assets : a \notin basket => Withdraw(out)[a] = vault[a]
         /\ WithinU64(Stage(out)) => Stage(out) \in [Assets -> Amount]
<1> DEFINE out == [a \in Assets |-> Entitlement(n, a)]
<1>1. \A a \in Assets : out[a] \in Nat /\ out[a] <= vault[a]
  BY EntitlementFacts
<1>2. \A a \in Assets : out[a] \in Nat
  BY <1>1
<1> HIDE DEF out
<1>3. Withdraw(out) \in [Assets -> Amount]
  BY <1>1, <1>2 DEF CoreAssumption, TypeOK, Withdraw, Amount
<1>4. \A a \in Assets : a \notin basket => Withdraw(out)[a] = vault[a]
  BY DEF Withdraw
<1>5. WithinU64(Stage(out)) => Stage(out) \in [Assets -> Amount]
  BY <1>2 DEF CoreAssumption, TypeOK, Stage, WithinU64, Amount
<1> QED
  BY <1>3, <1>4, <1>5 DEF out

LEMMA RequiredDepositIsNat ==
  ASSUME TypeOK, NEW n \in Nat, Supply > 0
  PROVE  [a \in Assets |-> RequiredDeposit(n, a)] \in [Assets -> Nat]
<1>1. \A a \in Assets : vault[a] \in Nat /\ Supply \in Nat \ {0}
  BY SupplyIsNat DEF TypeOK, Amount
<1> QED
  BY <1>1, CeilFacts DEF RequiredDeposit

-----------------------------------------------------------------------------
(* The inductive invariant, first for the steps that neither mint, burn nor    *)
(* checkpoint, then for those that do.                                         *)

LEMMA InitEstablishes == ASSUME CoreAssumption, Init PROVE IInv
<1>1. TypeOK
  <2>1. NoRates \in Rates /\ NoRates.redemption = 0
    BY DEF NoRates, Rates
  <2>2. NoSettlement \in Settlement /\ NoTvl \in Tvl
    BY DEF Settlement, NoSettlement, Tvl, NoTvl
  <2>3. 0 \in Amount /\ MaxRedemptionFeeBps \in Nat /\ U64Max \in Nat
    BY DEF Amount, CoreAssumption
  <2>4. protocolPaused \in BOOLEAN /\ status \in Statuses
    BY Zenon DEF Init, Statuses
  <2>5. /\ vault \in [Assets -> Amount] /\ staged \in [Assets -> Amount]
        /\ basket \subseteq Assets
    BY <2>3 DEF Init
  <2>6. /\ feeConfig \in Rates /\ feeConfig.redemption <= MaxRedemptionFeeBps
        /\ settlement \in Settlement /\ tvl \in Tvl
    BY <2>1, <2>2, <2>3 DEF Init
  <2>7. holders \in Nat /\ feeVault \in Nat /\ now \in Nat /\ exposure \in Nat
        /\ Supply <= U64Max
    BY <2>3 DEF Init, Supply
  <2> QED
    BY <2>4, <2>5, <2>6, <2>7 DEF TypeOK
<1>2. FeeSharesBacked /\ ClosedOwesNothing /\ NeverOverbilled /\ Support
  BY DEF Init, FeeSharesBacked, ClosedOwesNothing, NeverOverbilled, Support,
         NoSettlement, NoTvl
<1> QED
  BY <1>1, <1>2 DEF IInv

(* A step that keeps the shares, the fees and the clock keeps the parts of the *)
(* invariant that are about them.                                              *)
LEMMA LedgerFrame ==
  ASSUME IInv, UNCHANGED <<holders, feeVault, settlement, tvl, now, exposure>>
  PROVE  FeeSharesBacked' /\ NeverOverbilled' /\ Supply' = Supply
         /\ tvl'.lastCheckpoint <= now'
BY DEF IInv, FeeSharesBacked, NeverOverbilled, Support, Supply

LEMMA LifecycleStep ==
  ASSUME CoreAssumption, IInv,
         \/ CreateReserve \/ PauseReserve \/ UnpauseReserve \/ InitiateWindDown
         \/ \E p \in BOOLEAN : SetProtocolPaused(p)
  PROVE  IInv'
<1> USE DEF IInv
<1>1. /\ UNCHANGED <<basket, vault, holders, feeVault, settlement, staged, tvl, now,
                     exposure>>
      /\ \/ status' \in {"Created", "Active", "Paused", "WindDown"}
         \/ status' = status
      /\ protocolPaused' \in BOOLEAN
      /\ feeConfig' \in Rates /\ feeConfig'.redemption <= MaxRedemptionFeeBps
  BY DEF CreateReserve, PauseReserve, UnpauseReserve, InitiateWindDown,
         SetProtocolPaused, TypeOK, CoreAssumption, Rates
<1>2. FeeSharesBacked' /\ NeverOverbilled' /\ Supply' = Supply
  BY <1>1, LedgerFrame
<1>3. TypeOK'
  BY <1>1, <1>2 DEF TypeOK, Statuses
<1>4. ClosedOwesNothing' /\ Support'
  BY <1>1, <1>2 DEF ClosedOwesNothing, Support
<1> QED
  BY <1>2, <1>3, <1>4

LEMMA CloseStep == ASSUME CoreAssumption, IInv, CloseReserve PROVE IInv'
<1> USE DEF IInv
<1>1. FeeSharesBacked' /\ NeverOverbilled' /\ Supply' = Supply
  BY LedgerFrame DEF CloseReserve
<1>2. TypeOK'
  BY <1>1 DEF CloseReserve, TypeOK, Statuses
<1>3. Support'
  BY DEF CloseReserve, Support
<1>4. ClosedOwesNothing'
  <2>1. holders = 0 /\ feeVault = 0
    BY DEF CloseReserve, Supply, TypeOK
  <2>2. settlement.protocolInVault = 0 /\ settlement.managerInVault = 0
    BY <2>1 DEF FeeSharesBacked, TypeOK, Settlement
  <2>3. \A a \in Assets : vault[a] = 0
    BY DEF CloseReserve, Support
  <2> QED
    BY <1>1, <2>2, <2>3 DEF CloseReserve, ClosedOwesNothing
<1> QED
  BY <1>1, <1>2, <1>3, <1>4

(* Steps on the basket and the vaults at a constant supply.                    *)
LEMMA VaultStep ==
  ASSUME CoreAssumption, IInv,
         UNCHANGED <<protocolPaused, feeConfig, holders, feeVault, settlement, staged,
                     tvl, now, exposure>>,
         status' \in Live, basket' \subseteq Assets,
         vault' \in [Assets -> Amount],
         \A a \in Assets : a \notin basket' => vault'[a] = 0
  PROVE  IInv'
<1> USE DEF IInv
<1>1. FeeSharesBacked' /\ NeverOverbilled' /\ Supply' = Supply
      /\ tvl'.lastCheckpoint <= now'
  BY LedgerFrame
<1>2. TypeOK'
  BY <1>1 DEF TypeOK, Statuses, Live
<1>3. ClosedOwesNothing' /\ Support'
  BY <1>1 DEF Live, ClosedOwesNothing, Support
<1> QED
  BY <1>1, <1>2, <1>3

LEMMA BasketStep ==
  ASSUME CoreAssumption, IInv, NEW a \in Assets,
         \/ InitializeReserveAsset(a) \/ AddReserveAssetActive(a)
         \/ RemoveReserveAsset(a)
         \/ \E n \in Amounts1 : FundNewReserveAsset(a, n) \/ SendAssetToVault(a, n)
  PROVE  IInv'
<1>1. vault \in [Assets -> Amount] /\ basket \subseteq Assets /\ U64Max \in Nat
  BY DEF IInv, TypeOK, CoreAssumption
<1>2. \A b \in Assets : b \notin basket => vault[b] = 0
  BY DEF IInv, Support
<1>3. basket # {} => status \in Live
  BY DEF IInv, Support, TypeOK, Statuses, Live
<1>4. CASE InitializeReserveAsset(a) \/ AddReserveAssetActive(a)
  BY <1>1, <1>2, <1>4, VaultStep
  DEF InitializeReserveAsset, AddReserveAssetActive, Live, Amount
<1>5. CASE RemoveReserveAsset(a)
  BY <1>1, <1>2, <1>5, VaultStep DEF RemoveReserveAsset, Live
<1>6. ASSUME NEW n \in Amounts1, FundNewReserveAsset(a, n) \/ SendAssetToVault(a, n)
      PROVE  IInv'
  <2>1. /\ n \in Nat /\ n <= U64Max /\ vault[a] \in Nat
        /\ a \in basket /\ vault' \in [Assets -> Amount]
        /\ \A b \in Assets : b # a => vault'[b] = vault[b]
        /\ UNCHANGED <<status, basket>>
    BY <1>1, <1>6 DEF FundNewReserveAsset, SendAssetToVault, Amounts1, Amount
  <2> QED
    BY <1>1, <1>2, <1>3, <1>6, <2>1, VaultStep
    DEF FundNewReserveAsset, SendAssetToVault
<1> QED
  BY <1>4, <1>5, <1>6

LEMMA RebalanceStep ==
  ASSUME CoreAssumption, IInv, NEW sell \in Assets, NEW buy \in Assets,
         NEW n \in Amounts1, NEW m \in Amounts1,
         ExecuteRebalanceLeg(sell, buy, n, m) \/ RebalanceSwap(sell, buy, n, m)
  PROVE  IInv'
<1>1. /\ vault \in [Assets -> Amount] /\ basket \subseteq Assets
      /\ U64Max \in Nat /\ n \in Nat /\ m \in Nat
  BY DEF IInv, TypeOK, CoreAssumption, Amounts1
<1>2. \A b \in Assets : b \notin basket => vault[b] = 0
  BY DEF IInv, Support
<1>3. MoveBetweenVaults(sell, buy, n, m)
  BY DEF ExecuteRebalanceLeg, RebalanceSwap
<1>4. status' \in Live
  BY <1>3 DEF MoveBetweenVaults, ExecuteRebalanceLeg, RebalanceSwap, Live
<1>5. /\ vault' \in [Assets -> Amount]
      /\ \A b \in Assets : b \notin {sell, buy} => vault'[b] = vault[b]
  BY <1>1, <1>3 DEF MoveBetweenVaults, Amount
<1> QED
  BY <1>1, <1>2, <1>3, <1>4, <1>5, VaultStep DEF MoveBetweenVaults

LEMMA TickStep == ASSUME CoreAssumption, IInv, Tick PROVE IInv'
<1> USE DEF IInv
<1>1. Supply \in Nat /\ Supply' = Supply /\ now \in Nat /\ tvl.lastCheckpoint \in Nat
      /\ exposure \in Nat /\ tvl.period \in Nat
  BY SupplyIsNat DEF Tick, Supply, TypeOK, Tvl
<1>2. TypeOK'
  BY <1>1 DEF Tick, TypeOK
<1>3. FeeSharesBacked' /\ ClosedOwesNothing' /\ Support'
  BY <1>1 DEF Tick, FeeSharesBacked, ClosedOwesNothing, Support, TypeOK, Tvl
<1>4. NeverOverbilled'
  <2> DEFINE d == now - tvl.lastCheckpoint
  <2>1. d \in Nat /\ now + 1 - tvl.lastCheckpoint = d + 1
    BY <1>1 DEF Support
  <2> HIDE DEF d
  <2>2. Supply * (d + 1) = Supply * d + Supply /\ Supply * d \in Nat
    BY <1>1, <2>1, SMT
  <2>3. tvl.started => tvl.period + Supply * d <= exposure
    BY DEF NeverOverbilled, d
  <2>4. tvl.started => tvl.period + Supply * (d + 1) <= exposure + Supply
    BY <1>1, <2>2, <2>3
  <2> QED
    BY <1>1, <2>1, <2>4 DEF Tick, NeverOverbilled
<1> QED
  BY <1>2, <1>3, <1>4

LEMMA SendSharesStep ==
  ASSUME CoreAssumption, IInv, NEW n \in Amounts1, SendSharesToFeeVault(n)
  PROVE  IInv'
<1> USE DEF IInv
<1>1. /\ n \in Nat /\ n > 0 /\ n <= holders /\ holders \in Nat /\ feeVault \in Nat
      /\ Supply' = Supply /\ Supply > 0
  BY DEF SendSharesToFeeVault, Supply, TypeOK, Amounts1
<1>2. TypeOK'
  BY <1>1 DEF SendSharesToFeeVault, TypeOK
<1>3. FeeSharesBacked'
  BY <1>1 DEF SendSharesToFeeVault, FeeSharesBacked, TypeOK, Settlement
<1>4. ClosedOwesNothing' /\ NeverOverbilled' /\ Support'
  BY <1>1 DEF SendSharesToFeeVault, ClosedOwesNothing, NeverOverbilled, Support
<1> QED
  BY <1>2, <1>3, <1>4

(* Steps that take a checkpoint and change the shares.                         *)
LEMMA CheckpointedStep ==
  ASSUME CoreAssumption, IInv,
         UNCHANGED <<protocolPaused, feeConfig, basket, now>>,
         status' \in Live,
         vault' \in [Assets -> Amount], staged' \in [Assets -> Amount],
         \A a \in Assets : a \notin basket => vault'[a] = vault[a],
         holders' \in Nat, feeVault' \in Nat, Supply' <= U64Max,
         settlement' \in Settlement,
         settlement'.protocolInVault + settlement'.managerInVault <= feeVault',
         tvl' \in Tvl, tvl'.lastCheckpoint = now,
         exposure' \in Nat, tvl'.period <= exposure'
  PROVE  IInv'
<1> USE DEF IInv
<1>1. TypeOK'
  BY DEF TypeOK, Statuses, Live
<1>2. FeeSharesBacked' /\ ClosedOwesNothing' /\ Support'
  BY DEF FeeSharesBacked, ClosedOwesNothing, Support, Live, TypeOK
<1>3. NeverOverbilled'
  <2>1. Supply' \in Nat /\ now \in Nat /\ tvl'.period \in Nat
    <3>1. Supply' = holders' + feeVault'
      BY DEF Supply
    <3>2. holders' + feeVault' \in Nat
      BY AddedNats, Zenon
    <3>3. now \in Nat
      BY DEF TypeOK
    <3>4. tvl'.period \in Nat
      BY DEF Tvl
    <3> QED
      BY <3>1, <3>2, <3>3, <3>4, Zenon
  <2>2. tvl'.period + Supply' * (now - now) = tvl'.period
    BY <2>1, FreshCheckpointBillsPeriod
  <2> QED
    BY <2>2 DEF NeverOverbilled
<1> QED
  BY <1>1, <1>2, <1>3

LEMMA SeedStep ==
  ASSUME CoreAssumption, IInv, NEW n \in Amounts1, NEW amounts \in [Assets -> Amount],
         SeedReserve(amounts, n) \/ SeedReserveUsdcFee(amounts, n)
  PROVE  IInv'
<1>1. /\ TypeOK /\ n \in Nat /\ Supply \in Nat /\ amounts \in [Assets -> Nat]
      /\ SeedGuard(amounts, n) /\ holders \in Nat /\ feeVault \in Nat
  BY SupplyIsNat
  DEF IInv, TypeOK, Amounts1, Amount, CoreAssumption, SeedReserve, SeedReserveUsdcFee
<1>2. /\ Deposit(amounts) \in [Assets -> Amount]
      /\ \A a \in Assets : a \notin basket => Deposit(amounts)[a] = vault[a]
  BY <1>1, DepositFacts DEF SeedGuard
<1>3. /\ Checkpoint(0) \in Tvl /\ Checkpoint(0).lastCheckpoint = now
      /\ Checkpoint(0).period <= exposure
  BY <1>1, CheckpointFacts DEF IInv
<1>4. exposure \in Nat /\ settlement \in Settlement /\ staged \in [Assets -> Amount]
      /\ settlement.protocolInVault + settlement.managerInVault <= feeVault
  BY DEF IInv, TypeOK, FeeSharesBacked
<1>5. CASE SeedReserve(amounts, n)
  <2> DEFINE fee == MintFeeOf(n)
  <2>1. fee \in Nat /\ n - fee > 0
    BY <1>1, <1>5, MintFeeFacts DEF SeedReserve
  <2>2. /\ settlement' \in Settlement
        /\ settlement'.protocolInVault + settlement'.managerInVault <= feeVault + fee
    BY <1>1, <1>5, MintFeeFacts, CreditFacts DEF SeedReserve, IInv
  <2>3. /\ holders' = holders + (n - fee) /\ feeVault' = feeVault + fee
        /\ Supply + n <= U64Max
    BY <1>5 DEF SeedReserve, SeedGuard
  <2> HIDE DEF fee
  <2>4. holders' \in Nat /\ feeVault' \in Nat /\ Supply' <= U64Max
    BY <1>1, <2>1, <2>3 DEF Supply
  <2> QED
    BY <1>2, <1>3, <1>4, <1>5, <2>2, <2>3, <2>4, CheckpointedStep DEF SeedReserve, Live
<1>6. CASE SeedReserveUsdcFee(amounts, n)
  <2>1. holders' \in Nat /\ feeVault' = feeVault /\ Supply' <= U64Max
    BY <1>1, <1>6 DEF SeedReserveUsdcFee, SeedGuard, Supply
  <2> QED
    BY <1>1, <1>2, <1>3, <1>4, <1>6, <2>1, CheckpointedStep DEF SeedReserveUsdcFee, Live
<1> QED
  BY <1>5, <1>6

LEMMA MintStep ==
  ASSUME CoreAssumption, IInv, NEW n \in Amounts1,
         MintReserveTokensInKind(n) \/ MintReserveTokensInKindUsdcFee(n)
  PROVE  IInv'
<1> DEFINE required == [a \in Assets |-> RequiredDeposit(n, a)]
<1>1. /\ TypeOK /\ n \in Nat /\ Supply \in Nat /\ Supply > 0
      /\ MintGuard(n) /\ holders \in Nat /\ feeVault \in Nat
      /\ WithinU64(Deposit(required))
  BY SupplyIsNat
  DEF IInv, TypeOK, Amounts1, MintReserveTokensInKind, MintReserveTokensInKindUsdcFee,
      MintGuard
<1>2. required \in [Assets -> Nat]
  BY <1>1, RequiredDepositIsNat
<1>3. /\ Deposit(required) \in [Assets -> Amount]
      /\ \A a \in Assets : a \notin basket => Deposit(required)[a] = vault[a]
  BY <1>1, <1>2, DepositFacts
<1>4. /\ Checkpoint(Supply) \in Tvl /\ Checkpoint(Supply).lastCheckpoint = now
      /\ Checkpoint(Supply).period <= exposure
  BY <1>1, CheckpointFacts DEF IInv
<1>5. exposure \in Nat /\ settlement \in Settlement /\ staged \in [Assets -> Amount]
      /\ settlement.protocolInVault + settlement.managerInVault <= feeVault
  BY DEF IInv, TypeOK, FeeSharesBacked
<1>6. vault' = Deposit(required) /\ status' \in Live
  BY DEF MintReserveTokensInKind, MintReserveTokensInKindUsdcFee, MintGuard, Live
<1> HIDE DEF required
<1>7. CASE MintReserveTokensInKind(n)
  <2> DEFINE fee == MintFeeOf(n)
  <2>1. fee \in Nat /\ n - fee > 0
    BY <1>1, <1>7, MintFeeFacts DEF MintReserveTokensInKind
  <2>2. /\ settlement' \in Settlement
        /\ settlement'.protocolInVault + settlement'.managerInVault <= feeVault + fee
    BY <1>1, <1>7, MintFeeFacts, CreditFacts DEF MintReserveTokensInKind, IInv
  <2>3. /\ holders' = holders + (n - fee) /\ feeVault' = feeVault + fee
        /\ Supply + n <= U64Max
    BY <1>7 DEF MintReserveTokensInKind, MintGuard
  <2> HIDE DEF fee
  <2>4. holders' \in Nat /\ feeVault' \in Nat /\ Supply' <= U64Max
    BY <1>1, <2>1, <2>3 DEF Supply
  <2>5. UNCHANGED <<protocolPaused, feeConfig, basket, staged, now, exposure>>
        /\ tvl' = Checkpoint(Supply)
    BY <1>7 DEF MintReserveTokensInKind
  <2> QED
    BY <1>3, <1>4, <1>5, <1>6, <2>2, <2>3, <2>4, <2>5, CheckpointedStep
<1>8. CASE MintReserveTokensInKindUsdcFee(n)
  <2>1. holders' \in Nat /\ feeVault' = feeVault /\ Supply' <= U64Max
    BY <1>1, <1>8 DEF MintReserveTokensInKindUsdcFee, MintGuard, Supply
  <2>2. UNCHANGED <<protocolPaused, feeConfig, basket, settlement, staged, now, exposure>>
        /\ tvl' = Checkpoint(Supply)
    BY <1>8 DEF MintReserveTokensInKindUsdcFee
  <2> QED
    BY <1>1, <1>3, <1>4, <1>5, <1>6, <2>1, <2>2, CheckpointedStep
<1> QED
  BY <1>7, <1>8

LEMMA RedeemStep ==
  ASSUME CoreAssumption, IInv, NEW n \in Amounts1, RedeemReserveTokensInKind(n)
  PROVE  IInv'
<1> DEFINE fee == RedemptionFeeOf(n)
           out == [a \in Assets |-> Entitlement(n - fee, a)]
<1>1. /\ TypeOK /\ n \in Nat /\ Supply \in Nat /\ holders \in Nat /\ feeVault \in Nat
      /\ n <= holders
  BY SupplyIsNat DEF IInv, TypeOK, Amounts1, RedeemReserveTokensInKind, CanRedeem
<1>2. fee \in Nat /\ n - fee > 0 /\ n - fee \in Nat
  BY <1>1, RedemptionFeeFacts DEF RedeemReserveTokensInKind, CanRedeem
<1>3. /\ settlement' \in Settlement
      /\ settlement'.protocolInVault + settlement'.managerInVault <= feeVault + fee
  BY <1>1, RedemptionFeeFacts, CreditFacts DEF RedeemReserveTokensInKind, IInv
<1>4. /\ vault' = Withdraw(out) /\ holders' = holders - n /\ feeVault' = feeVault + fee
      /\ status' \in Live /\ tvl' = Checkpoint(Supply)
      /\ UNCHANGED <<protocolPaused, feeConfig, basket, staged, now, exposure>>
  BY DEF RedeemReserveTokensInKind, CanRedeem, RedeemableStatuses, Live
<1>5. n - fee <= Supply /\ Supply > 0
  <2> HIDE DEF fee
  <2> QED
    BY <1>1, <1>2 DEF Supply
<1>6. /\ vault' \in [Assets -> Amount]
      /\ \A a \in Assets : a \notin basket => vault'[a] = vault[a]
  BY <1>1, <1>2, <1>4, <1>5, WithdrawFacts
<1>7. /\ Checkpoint(Supply) \in Tvl /\ Checkpoint(Supply).lastCheckpoint = now
      /\ Checkpoint(Supply).period <= exposure
  BY <1>1, CheckpointFacts DEF IInv
<1> HIDE DEF fee, out
<1>8. holders' \in Nat /\ feeVault' \in Nat /\ Supply' <= U64Max
  <2>1. Supply <= U64Max /\ U64Max \in Nat
    BY DEF IInv, TypeOK, CoreAssumption
  <2> QED
    BY <1>1, <1>2, <1>4, <2>1 DEF Supply
<1>9. exposure \in Nat /\ staged \in [Assets -> Amount]
  BY DEF IInv, TypeOK
<1> QED
  BY <1>3, <1>4, <1>6, <1>7, <1>8, <1>9, CheckpointedStep

LEMMA AccrueStep == ASSUME CoreAssumption, IInv, AccrueFees PROVE IInv'
<1> DEFINE t   == Checkpoint(Supply)
           fee == AnnualFeeOf(t.period)
<1>1. /\ TypeOK /\ Supply \in Nat /\ holders \in Nat /\ feeVault \in Nat
      /\ exposure \in Nat /\ settlement \in Settlement /\ now \in Nat
      /\ vault \in [Assets -> Amount] /\ staged \in [Assets -> Amount]
      /\ Supply <= U64Max
  BY SupplyIsNat DEF IInv, TypeOK
<1>2. t \in Tvl /\ t.lastCheckpoint = now /\ t.period <= exposure
  BY <1>1, CheckpointFacts DEF IInv
<1>3. t.period \in Nat /\ t.lastSettled \in Nat
  BY <1>2 DEF Tvl
<1>4. /\ UNCHANGED <<status, protocolPaused, feeConfig, basket, vault, holders, staged,
                     now>>
      /\ status' \in Live
  BY DEF AccrueFees
<1>5. CASE now <= t.lastSettled \/ t.period = 0
  <2>1. tvl' = t /\ UNCHANGED <<feeVault, settlement, exposure>>
    BY <1>5 DEF AccrueFees
  <2>2. settlement'.protocolInVault + settlement'.managerInVault <= feeVault'
        /\ Supply' <= U64Max
    BY <1>1, <1>4, <2>1 DEF IInv, FeeSharesBacked, Supply
  <2> HIDE DEF t
  <2> QED
    BY <1>1, <1>2, <1>4, <2>1, <2>2, CheckpointedStep
<1>6. CASE ~(now <= t.lastSettled \/ t.period = 0)
  <2>1. /\ Supply + fee <= U64Max /\ feeVault' = feeVault + fee /\ exposure' = 0
        /\ tvl' = [started |-> TRUE, lastCheckpoint |-> t.lastCheckpoint,
                   lastSettled |-> now, period |-> 0]
        /\ settlement' = IF fee > 0 THEN CreditFees(AnnualFeeSplit(fee)) ELSE settlement
    BY <1>6 DEF AccrueFees
  <2>2. fee \in Nat
    BY <1>1, <1>3, AnnualFeeFacts
  <2>3. /\ settlement' \in Settlement
        /\ settlement'.protocolInVault + settlement'.managerInVault <= feeVault'
    BY <1>1, <1>3, <2>1, <2>2, AnnualFeeFacts, CreditFacts DEF IInv
  <2> HIDE DEF fee, t
  <2>4. tvl' \in Tvl /\ tvl'.lastCheckpoint = now /\ tvl'.period <= exposure'
    BY <1>1, <1>2, <2>1 DEF Tvl
  <2>5. holders' \in Nat /\ feeVault' \in Nat /\ Supply' <= U64Max
    BY <1>1, <1>4, <2>1, <2>2 DEF Supply
  <2> QED
    BY <1>1, <1>4, <2>1, <2>3, <2>4, <2>5, CheckpointedStep
<1> QED
  BY <1>5, <1>6

(* Redeeming fee shares takes no checkpoint: the supply falls, so what the     *)
(* next checkpoint adds can only be less than the exposure.                    *)
LEMMA RedeemFeeVaultStep ==
  ASSUME CoreAssumption, IInv, NEW n \in Amounts1, RedeemFeeVaultShares(n)
  PROVE  IInv'
<1> DEFINE part == SplitByWeight(n, settlement.protocolInVault,
                                 settlement.managerInVault)
           out  == [a \in Assets |-> Entitlement(n, a)]
<1>1. /\ TypeOK /\ n \in Nat /\ n > 0 /\ n <= feeVault
      /\ Supply \in Nat /\ Supply > 0 /\ n <= Supply
      /\ holders \in Nat /\ feeVault \in Nat
  BY DEF IInv, TypeOK, Amounts1, RedeemFeeVaultShares, CanRedeemFeeShares, Supply
<1>2. /\ settlement.protocolInVault \in Nat /\ settlement.managerInVault \in Nat
      /\ settlement.protocolPending \in Nat /\ settlement.managerPending \in Nat
      /\ settlement.protocolInVault + settlement.managerInVault <= feeVault
  BY <1>1 DEF TypeOK, Settlement, IInv, FeeSharesBacked
<1>3. /\ status \in Live
      /\ part.protocol <= settlement.protocolInVault
      /\ part.manager <= settlement.managerInVault
      /\ vault' = Withdraw(out) /\ staged' = Stage(out) /\ WithinU64(Stage(out))
      /\ feeVault' = feeVault - n /\ settlement' = MoveToPending(part)
      /\ UNCHANGED <<status, protocolPaused, feeConfig, basket, holders, tvl, now,
                     exposure>>
  BY DEF RedeemFeeVaultShares, CanRedeemFeeShares, FeeShareParts
<1>4. /\ vault' \in [Assets -> Amount] /\ staged' \in [Assets -> Amount]
      /\ \A a \in Assets : a \notin basket => vault'[a] = vault[a]
  BY <1>1, <1>3, WithdrawFacts
<1>5. /\ part.protocol \in Nat /\ part.manager \in Nat
      /\ \/ part.protocol + part.manager = n
         \/ settlement.protocolInVault = 0 /\ settlement.managerInVault = 0
  <2>1. /\ part \in [protocol : Nat, manager : Nat]
        /\ part.protocol + part.manager =
             IF settlement.protocolInVault + settlement.managerInVault = 0 THEN 0 ELSE n
    BY <1>1, <1>2, WeightSplit
  <2> HIDE DEF part
  <2> QED
    BY <1>2, <2>1
<1> HIDE DEF part, out
<1>6. /\ settlement' \in Settlement
      /\ settlement'.protocolInVault + settlement'.managerInVault <= feeVault'
  <2>1. settlement' = [initialized     |-> TRUE,
          protocolInVault |-> settlement.protocolInVault - part.protocol,
          managerInVault  |-> settlement.managerInVault - part.manager,
          protocolPending |-> settlement.protocolPending + part.protocol,
          managerPending  |-> settlement.managerPending + part.manager]
    BY <1>3 DEF MoveToPending
  <2> QED
    BY <1>1, <1>2, <1>3, <1>5, <2>1 DEF Settlement
<1>7. feeVault' \in Nat /\ Supply' \in Nat /\ Supply' <= Supply
  BY <1>1, <1>3 DEF Supply
<1>8. TypeOK'
  <2>1. Supply' <= U64Max
    BY <1>1, <1>7 DEF TypeOK, CoreAssumption
  <2> QED
    BY <1>1, <1>3, <1>4, <1>6, <1>7, <2>1 DEF TypeOK
<1>9. FeeSharesBacked' /\ ClosedOwesNothing' /\ Support'
  BY <1>3, <1>4, <1>6 DEF FeeSharesBacked, ClosedOwesNothing, Support, IInv, Live
<1>10. NeverOverbilled'
  <2> DEFINE d == now - tvl.lastCheckpoint
  <2>1. /\ d \in Nat /\ tvl.period \in Nat /\ exposure \in Nat
        /\ tvl.started => tvl.period + Supply * d <= exposure
    BY <1>1 DEF TypeOK, Tvl, IInv, Support, NeverOverbilled
  <2> HIDE DEF d
  <2>2. Supply' * d \in Nat /\ Supply * d \in Nat /\ Supply' * d <= Supply * d
    BY <1>1, <1>7, <2>1, ProductIsNat, ProductMonotone
  <2> DEFINE x == Supply' * d
             y == Supply * d
  <2>3. x \in Nat /\ y \in Nat /\ x <= y /\ (tvl.started => tvl.period + y <= exposure)
    BY <2>1, <2>2
  <2> HIDE DEF x, y
  <2>4. tvl.started => tvl.period + x <= exposure
    BY <2>1, <2>3
  <2> QED
    BY <1>3, <2>4 DEF NeverOverbilled, x, d
<1> QED
  BY <1>8, <1>9, <1>10 DEF IInv

(* Every step of the specification, one case per group of actions.             *)
LEMMA NextPreserves == ASSUME CoreAssumption, IInv, [Next]_vars PROVE IInv'
<1>1. CASE UNCHANGED vars
  BY <1>1 DEF vars, IInv, TypeOK, FeeSharesBacked, ClosedOwesNothing,
              NeverOverbilled, Support, Supply
<1>2. CASE \/ CreateReserve \/ PauseReserve \/ UnpauseReserve \/ InitiateWindDown
           \/ \E p \in BOOLEAN : SetProtocolPaused(p)
  BY <1>2, LifecycleStep
<1>3. CASE CloseReserve
  BY <1>3, CloseStep
<1>4. CASE AccrueFees
  BY <1>4, AccrueStep
<1>5. CASE Tick
  BY <1>5, TickStep
<1>6. ASSUME NEW a \in Assets,
             \/ InitializeReserveAsset(a) \/ AddReserveAssetActive(a)
             \/ RemoveReserveAsset(a)
             \/ \E n \in Amounts1 : FundNewReserveAsset(a, n) \/ SendAssetToVault(a, n)
      PROVE  IInv'
  BY <1>6, BasketStep
<1>7. ASSUME NEW n \in Amounts1,
             MintReserveTokensInKind(n) \/ MintReserveTokensInKindUsdcFee(n)
      PROVE  IInv'
  BY <1>7, MintStep
<1>8. ASSUME NEW n \in Amounts1, RedeemReserveTokensInKind(n) PROVE IInv'
  BY <1>8, RedeemStep
<1>9. ASSUME NEW n \in Amounts1, RedeemFeeVaultShares(n) PROVE IInv'
  BY <1>9, RedeemFeeVaultStep
<1>10. ASSUME NEW n \in Amounts1, SendSharesToFeeVault(n) PROVE IInv'
  BY <1>10, SendSharesStep
<1>11. ASSUME NEW n \in Amounts1, NEW amounts \in [Assets -> Amount],
              SeedReserve(amounts, n) \/ SeedReserveUsdcFee(amounts, n)
       PROVE  IInv'
  BY <1>11, SeedStep
<1>12. ASSUME NEW sell \in Assets, NEW buy \in Assets,
              NEW n \in Amounts1, NEW m \in Amounts1,
              ExecuteRebalanceLeg(sell, buy, n, m) \/ RebalanceSwap(sell, buy, n, m)
       PROVE  IInv'
  BY <1>12, RebalanceStep
<1> QED
  BY <1>1, <1>2, <1>3, <1>4, <1>5, <1>6, <1>7, <1>8, <1>9, <1>10, <1>11, <1>12 DEF Next

-----------------------------------------------------------------------------
(* No share is outstanding, and none was, before the Reserve is seeded; the    *)
(* seed therefore never joins shares that others hold.                         *)
Unissued == {"None", "Created", "AssetsInitializing"}
NoneIssued == status \in Unissued => holders = 0 /\ feeVault = 0 /\ exposure = 0

LEMMA NoneIssuedStep ==
  ASSUME CoreAssumption, IInv, NoneIssued, [Next]_vars
  PROVE  NoneIssued'
<1> SUFFICES ASSUME status' \in Unissued
             PROVE  holders' = 0 /\ feeVault' = 0 /\ exposure' = 0
  BY DEF NoneIssued
<1>1. CASE UNCHANGED vars
  BY <1>1 DEF NoneIssued, vars
<1>2. CASE \/ CreateReserve \/ PauseReserve \/ UnpauseReserve \/ InitiateWindDown
           \/ \E p \in BOOLEAN : SetProtocolPaused(p)
  BY <1>2
  DEF NoneIssued, Unissued, CreateReserve, PauseReserve, UnpauseReserve,
      InitiateWindDown, SetProtocolPaused
<1>3. CASE CloseReserve \/ Tick
  BY <1>3 DEF NoneIssued, Unissued, CloseReserve, Tick, Supply
<1>4. CASE AccrueFees
  <2>1. status \in Unissued /\ holders' = holders
    BY <1>4 DEF AccrueFees
  <2>2. holders = 0 /\ feeVault = 0 /\ exposure = 0 /\ Supply = 0
    BY <2>1 DEF NoneIssued, Supply
  <2>3. Checkpoint(Supply).period \in Nat /\ Checkpoint(Supply).period <= 0
    BY <2>2, CheckpointFacts DEF IInv, Tvl
  <2>4. UNCHANGED <<feeVault, exposure>>
    BY <1>4, <2>3 DEF AccrueFees
  <2> QED
    BY <2>1, <2>2, <2>4
<1>5. ASSUME NEW a \in Assets,
             \/ InitializeReserveAsset(a) \/ AddReserveAssetActive(a)
             \/ RemoveReserveAsset(a)
             \/ \E n \in Amounts1 : FundNewReserveAsset(a, n) \/ SendAssetToVault(a, n)
      PROVE  holders' = 0 /\ feeVault' = 0 /\ exposure' = 0
  BY <1>5
  DEF NoneIssued, Unissued, InitializeReserveAsset, AddReserveAssetActive,
      RemoveReserveAsset, FundNewReserveAsset, SendAssetToVault
<1>6. ASSUME NEW n \in Amounts1,
             \/ MintReserveTokensInKind(n) \/ MintReserveTokensInKindUsdcFee(n)
             \/ RedeemReserveTokensInKind(n)
      PROVE  FALSE
  BY <1>6
  DEF Unissued, MintReserveTokensInKind, MintReserveTokensInKindUsdcFee, MintGuard,
      RedeemReserveTokensInKind, CanRedeem, RedeemableStatuses
<1>7. ASSUME NEW n \in Amounts1, RedeemFeeVaultShares(n) \/ SendSharesToFeeVault(n)
      PROVE  FALSE
  BY <1>7
  DEF NoneIssued, Amounts1, RedeemFeeVaultShares, CanRedeemFeeShares,
      SendSharesToFeeVault
<1>8. ASSUME NEW n \in Amounts1, NEW amounts \in [Assets -> Amount],
             SeedReserve(amounts, n) \/ SeedReserveUsdcFee(amounts, n)
      PROVE  FALSE
  BY <1>8 DEF Unissued, SeedReserve, SeedReserveUsdcFee
<1>9. ASSUME NEW sell \in Assets, NEW buy \in Assets,
             NEW n \in Amounts1, NEW m \in Amounts1,
             ExecuteRebalanceLeg(sell, buy, n, m) \/ RebalanceSwap(sell, buy, n, m)
      PROVE  holders' = 0 /\ feeVault' = 0 /\ exposure' = 0
  BY <1>9
  DEF NoneIssued, ExecuteRebalanceLeg, RebalanceSwap, MoveBetweenVaults
<1> QED
  BY <1>1, <1>2, <1>3, <1>4, <1>5, <1>6, <1>7, <1>8, <1>9 DEF Next

(* The price of an issue or a redemption, as ShareLedger has it.               *)
AtFairPrices ==
  \A a \in Assets : /\ vault[a] * Supply' <= vault'[a] * Supply
                    /\ vault'[a] * Supply < vault[a] * Supply' + Supply

(* An asset outside the basket has nothing before the step and nothing after.  *)
LEMMA NothingAtFairPrice ==
  ASSUME NEW s \in Nat \ {0}, NEW t \in Nat
  PROVE  0 * t <= 0 * s /\ 0 * s < 0 * t + s
BY SMT

(* A burn of n shares that pays each vault's floored share of them.            *)
LEMMA BurnAtFairPrice ==
  ASSUME CoreAssumption, IInv, NEW n \in Nat, n > 0, n <= Supply,
         Supply' = Supply - n,
         vault' = Withdraw([a \in Assets |-> Entitlement(n, a)])
  PROVE  AtFairPrices /\ KeepsBacking /\ EmptiesVaults
<1>1. Supply \in Nat \ {0} /\ \A a \in Assets : vault[a] \in Nat
  BY SupplyIsNat DEF IInv, TypeOK, Amount
<1>2. \A a \in Assets :
        /\ a \in basket => vault'[a] = vault[a] - MulDivFloor(n, vault[a], Supply)
        /\ a \notin basket => vault'[a] = vault[a] /\ vault[a] = 0
  BY DEF Withdraw, Entitlement, IInv, Support
<1>3. basket \subseteq Assets
  BY DEF IInv, TypeOK
<1>4. ASSUME NEW a \in Assets
      PROVE  /\ vault[a] * Supply' <= vault'[a] * Supply
             /\ vault'[a] * Supply < vault[a] * Supply' + Supply
  <2>1. CASE a \in basket
    <3>1. LET kept == (vault[a] - MulDivFloor(n, vault[a], Supply)) * Supply IN
          /\ vault[a] * (Supply - n) <= kept
          /\ kept < vault[a] * (Supply - n) + Supply
      BY <1>1, WithdrawalAtFairPrice
    <3> QED
      BY <1>2, <2>1, <3>1, Zenon
  <2>2. CASE a \notin basket
    <3>1. vault[a] = 0 /\ vault'[a] = 0
      BY <1>2, <2>2
    <3>2. Supply' \in Nat
      BY <1>1
    <3> QED
      BY <1>1, <3>1, <3>2, NothingAtFairPrice
  <2> QED
    BY <2>1, <2>2
<1>5. AtFairPrices
  BY <1>4 DEF AtFairPrices
<1>6. \A a \in Assets : vault'[a] * Supply >= vault[a] * Supply'
  BY <1>4
<1>7. ASSUME Supply' = 0, NEW a \in basket PROVE vault'[a] = 0
  <2>1. n = Supply
    BY <1>1, <1>7
  <2>2. MulDivFloor(Supply, vault[a], Supply) = vault[a]
    BY <1>1, <1>3, FloorOfWhole
  <2>3. vault'[a] = vault[a] - vault[a] /\ vault[a] \in Nat
    BY <1>1, <1>2, <1>3, <2>1, <2>2
  <2> QED
    BY <2>3
<1> QED
  BY <1>5, <1>6, <1>7 DEF KeepsBacking, EmptiesVaults

(* An issue of n shares that takes each vault's share of them, rounded up.     *)
LEMMA IssueAtFairPrice ==
  ASSUME CoreAssumption, IInv, NEW n \in Nat, n > 0, Supply > 0,
         Supply' = Supply + n,
         vault' = Deposit([a \in Assets |-> RequiredDeposit(n, a)])
  PROVE  AtFairPrices /\ KeepsBacking /\ EmptiesVaults
<1>1. Supply \in Nat \ {0} /\ \A a \in Assets : vault[a] \in Nat
  BY SupplyIsNat DEF IInv, TypeOK, Amount
<1>2. \A a \in Assets :
        /\ a \in basket => vault'[a] = vault[a] + MulDivCeil(n, vault[a], Supply)
        /\ a \notin basket => vault'[a] = vault[a] /\ vault[a] = 0
  BY DEF Deposit, RequiredDeposit, IInv, Support
<1>3. ASSUME NEW a \in Assets
      PROVE  /\ vault[a] * Supply' <= vault'[a] * Supply
             /\ vault'[a] * Supply < vault[a] * Supply' + Supply
  <2>1. CASE a \in basket
    <3>1. LET kept == (vault[a] + MulDivCeil(n, vault[a], Supply)) * Supply IN
          /\ vault[a] * (Supply + n) <= kept
          /\ kept < vault[a] * (Supply + n) + Supply
      BY <1>1, DepositAtFairPrice
    <3> QED
      BY <1>2, <2>1, <3>1, Zenon
  <2>2. CASE a \notin basket
    <3>1. vault[a] = 0 /\ vault'[a] = 0
      BY <1>2, <2>2
    <3>2. Supply' \in Nat
      BY <1>1
    <3> QED
      BY <1>1, <3>1, <3>2, NothingAtFairPrice
  <2> QED
    BY <2>1, <2>2
<1>4. AtFairPrices
  BY <1>3 DEF AtFairPrices
<1>5. \A a \in Assets : vault'[a] * Supply >= vault[a] * Supply'
  BY <1>3
<1> QED
  BY <1>1, <1>4, <1>5 DEF KeepsBacking, EmptiesVaults

(* Either way to pay a mint's fee, the shares issued are the shares paid for.  *)
LEMMA MintAtFairPrice ==
  ASSUME CoreAssumption, IInv, NEW n \in Amounts1,
         MintReserveTokensInKind(n) \/ MintReserveTokensInKindUsdcFee(n)
  PROVE  /\ Supply > 0 /\ Supply' > Supply /\ status' = "Active" /\ status = "Active"
         /\ holders' > holders
         /\ AtFairPrices /\ KeepsBacking /\ EmptiesVaults
<1>1. TypeOK /\ holders \in Nat /\ feeVault \in Nat /\ Supply \in Nat
  BY SupplyIsNat DEF IInv, TypeOK
<1>2. /\ n \in Nat /\ n > 0 /\ Supply > 0 /\ status = "Active" /\ status' = "Active"
  BY DEF Amounts1, MintGuard, MintReserveTokensInKind, MintReserveTokensInKindUsdcFee
<1>3. vault' = Deposit([a \in Assets |-> RequiredDeposit(n, a)])
  BY DEF MintReserveTokensInKind, MintReserveTokensInKindUsdcFee
<1>4. Supply' = Supply + n /\ holders' > holders
  <2>1. CASE MintReserveTokensInKind(n)
    <3> DEFINE fee == MintFeeOf(n)
    <3>1. fee \in Nat
      BY <1>1, <1>2, MintFeeFacts
    <3>2. /\ holders' = holders + (n - fee) /\ feeVault' = feeVault + fee
          /\ n - fee > 0
      BY <2>1 DEF MintReserveTokensInKind
    <3> HIDE DEF fee
    <3> QED
      BY <1>1, <1>2, <3>1, <3>2 DEF Supply
  <2>2. CASE MintReserveTokensInKindUsdcFee(n)
    <3>1. holders' = holders + n /\ feeVault' = feeVault
      BY <2>2 DEF MintReserveTokensInKindUsdcFee
    <3> QED
      BY <1>1, <1>2, <3>1 DEF Supply
  <2> QED
    BY <2>1, <2>2
<1>5. AtFairPrices /\ KeepsBacking /\ EmptiesVaults
  BY <1>2, <1>3, <1>4, IssueAtFairPrice
<1> QED
  BY <1>1, <1>2, <1>4, <1>5

(* A holder's redemption burns what it pays for: the fee's shares come back in *)
(* the fee vault.                                                              *)
LEMMA RedeemAtFairPrice ==
  ASSUME CoreAssumption, IInv, NEW n \in Amounts1,
         RedeemReserveTokensInKind(n) \/ RedeemFeeVaultShares(n)
  PROVE  /\ Supply' < Supply /\ status \in Live /\ status' = status
         /\ holders' # holders \/ ~(feeVault' > feeVault)
         /\ AtFairPrices /\ KeepsBacking /\ EmptiesVaults
<1>1. TypeOK /\ holders \in Nat /\ feeVault \in Nat /\ Supply \in Nat
  BY SupplyIsNat DEF IInv, TypeOK
<1>2. CASE RedeemReserveTokensInKind(n)
  <2> DEFINE fee == RedemptionFeeOf(n)
             net == n - fee
  <2>1. /\ n \in Nat /\ n > 0 /\ n <= holders /\ net > 0
        /\ holders' = holders - n /\ feeVault' = feeVault + fee
        /\ vault' = Withdraw([a \in Assets |-> Entitlement(net, a)])
    BY <1>2 DEF RedeemReserveTokensInKind, CanRedeem, Amounts1
  <2>2. status \in Live /\ status' = status
    BY <1>2 DEF RedeemReserveTokensInKind, CanRedeem, RedeemableStatuses, Live
  <2>3. fee \in Nat
    BY <1>1, <2>1, RedemptionFeeFacts
  <2> HIDE DEF fee
  <2>4. net \in Nat /\ net <= Supply /\ Supply' = Supply - net
    BY <1>1, <2>1, <2>3 DEF Supply
  <2> HIDE DEF net
  <2>5. AtFairPrices /\ KeepsBacking /\ EmptiesVaults
    BY <2>1, <2>4, BurnAtFairPrice
  <2> QED
    BY <1>1, <2>1, <2>2, <2>4, <2>5
<1>3. CASE RedeemFeeVaultShares(n)
  <2>1. /\ n \in Nat /\ n > 0 /\ n <= feeVault
        /\ holders' = holders /\ feeVault' = feeVault - n
        /\ vault' = Withdraw([a \in Assets |-> Entitlement(n, a)])
        /\ status \in Live /\ status' = status
    BY <1>3 DEF RedeemFeeVaultShares, CanRedeemFeeShares, Amounts1
  <2>2. n <= Supply /\ Supply' = Supply - n
    BY <1>1, <2>1 DEF Supply
  <2>3. AtFairPrices /\ KeepsBacking /\ EmptiesVaults
    BY <2>1, <2>2, BurnAtFairPrice
  <2> QED
    BY <1>1, <2>1, <2>2, <2>3
<1> QED
  BY <1>2, <1>3

LEMMA SameSupplyKeepsBacking ==
  ASSUME Supply' = Supply PROVE KeepsBacking /\ EmptiesVaults
BY DEF KeepsBacking, EmptiesVaults

LEMMA StepKeepsBacking ==
  ASSUME CoreAssumption, IInv, NoneIssued, [Next]_vars
  PROVE  KeepsBacking /\ EmptiesVaults
<1>1. TypeOK /\ holders \in Nat /\ feeVault \in Nat /\ Supply \in Nat
  BY SupplyIsNat DEF IInv, TypeOK
<1>2. CASE UNCHANGED <<holders, feeVault>>
  BY <1>2, SameSupplyKeepsBacking DEF Supply
<1>3. CASE \/ UNCHANGED vars
           \/ CreateReserve \/ PauseReserve \/ UnpauseReserve \/ InitiateWindDown
           \/ CloseReserve \/ Tick
           \/ \E p \in BOOLEAN : SetProtocolPaused(p)
  <2>1. UNCHANGED <<holders, feeVault>>
    BY <1>3
    DEF vars, CreateReserve, PauseReserve, UnpauseReserve, InitiateWindDown,
        CloseReserve, Tick, SetProtocolPaused
  <2> QED
    BY <1>2, <2>1
<1>4. ASSUME NEW a \in Assets,
             \/ InitializeReserveAsset(a) \/ AddReserveAssetActive(a)
             \/ RemoveReserveAsset(a)
             \/ \E n \in Amounts1 : FundNewReserveAsset(a, n) \/ SendAssetToVault(a, n)
      PROVE  KeepsBacking /\ EmptiesVaults
  <2>1. UNCHANGED <<holders, feeVault>>
    BY <1>4
    DEF InitializeReserveAsset, AddReserveAssetActive, RemoveReserveAsset,
        FundNewReserveAsset, SendAssetToVault
  <2> QED
    BY <1>2, <2>1
<1>5. ASSUME NEW sell \in Assets, NEW buy \in Assets,
             NEW n \in Amounts1, NEW m \in Amounts1,
             ExecuteRebalanceLeg(sell, buy, n, m) \/ RebalanceSwap(sell, buy, n, m)
      PROVE  KeepsBacking /\ EmptiesVaults
  <2>1. UNCHANGED <<holders, feeVault>>
    BY <1>5 DEF ExecuteRebalanceLeg, RebalanceSwap, MoveBetweenVaults
  <2> QED
    BY <1>2, <2>1
<1>6. CASE AccrueFees
  <2> DEFINE fee == AnnualFeeOf(Checkpoint(Supply).period)
  <2>1. CASE UNCHANGED <<holders, feeVault>>
    BY <1>2, <2>1
  <2>2. CASE ~UNCHANGED <<holders, feeVault>>
    <3>1. vault' = vault /\ holders' = holders /\ feeVault' = feeVault + fee
      BY <1>6, <2>2 DEF AccrueFees
    <3>2. Checkpoint(Supply).period \in Nat
      BY <1>1, CheckpointFacts DEF IInv, Tvl
    <3>3. fee \in Nat
      BY <1>1, <3>2, AnnualFeeFacts
    <3> HIDE DEF fee
    <3> QED
      BY <1>1, <3>1, <3>3 DEF KeepsBacking, EmptiesVaults, Dilutes, Supply
  <2> QED
    BY <2>1, <2>2
<1>7. ASSUME NEW n \in Amounts1, SendSharesToFeeVault(n)
      PROVE  KeepsBacking /\ EmptiesVaults
  <2>1. Supply' = Supply
    BY <1>1, <1>7 DEF SendSharesToFeeVault, Supply, Amounts1
  <2> QED
    BY <2>1, SameSupplyKeepsBacking
<1>8. ASSUME NEW n \in Amounts1, NEW amounts \in [Assets -> Amount],
             SeedReserve(amounts, n) \/ SeedReserveUsdcFee(amounts, n)
      PROVE  KeepsBacking /\ EmptiesVaults
  <2>1. status = "AssetsInitializing"
    BY <1>8 DEF SeedReserve, SeedReserveUsdcFee, SeedGuard
  <2>2. ~(Supply > 0)
    BY <2>1 DEF NoneIssued, Unissued, Supply
  <2> QED
    BY <2>2 DEF KeepsBacking, EmptiesVaults
<1>9. ASSUME NEW n \in Amounts1,
             MintReserveTokensInKind(n) \/ MintReserveTokensInKindUsdcFee(n)
      PROVE  KeepsBacking /\ EmptiesVaults
  BY <1>9, MintAtFairPrice
<1>10. ASSUME NEW n \in Amounts1,
              RedeemReserveTokensInKind(n) \/ RedeemFeeVaultShares(n)
       PROVE  KeepsBacking /\ EmptiesVaults
  BY <1>10, RedeemAtFairPrice
<1> QED
  BY <1>3, <1>4, <1>5, <1>6, <1>7, <1>8, <1>9, <1>10 DEF Next

-----------------------------------------------------------------------------
(* Redemptions go through: no check of theirs fails on two shares or more.     *)
LEMMA AnyHolderCanRedeem ==
  ASSUME CoreAssumption, IInv, status \in RedeemableStatuses, NEW n \in 2 .. holders
  PROVE  CanRedeem(n)
<1> DEFINE fee  == RedemptionFeeOf(n)
           part == RedemptionFeeSplit(fee)
<1>1. /\ TypeOK /\ n \in Nat /\ n >= 2 /\ n <= holders
      /\ holders \in Nat /\ feeVault \in Nat /\ Supply \in Nat
      /\ Supply <= U64Max /\ U64Max \in Nat
  BY SupplyIsNat DEF IInv, TypeOK, CoreAssumption
<1>2. fee \in Nat /\ part \in Fees /\ part.protocol + part.manager <= fee
  BY <1>1, RedemptionFeeFacts
<1>3. fee < n
  <2>1. /\ feeConfig.redemption \in Nat /\ BpsDenominator \in Nat \ {0}
        /\ feeConfig.redemption <= MaxRedemptionFeeBps /\ MaxRedemptionFeeBps \in Nat
        /\ 2 * MaxRedemptionFeeBps <= BpsDenominator
    BY <1>1 DEF TypeOK, Rates, CoreAssumption
  <2>2. 2 * feeConfig.redemption <= BpsDenominator
    BY <2>1
  <2> QED
    BY <1>1, <2>1, <2>2, HalfFeeLeavesSome DEF RedemptionFeeOf
<1> HIDE DEF fee, part
<1>4. Supply > 0 /\ n - fee \in Nat /\ n - fee > 0 /\ n - fee <= Supply
  BY <1>1, <1>2, <1>3 DEF Supply
<1>5. \A a \in basket : Entitlement(n - fee, a) <= vault[a]
  <2>1. basket \subseteq Assets
    BY <1>1 DEF TypeOK
  <2> QED
    BY <1>1, <1>4, <2>1, EntitlementFacts
<1>6. /\ settlement.protocolInVault + part.protocol <= U64Max
      /\ settlement.managerInVault + part.manager <= U64Max
  <2>1. /\ settlement.protocolInVault \in Nat /\ settlement.managerInVault \in Nat
        /\ settlement.protocolInVault + settlement.managerInVault <= feeVault
    BY DEF IInv, TypeOK, Settlement, FeeSharesBacked
  <2>2. part.protocol \in Nat /\ part.manager \in Nat
    BY <1>2 DEF Fees
  <2>3. feeVault + fee <= U64Max
    BY <1>1, <1>2, <1>3 DEF Supply
  <2> QED
    BY <1>1, <1>2, <2>1, <2>2, <2>3
<1> QED
  BY <1>1, <1>4, <1>5, <1>6 DEF CanRedeem, fee, part

(* Whoever is attributed shares has them in an initialised account.            *)
Attributed ==
  ~settlement.initialized
    => settlement.protocolInVault = 0 /\ settlement.managerInVault = 0

LEMMA AttributedStep == ASSUME Attributed, [Next]_vars PROVE Attributed'
<1>1. CASE settlement' = settlement
  BY <1>1 DEF Attributed
<1>2. CASE settlement'.initialized
  BY <1>2 DEF Attributed
<1>3. \A part : CreditFees(part).initialized /\ MoveToPending(part).initialized
  BY DEF CreditFees, MoveToPending
<1>4. ASSUME NEW n \in Amounts1,
             \/ MintReserveTokensInKind(n) \/ MintReserveTokensInKindUsdcFee(n)
             \/ RedeemReserveTokensInKind(n) \/ RedeemFeeVaultShares(n)
             \/ SendSharesToFeeVault(n)
      PROVE  settlement' = settlement \/ settlement'.initialized
  BY <1>3, <1>4, Zenon
  DEF MintReserveTokensInKind, MintReserveTokensInKindUsdcFee,
      RedeemReserveTokensInKind, RedeemFeeVaultShares, SendSharesToFeeVault
<1>5. ASSUME NEW n \in Amounts1, NEW amounts \in [Assets -> Amount],
             SeedReserve(amounts, n) \/ SeedReserveUsdcFee(amounts, n)
      PROVE  settlement' = settlement \/ settlement'.initialized
  BY <1>3, <1>5, Zenon DEF SeedReserve, SeedReserveUsdcFee
<1>6. CASE AccrueFees
  BY <1>1, <1>2, <1>3, <1>6, Zenon DEF AccrueFees
<1>7. ASSUME NEW a \in Assets,
             \/ InitializeReserveAsset(a) \/ AddReserveAssetActive(a)
             \/ RemoveReserveAsset(a)
             \/ \E n \in Amounts1 : FundNewReserveAsset(a, n) \/ SendAssetToVault(a, n)
      PROVE  settlement' = settlement
  BY <1>7
  DEF InitializeReserveAsset, AddReserveAssetActive, RemoveReserveAsset,
      FundNewReserveAsset, SendAssetToVault
<1>8. ASSUME NEW sell \in Assets, NEW buy \in Assets,
             NEW n \in Amounts1, NEW m \in Amounts1,
             ExecuteRebalanceLeg(sell, buy, n, m) \/ RebalanceSwap(sell, buy, n, m)
      PROVE  settlement' = settlement
  BY <1>8 DEF ExecuteRebalanceLeg, RebalanceSwap, MoveBetweenVaults
<1>9. CASE \/ UNCHANGED vars \/ CreateReserve \/ PauseReserve \/ UnpauseReserve
           \/ InitiateWindDown \/ CloseReserve \/ Tick
           \/ \E p \in BOOLEAN : SetProtocolPaused(p)
  BY <1>1, <1>9
  DEF vars, CreateReserve, PauseReserve, UnpauseReserve, InitiateWindDown,
      CloseReserve, Tick, SetProtocolPaused
<1> QED
  BY <1>1, <1>2, <1>4, <1>5, <1>6, <1>7, <1>8, <1>9 DEF Next

LEMMA AttributedSharesCanBeRedeemed ==
  ASSUME CoreAssumption, IInv, Attributed, status \in Live,
         NEW n \in 1 .. settlement.protocolInVault + settlement.managerInVault
  PROVE  CanRedeemFeeShares(n)
<1> DEFINE p == settlement.protocolInVault
           m == settlement.managerInVault
<1>1. TypeOK /\ p \in Nat /\ m \in Nat /\ p + m <= feeVault
  BY DEF IInv, TypeOK, Settlement, FeeSharesBacked
<1>2. n \in Nat /\ n > 0 /\ n <= p + m
  BY <1>1
<1>3. settlement.initialized
  BY <1>1, <1>2 DEF Attributed
<1>4. FeeShareParts(n).protocol <= p /\ FeeShareParts(n).manager <= m
  BY <1>1, <1>2, WeightSplit DEF FeeShareParts
<1>5. n <= feeVault /\ n <= Supply /\ Supply > 0
  BY <1>1, <1>2 DEF Supply, TypeOK
<1>6. \A a \in basket : Entitlement(n, a) <= vault[a]
  <2>1. basket \subseteq Assets
    BY <1>1 DEF TypeOK
  <2> QED
    BY <1>1, <1>2, <1>5, <2>1, EntitlementFacts
<1> QED
  BY <1>2, <1>3, <1>4, <1>5, <1>6 DEF CanRedeemFeeShares

-----------------------------------------------------------------------------
(* Accrual: the fee of a period is at most the fee of the exposure.            *)
LEMMA AnnualFeeMonotone ==
  ASSUME CoreAssumption, TypeOK, NEW m \in Nat, NEW n \in Nat, m <= n
  PROVE  AnnualFeeOf(m) <= AnnualFeeOf(n)
<1> DEFINE D == BpsDenominator * SecondsPerYear
           E == EffectiveBps(feeConfig.annual, MinAnnualFeeBps)
<1>1. D \in Nat \ {0} /\ E \in Nat
  <2>1. /\ feeConfig.annual \in Nat /\ MinAnnualFeeBps \in Nat
        /\ BpsDenominator \in Nat \ {0} /\ SecondsPerYear \in Nat \ {0}
    BY DEF TypeOK, Rates, CoreAssumption
  <2>2. E \in Nat
    BY <2>1, ConfiguredSplit
  <2>3. D \in Nat \ {0}
    BY <2>1, SMT
  <2> QED
    BY <2>2, <2>3
<1>2. AnnualFeeOf(m) = MulDivCeil(m, E, D) /\ AnnualFeeOf(n) = MulDivCeil(n, E, D)
  BY DEF AnnualFeeOf
<1> HIDE DEF D, E
<1> QED
  BY <1>1, <1>2, CeilMonotone

LEMMA StepWithinRate ==
  ASSUME CoreAssumption, IInv, [Next]_vars
  PROVE  WithinRate
<1>1. TypeOK /\ holders \in Nat /\ feeVault \in Nat /\ exposure \in Nat
  BY DEF IInv, TypeOK
<1>2. SUFFICES ASSUME feeVault' > feeVault, holders' = holders
               PROVE  feeVault' - feeVault <= AnnualFeeOf(exposure)
  BY DEF WithinRate, Dilutes
<1>3. CASE AccrueFees
  <2> DEFINE t == Checkpoint(Supply)
  <2>1. t.period \in Nat /\ t.period <= exposure
    BY <1>1, SupplyIsNat, CheckpointFacts DEF IInv, Tvl
  <2>2. feeVault' = feeVault + AnnualFeeOf(t.period)
    BY <1>1, <1>2, <1>3 DEF AccrueFees
  <2>3. AnnualFeeOf(t.period) \in Nat /\ AnnualFeeOf(exposure) \in Nat
        /\ AnnualFeeOf(t.period) <= AnnualFeeOf(exposure)
    BY <1>1, <2>1, AnnualFeeFacts, AnnualFeeMonotone
  <2> HIDE DEF t
  <2> QED
    BY <1>1, <2>2, <2>3
<1>4. ASSUME NEW n \in Amounts1,
             MintReserveTokensInKind(n) \/ MintReserveTokensInKindUsdcFee(n)
      PROVE  FALSE
  BY <1>1, <1>2, <1>4, MintAtFairPrice
<1>5. ASSUME NEW n \in Amounts1, RedeemReserveTokensInKind(n) \/ RedeemFeeVaultShares(n)
      PROVE  FALSE
  <2>1. holders' # holders \/ ~(feeVault' > feeVault)
    BY <1>5, RedeemAtFairPrice
  <2> QED
    BY <1>1, <1>2, <2>1
<1>6. ASSUME NEW n \in Amounts1, SendSharesToFeeVault(n) PROVE FALSE
  BY <1>1, <1>2, <1>6 DEF SendSharesToFeeVault, Amounts1
<1>7. ASSUME NEW n \in Amounts1, NEW amounts \in [Assets -> Amount],
             SeedReserve(amounts, n) \/ SeedReserveUsdcFee(amounts, n)
      PROVE  FALSE
  <2>1. n \in Nat /\ n > 0
    BY DEF Amounts1
  <2>2. CASE SeedReserve(amounts, n)
    <3> DEFINE fee == MintFeeOf(n)
    <3>1. fee \in Nat
      BY <1>1, <2>1, MintFeeFacts
    <3>2. holders' = holders + (n - fee) /\ n - fee > 0
      BY <2>2 DEF SeedReserve
    <3> HIDE DEF fee
    <3> QED
      BY <1>1, <1>2, <2>1, <3>1, <3>2
  <2>3. CASE SeedReserveUsdcFee(amounts, n)
    BY <1>1, <1>2, <2>1, <2>3 DEF SeedReserveUsdcFee
  <2> QED
    BY <1>7, <2>2, <2>3
<1>8. feeVault' # feeVault
  BY <1>1, <1>2
<1>9. ASSUME NEW a \in Assets,
             \/ InitializeReserveAsset(a) \/ AddReserveAssetActive(a)
             \/ RemoveReserveAsset(a)
             \/ \E n \in Amounts1 : FundNewReserveAsset(a, n) \/ SendAssetToVault(a, n)
      PROVE  FALSE
  BY <1>8, <1>9
  DEF InitializeReserveAsset, AddReserveAssetActive, RemoveReserveAsset,
      FundNewReserveAsset, SendAssetToVault
<1>10. ASSUME NEW sell \in Assets, NEW buy \in Assets,
              NEW n \in Amounts1, NEW m \in Amounts1,
              ExecuteRebalanceLeg(sell, buy, n, m) \/ RebalanceSwap(sell, buy, n, m)
       PROVE  FALSE
  BY <1>8, <1>10 DEF ExecuteRebalanceLeg, RebalanceSwap, MoveBetweenVaults
<1>11. ASSUME \/ UNCHANGED vars \/ CreateReserve \/ PauseReserve \/ UnpauseReserve
              \/ InitiateWindDown \/ CloseReserve \/ Tick
              \/ \E p \in BOOLEAN : SetProtocolPaused(p)
       PROVE  FALSE
  BY <1>8, <1>11
  DEF vars, CreateReserve, PauseReserve, UnpauseReserve, InitiateWindDown,
      CloseReserve, Tick, SetProtocolPaused
<1> QED
  BY <1>3, <1>4, <1>5, <1>6, <1>7, <1>9, <1>10, <1>11 DEF Next

-----------------------------------------------------------------------------
(* The Reserve as its holders see it: every step is a step of ShareLedger, or  *)
(* changes nothing they see.                                                   *)
SeenByHolders == <<Supply, vault, status = "Closed">>

LEMMA InitIsLedgerInit == ASSUME Init PROVE Ledger!Init
BY DEF Init, Ledger!Init, Supply

(* A step of an open Reserve that one of the ledger's moves describes.         *)
LEMMA OpenStepMoves ==
  ASSUME IInv', status # "Closed", status' # "Closed",
         \/ Ledger!IssueFirst \/ Ledger!Issue \/ Ledger!Redeem
         \/ Ledger!Accrue \/ Ledger!Gift \/ Ledger!Trade
  PROVE  Ledger!Move
<1>1. Supply' \in Nat
  <2>1. holders' \in Nat /\ feeVault' \in Nat
    BY DEF IInv, TypeOK
  <2> QED
    BY <2>1, AddedNats DEF Supply
<1>2. vault' \in [Assets -> Nat]
  BY DEF IInv, TypeOK, Amount
<1> QED
  BY <1>1, <1>2 DEF Ledger!Move

LEMMA CloseIsLedgerClose == ASSUME IInv, CloseReserve PROVE Ledger!Close
<1>1. \A a \in Assets : vault[a] = 0
  BY DEF CloseReserve, IInv, Support
<1> QED
  BY <1>1 DEF CloseReserve, Ledger!Close, Supply

LEMMA BasketStepSeen ==
  ASSUME IInv, IInv', NEW a \in Assets,
         \/ InitializeReserveAsset(a) \/ AddReserveAssetActive(a)
         \/ RemoveReserveAsset(a)
         \/ \E n \in Amounts1 : FundNewReserveAsset(a, n) \/ SendAssetToVault(a, n)
  PROVE  Ledger!Move \/ UNCHANGED SeenByHolders
<1>1. vault \in [Assets -> Amount]
  BY DEF IInv, TypeOK
<1>2. UNCHANGED <<holders, feeVault>> /\ Supply' = Supply
  BY DEF InitializeReserveAsset, AddReserveAssetActive, RemoveReserveAsset,
         FundNewReserveAsset, SendAssetToVault, Supply
<1>3. CASE InitializeReserveAsset(a) \/ AddReserveAssetActive(a) \/ RemoveReserveAsset(a)
  <2>1. vault' = vault
    <3>1. CASE RemoveReserveAsset(a)
      BY <3>1 DEF RemoveReserveAsset
    <3>2. CASE InitializeReserveAsset(a) \/ AddReserveAssetActive(a)
      <4>1. vault' = [vault EXCEPT ![a] = 0] /\ a \notin basket
        BY <3>2 DEF InitializeReserveAsset, AddReserveAssetActive
      <4>2. vault[a] = 0
        BY <4>1 DEF IInv, Support
      <4> QED
        BY <1>1, <4>1, <4>2
    <3> QED
      BY <1>3, <3>1, <3>2
  <2>2. status # "Closed" /\ status' # "Closed"
    BY <1>3 DEF InitializeReserveAsset, AddReserveAssetActive, RemoveReserveAsset
  <2> QED
    BY <1>2, <2>1, <2>2 DEF SeenByHolders
<1>4. ASSUME NEW n \in Amounts1, FundNewReserveAsset(a, n) \/ SendAssetToVault(a, n)
      PROVE  Ledger!Move
  <2>1. n \in Nat /\ n > 0 /\ \A b \in Assets : vault[b] \in Nat
    BY <1>1 DEF Amounts1, Amount
  <2>2. a \in basket /\ status' = status
    BY <1>4 DEF FundNewReserveAsset, SendAssetToVault
  <2>3. status # "Closed"
    BY <2>2 DEF IInv, Support
  <2>4. \A b \in Assets : vault'[b] >= vault[b]
    BY <1>1, <1>4, <2>1 DEF FundNewReserveAsset, SendAssetToVault
  <2>5. Ledger!Gift
    BY <1>2, <2>4 DEF Ledger!Gift
  <2> QED
    BY <2>2, <2>3, <2>5, OpenStepMoves
<1> QED
  BY <1>3, <1>4

LEMMA RebalanceStepSeen ==
  ASSUME CoreAssumption, IInv, IInv', NEW sell \in Assets, NEW buy \in Assets,
         NEW n \in Amounts1, NEW m \in Amounts1,
         ExecuteRebalanceLeg(sell, buy, n, m) \/ RebalanceSwap(sell, buy, n, m)
  PROVE  Ledger!Move
<1>1. /\ \A a \in Assets : vault[a] \in Nat
      /\ n \in Nat /\ n > 0 /\ m \in Nat /\ m > 0
  BY DEF IInv, TypeOK, Amounts1, Amount
<1>2. MoveBetweenVaults(sell, buy, n, m)
  BY DEF ExecuteRebalanceLeg, RebalanceSwap
<1>3. status # "Closed" /\ status' = status /\ Supply' = Supply
  BY <1>2 DEF MoveBetweenVaults, ExecuteRebalanceLeg, RebalanceSwap, Live, Supply
<1>4. /\ vault'[sell] < vault[sell] /\ vault'[buy] > vault[buy]
      /\ \A a \in Assets \ {sell, buy} : vault'[a] = vault[a]
  BY <1>1, <1>2 DEF MoveBetweenVaults
<1>5. Ledger!Trade
  BY <1>3, <1>4 DEF Ledger!Trade
<1> QED
  BY <1>3, <1>5, OpenStepMoves

LEMMA SeedStepSeen ==
  ASSUME CoreAssumption, IInv, IInv', NoneIssued,
         NEW n \in Amounts1, NEW amounts \in [Assets -> Amount],
         SeedReserve(amounts, n) \/ SeedReserveUsdcFee(amounts, n)
  PROVE  Ledger!Move
<1>1. /\ TypeOK /\ n \in Nat /\ n > 0
      /\ \A a \in Assets : vault[a] \in Nat /\ amounts[a] \in Nat
  BY DEF IInv, TypeOK, Amounts1, Amount
<1>2. status = "AssetsInitializing" /\ status' = "Active" /\ vault' = Deposit(amounts)
  BY DEF SeedReserve, SeedReserveUsdcFee, SeedGuard
<1>3. holders = 0 /\ feeVault = 0 /\ Supply = 0
  BY <1>2 DEF NoneIssued, Unissued, Supply
<1>4. Supply' > 0
  <2>1. CASE SeedReserve(amounts, n)
    <3> DEFINE fee == MintFeeOf(n)
    <3>1. fee \in Nat
      BY <1>1, MintFeeFacts
    <3>2. holders' = holders + (n - fee) /\ feeVault' = feeVault + fee
      BY <2>1 DEF SeedReserve
    <3> HIDE DEF fee
    <3> QED
      BY <1>1, <1>3, <3>1, <3>2 DEF Supply
  <2>2. CASE SeedReserveUsdcFee(amounts, n)
    <3>1. holders' = holders + n /\ feeVault' = feeVault
      BY <2>2 DEF SeedReserveUsdcFee
    <3> QED
      BY <1>1, <1>3, <3>1 DEF Supply
  <2> QED
    BY <2>1, <2>2
<1>5. \A a \in Assets : vault'[a] >= vault[a]
  BY <1>1, <1>2 DEF Deposit
<1>6. Ledger!IssueFirst
  BY <1>3, <1>4, <1>5 DEF Ledger!IssueFirst
<1> QED
  BY <1>2, <1>6, OpenStepMoves

LEMMA PricedStepSeen ==
  ASSUME CoreAssumption, IInv, IInv', NEW n \in Amounts1,
         \/ MintReserveTokensInKind(n) \/ MintReserveTokensInKindUsdcFee(n)
         \/ RedeemReserveTokensInKind(n) \/ RedeemFeeVaultShares(n)
  PROVE  Ledger!Move
<1>1. ASSUME AtFairPrices, NEW a \in Assets PROVE Ledger!AtFairPrice(a)
  BY <1>1 DEF AtFairPrices, Ledger!AtFairPrice
<1>2. CASE MintReserveTokensInKind(n) \/ MintReserveTokensInKindUsdcFee(n)
  <2>1. /\ Supply > 0 /\ Supply' > Supply /\ AtFairPrices
        /\ status # "Closed" /\ status' # "Closed"
    BY <1>2, MintAtFairPrice
  <2>2. Ledger!Issue
    BY <1>1, <2>1 DEF Ledger!Issue
  <2> QED
    BY <2>1, <2>2, OpenStepMoves
<1>3. CASE RedeemReserveTokensInKind(n) \/ RedeemFeeVaultShares(n)
  <2>1. /\ Supply' < Supply /\ AtFairPrices
        /\ status # "Closed" /\ status' # "Closed"
    BY <1>3, RedeemAtFairPrice DEF Live
  <2>2. Ledger!Redeem
    BY <1>1, <2>1 DEF Ledger!Redeem
  <2> QED
    BY <2>1, <2>2, OpenStepMoves
<1> QED
  BY <1>2, <1>3

LEMMA AccrueStepSeen ==
  ASSUME CoreAssumption, IInv, IInv', AccrueFees
  PROVE  Ledger!Move \/ UNCHANGED SeenByHolders
<1> DEFINE fee == AnnualFeeOf(Checkpoint(Supply).period)
<1>1. TypeOK /\ holders \in Nat /\ feeVault \in Nat /\ Supply \in Nat
  BY SupplyIsNat DEF IInv, TypeOK
<1>2. vault' = vault /\ status' = status /\ status # "Closed" /\ holders' = holders
  BY DEF AccrueFees, Live
<1>3. fee \in Nat
  BY <1>1, CheckpointFacts, AnnualFeeFacts DEF IInv, Tvl
<1>4. feeVault' = feeVault \/ feeVault' = feeVault + fee
  BY DEF AccrueFees
<1> HIDE DEF fee
<1>5. Supply' = Supply \/ Supply' > Supply
  BY <1>1, <1>2, <1>3, <1>4 DEF Supply
<1>6. CASE Supply' = Supply
  BY <1>2, <1>6 DEF SeenByHolders
<1>7. CASE Supply' > Supply
  <2>1. Ledger!Accrue
    BY <1>2, <1>7 DEF Ledger!Accrue
  <2> QED
    BY <1>2, <2>1, OpenStepMoves
<1> QED
  BY <1>5, <1>6, <1>7

LEMMA StepIsLedgerStep ==
  ASSUME CoreAssumption, IInv, IInv', NoneIssued, [Next]_vars
  PROVE  Ledger!Move \/ Ledger!Close \/ UNCHANGED SeenByHolders
<1>1. CASE \/ UNCHANGED vars \/ CreateReserve \/ PauseReserve \/ UnpauseReserve
           \/ InitiateWindDown \/ Tick \/ \E p \in BOOLEAN : SetProtocolPaused(p)
  <2>1. UNCHANGED <<holders, feeVault, vault>>
        /\ (status' = "Closed") = (status = "Closed")
    BY <1>1
    DEF vars, CreateReserve, PauseReserve, UnpauseReserve, InitiateWindDown, Tick,
        SetProtocolPaused
  <2> QED
    BY <2>1 DEF SeenByHolders, Supply
<1>2. CASE CloseReserve
  BY <1>2, CloseIsLedgerClose
<1>3. CASE AccrueFees
  BY <1>3, AccrueStepSeen
<1>4. ASSUME NEW a \in Assets,
             \/ InitializeReserveAsset(a) \/ AddReserveAssetActive(a)
             \/ RemoveReserveAsset(a)
             \/ \E n \in Amounts1 : FundNewReserveAsset(a, n) \/ SendAssetToVault(a, n)
      PROVE  Ledger!Move \/ UNCHANGED SeenByHolders
  BY <1>4, BasketStepSeen
<1>5. ASSUME NEW n \in Amounts1,
             \/ MintReserveTokensInKind(n) \/ MintReserveTokensInKindUsdcFee(n)
             \/ RedeemReserveTokensInKind(n) \/ RedeemFeeVaultShares(n)
      PROVE  Ledger!Move
  BY <1>5, PricedStepSeen
<1>6. ASSUME NEW n \in Amounts1, SendSharesToFeeVault(n) PROVE UNCHANGED SeenByHolders
  <2>1. n \in Nat /\ holders \in Nat /\ feeVault \in Nat
    BY DEF IInv, TypeOK, Amounts1
  <2> QED
    BY <1>6, <2>1 DEF SendSharesToFeeVault, SeenByHolders, Supply
<1>7. ASSUME NEW n \in Amounts1, NEW amounts \in [Assets -> Amount],
             SeedReserve(amounts, n) \/ SeedReserveUsdcFee(amounts, n)
      PROVE  Ledger!Move
  BY <1>7, SeedStepSeen
<1>8. ASSUME NEW sell \in Assets, NEW buy \in Assets,
             NEW n \in Amounts1, NEW m \in Amounts1,
             ExecuteRebalanceLeg(sell, buy, n, m) \/ RebalanceSwap(sell, buy, n, m)
      PROVE  Ledger!Move
  BY <1>8, RebalanceStepSeen
<1> QED
  BY <1>1, <1>2, <1>3, <1>4, <1>5, <1>6, <1>7, <1>8 DEF Next

-----------------------------------------------------------------------------
(* The theorems.                                                               *)

LEMMA Inductive == Spec => [](IInv /\ NoneIssued)
<1>1. Init => IInv /\ NoneIssued
  BY CoreAssumption, InitEstablishes DEF Init, NoneIssued
<1>2. IInv /\ NoneIssued /\ [Next]_vars => IInv' /\ NoneIssued'
  BY CoreAssumption, NextPreserves, NoneIssuedStep
<1> QED
  BY <1>1, <1>2, PTL DEF Spec

(* No reachable state leaves the types: in particular no balance underflows    *)
(* and the supply stays a u64.                                                 *)
THEOREM TypeCorrect == Spec => []TypeOK
<1>1. IInv => TypeOK
  BY DEF IInv
<1> QED
  BY <1>1, Inductive, PTL

(* The shares FeeSettlement attributes to the two parties are always in the    *)
(* fee vault (seed, mint, redeem, accrue_fees and redeem_fee_vault_shares).    *)
THEOREM FeeSharesAlwaysBacked == Spec => []FeeSharesBacked
<1>1. IInv => FeeSharesBacked
  BY DEF IInv
<1> QED
  BY <1>1, Inductive, PTL

(* close_reserve leaves no share and no vault balance, for ever.               *)
THEOREM ClosedReserveOwesNothing == Spec => []ClosedOwesNothing
<1>1. IInv => ClosedOwesNothing
  BY DEF IInv
<1> QED
  BY <1>1, Inductive, PTL

(* The checkpoints of every handler that changes the supply, and the one that  *)
(* takes none, never bill more share-seconds than were held.                   *)
THEOREM AccumulatorNeverOverbills == Spec => []NeverOverbilled
<1>1. IInv => NeverOverbilled
  BY DEF IInv
<1> QED
  BY <1>1, Inductive, PTL

(* The rounding of seed, mint, redeem and redeem_fee_vault_shares never lowers *)
(* what is behind one share of those who stay.                                 *)
THEOREM BackingIsNeverDiluted == Spec => BackingNeverDiluted
<1>1. IInv /\ NoneIssued /\ [Next]_vars => [KeepsBacking]_vars
  BY CoreAssumption, StepKeepsBacking
<1> QED
  BY <1>1, Inductive, PTL DEF Spec, BackingNeverDiluted

(* Neither a pause, a wind-down, the redemption fee nor a counter at its limit *)
(* makes redeem_reserve_tokens_in_kind refuse two shares or more.              *)
THEOREM HoldersAreNeverLockedIn == Spec => []RedemptionNeverBlocked
<1>1. IInv => RedemptionNeverBlocked
  BY CoreAssumption, AnyHolderCanRedeem DEF RedemptionNeverBlocked, RedeemableStatuses
<1> QED
  BY <1>1, Inductive, PTL

(* redeem_fee_vault_shares never refuses a portion of what is attributed.      *)
THEOREM AttributedSharesAreRedeemable == Spec => []FeeSharesRedeemable
<1>1. Init => Attributed
  BY DEF Init, Attributed, NoSettlement
<1>2. Attributed /\ [Next]_vars => Attributed'
  BY AttributedStep
<1>3. IInv /\ Attributed => FeeSharesRedeemable
  BY CoreAssumption, AttributedSharesCanBeRedeemed DEF FeeSharesRedeemable
<1> QED
  BY <1>1, <1>2, <1>3, Inductive, PTL DEF Spec

(* accrue_fees never mints more than the rate's part of the shares held.       *)
THEOREM AccrualStaysWithinRate == Spec => AccrualWithinRate
<1>1. IInv /\ [Next]_vars => [WithinRate]_vars
  BY CoreAssumption, StepWithinRate
<1> QED
  BY <1>1, Inductive, PTL DEF Spec, AccrualWithinRate

(* The burn of the last share empties every vault of the basket.               *)
THEOREM LastShareEmptiesVaults == Spec => LastShareTakesEverything
<1>1. IInv /\ NoneIssued /\ [Next]_vars => [EmptiesVaults]_vars
  BY CoreAssumption, StepKeepsBacking
<1> QED
  BY <1>1, Inductive, PTL DEF Spec, LastShareTakesEverything

(* Whatever its fees, its basket, its pauses and its rebalances, the Reserve   *)
(* issues and redeems every share at its part of each asset, to less than a    *)
(* unit, and once closed it is closed and empty for ever.                      *)
THEOREM ReserveImplementsLedger == Spec => LedgerImplemented
<1>1. Init => Ledger!Init
  BY InitIsLedgerInit
<1>2. IInv /\ IInv' /\ NoneIssued /\ [Next]_vars
        => [Ledger!Move \/ Ledger!Close]_(Ledger!vars)
  BY CoreAssumption, StepIsLedgerStep DEF SeenByHolders, Ledger!vars
<1> QED
  BY <1>1, <1>2, Inductive, PTL DEF Spec, LedgerImplemented, Ledger!Spec
=============================================================================
