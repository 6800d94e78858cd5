----------------------------- MODULE ReserveCore -----------------------------
(* The ledger of one Reserve of the ssr_protocol program: the Reserve Token    *)
(* supply, the vaults that back it, the fee vault and its attribution          *)
(* (FeeSettlement), the time-weighted fee accumulator (TvlAccrual) and the     *)
(* Reserve's lifecycle status.                                                 *)
(*                                                                             *)
(* A transaction of the chain is atomic: an instruction that fails leaves no   *)
(* trace, so a failing path is a disabled action.  The caller's slippage       *)
(* limits only decide whether the caller's own instruction fails and are left  *)
(* out; every signer is assumed to hold the authority the handler asks for     *)
(* (who holds which authority is the subject of Delegates).                    *)
(*                                                                             *)
(* Token-program balances (mint supply, vaults, fee vault) are state of the    *)
(* chain.  All Reserve Tokens outside the fee vault are one number, holders:   *)
(* no handler tells two holders apart.                                         *)
EXTENDS FeeMath, FiniteSets

CONSTANTS
  Assets,            \* the asset mints a Reserve may register
  U64Max,            \* the largest token amount (2^64-1 on chain)
  BpsDenominator,    \* BPS_DENOMINATOR
  SecondsPerYear,    \* SECONDS_PER_YEAR
  MinSeedAmount,     \* MIN_SEED_AMOUNT_PER_ASSET
  MaxReserveAssets,  \* ProtocolConfig.max_reserve_assets
  MinMintFeeBps,     \* PROTOCOL_MIN_MINT_FEE_BPS
  MinAnnualFeeBps,   \* PROTOCOL_MIN_ANNUAL_TVL_FEE_BPS
  MaxMintFeeBps,     \* MAX_MINT_FEE_BPS
  MaxRedemptionFeeBps, \* MAX_REDEMPTION_FEE_BPS
  MaxAnnualFeeBps,   \* MAX_ANNUAL_TVL_FEE_BPS
  FeeConfigs,        \* the fee configurations a creator may ask for
  MaxTime,           \* bound of the model: the last second of the clock
  MaxPending         \* bound of the model: fee shares awaiting distribution

ASSUME CoreAssumption ==
  /\ U64Max \in Nat /\ MinSeedAmount \in Nat \ {0} /\ MaxReserveAssets \in Nat
  /\ BpsDenominator \in Nat \ {0} /\ SecondsPerYear \in Nat \ {0}
  /\ MinMintFeeBps \in Nat /\ MinAnnualFeeBps \in Nat
  /\ MaxMintFeeBps \in Nat /\ MaxAnnualFeeBps \in Nat
  /\ MaxRedemptionFeeBps \in Nat /\ 2 * MaxRedemptionFeeBps <= BpsDenominator
  /\ FeeConfigs \subseteq [mint : Nat, redemption : Nat, annual : Nat]
  /\ MaxTime \in Nat /\ MaxPending \in Nat

VARIABLES
  status,         \* Reserve.status; "None" before create_reserve
  protocolPaused, \* ProtocolConfig.paused
  feeConfig,      \* the three rates of Reserve.fee_config
  basket,         \* the assets with a ReserveAsset account and a vault
  vault,          \* balance of each asset's vault
  holders,        \* Reserve Tokens outside the fee vault
  feeVault,       \* Reserve Tokens in the fee vault
  settlement,     \* FeeSettlement
  staged,         \* balance of each asset's settlement staging account
  tvl,            \* TvlAccrual
  now,            \* the chain's clock
  exposure        \* history: the integral of supply since the last settlement

vars == <<status, protocolPaused, feeConfig, basket, vault, holders, feeVault,
          settlement, staged, tvl, now, exposure>>

-----------------------------------------------------------------------------
(* State.                                                                      *)

Statuses == {"None", "Created", "AssetsInitializing", "Active", "Paused",
             "WindDown", "Closed"}
Live     == {"Created", "AssetsInitializing", "Active", "Paused", "WindDown"}

Amount   == 0 .. U64Max
Rates    == [mint : Nat, redemption : Nat, annual : Nat]
Settlement == [initialized : BOOLEAN,
               protocolInVault : Nat, managerInVault : Nat,
               protocolPending : Nat, managerPending : Nat]
Tvl      == [started : BOOLEAN, lastCheckpoint : Nat, lastSettled : Nat,
             period : Nat]

NoRates      == [mint |-> 0, redemption |-> 0, annual |-> 0]
NoSettlement == [initialized |-> FALSE, protocolInVault |-> 0, managerInVault |-> 0,
                 protocolPending |-> 0, managerPending |-> 0]
NoTvl        == [started |-> FALSE, lastCheckpoint |-> 0, lastSettled |-> 0,
                 period |-> 0]

(* The mint's supply.                                                          *)
Supply == holders + feeVault

Init ==
  /\ status = "None" /\ protocolPaused = FALSE /\ feeConfig = NoRates
  /\ basket = {} /\ vault = [a \in Assets |-> 0] /\ staged = [a \in Assets |-> 0]
  /\ holders = 0 /\ feeVault = 0
  /\ settlement = NoSettlement /\ tvl = NoTvl
  /\ now = 0 /\ exposure = 0

-----------------------------------------------------------------------------
(* Helpers shared by the handlers.                                             *)

(* Fault: the elapsed time is counted from the last settlement, so that time a *)
(* former checkpoint has counted is counted again.                             *)
CheckpointSinceSettlement(supplyBefore) ==
  IF ~tvl.started
  THEN [started |-> TRUE, lastCheckpoint |-> now, lastSettled |-> now, period |-> 0]
  ELSE [started |-> TRUE, lastCheckpoint |-> now, lastSettled |-> tvl.lastSettled,
        period |-> tvl.period + supplyBefore * (now - tvl.lastSettled)]

(* accrue_fees::checkpoint_tvl_accrual: the first call only starts the clock,  *)
(* a later one adds the supply before the change for the time since the last.  *)
Checkpoint(supplyBefore) ==
  IF ~tvl.started
  THEN [started |-> TRUE, lastCheckpoint |-> now, lastSettled |-> now, period |-> 0]
  ELSE IF now <= tvl.lastCheckpoint
  THEN tvl
  ELSE [started |-> TRUE, lastCheckpoint |-> now, lastSettled |-> tvl.lastSettled,
        period |-> tvl.period + supplyBefore * (now - tvl.lastCheckpoint)]

(* Fault: the account that attributes the fee shares is never initialised.     *)
CreditFeesUninitialized(part) ==
  [settlement EXCEPT !.protocolInVault = @ + part.protocol,
                     !.managerInVault = @ + part.manager]

(* The fee vault is credited with newly minted fee shares, attributed to the   *)
(* protocol and the manager; the account is initialised on first use.          *)
CreditFees(part) ==
  [initialized     |-> TRUE,
   protocolInVault |-> settlement.protocolInVault + part.protocol,
   managerInVault  |-> settlement.managerInVault + part.manager,
   protocolPending |-> settlement.protocolPending,
   managerPending  |-> settlement.managerPending]

(* Faults: the two parties' parts are swapped; the shares are counted as       *)
(* pending and still as in the vault.                                          *)
MoveToPendingSwapped(part) ==
  [initialized     |-> TRUE,
   protocolInVault |-> settlement.protocolInVault - part.manager,
   managerInVault  |-> settlement.managerInVault - part.protocol,
   protocolPending |-> settlement.protocolPending + part.manager,
   managerPending  |-> settlement.managerPending + part.protocol]
MoveToPendingTwice(part) ==
  [initialized     |-> TRUE,
   protocolInVault |-> settlement.protocolInVault,
   managerInVault  |-> settlement.managerInVault,
   protocolPending |-> settlement.protocolPending + part.protocol,
   managerPending  |-> settlement.managerPending + part.manager]

(* Redeemed fee shares leave the fee vault and await the distribution of what  *)
(* the assets they stood for are sold for.                                     *)
MoveToPending(part) ==
  [initialized     |-> TRUE,
   protocolInVault |-> settlement.protocolInVault - part.protocol,
   managerInVault  |-> settlement.managerInVault - part.manager,
   protocolPending |-> settlement.protocolPending + part.protocol,
   managerPending  |-> settlement.managerPending + part.manager]

MintFeeBps == EffectiveBps(feeConfig.mint, MinMintFeeBps)
MintFeeOf(shares) == MulDivCeil(shares, MintFeeBps, BpsDenominator)
MintFeeSplit(fee) ==
  SplitTotalFee(fee, SplitConfiguredBps(feeConfig.mint, MinMintFeeBps))

RedemptionFeeOf(shares) == MulDivCeil(shares, feeConfig.redemption, BpsDenominator)
RedemptionFeeSplit(fee) ==
  SplitTotalFee(fee, SplitRedemptionBps(feeConfig.redemption, MinMintFeeBps))

AnnualFeeOf(period) ==
  MulDivCeil(period, EffectiveBps(feeConfig.annual, MinAnnualFeeBps),
             BpsDenominator * SecondsPerYear)
AnnualFeeSplit(fee) ==
  SplitTotalFee(fee, SplitConfiguredBps(feeConfig.annual, MinAnnualFeeBps))

(* Faults: a deposit rounded down, and one rounded up past the exact amount; a *)
(* share of a vault that divides before it multiplies.                         *)
RequiredDepositRoundedDown(shares, a) == MulDivFloor(shares, vault[a], Supply)
RequiredDepositOneMore(shares, a)     == MulDivFloor(shares, vault[a], Supply) + 1
EntitlementDividedFirst(shares, a)    == shares * (vault[a] \div Supply)

(* What a deposit of shares must bring, and a withdrawal takes, of each asset  *)
(* of the basket.                                                              *)
RequiredDeposit(shares, a) == MulDivCeil(shares, vault[a], Supply)
Entitlement(shares, a)     == MulDivFloor(shares, vault[a], Supply)

Deposit(amounts)  == [a \in Assets |-> IF a \in basket THEN vault[a] + amounts[a]
                                                       ELSE vault[a]]
Withdraw(amounts) == [a \in Assets |-> IF a \in basket THEN vault[a] - amounts[a]
                                                       ELSE vault[a]]
Stage(amounts)    == [a \in Assets |-> IF a \in basket THEN staged[a] + amounts[a]
                                                       ELSE staged[a]]
WithinU64(f) == \A a \in Assets : f[a] <= U64Max

-----------------------------------------------------------------------------
(* Creation and lifecycle.                                                     *)

CreateReserve ==
  /\ status = "None" /\ ~protocolPaused
  /\ \E c \in FeeConfigs :
       /\ c.mint <= MaxMintFeeBps
       /\ c.redemption <= MaxRedemptionFeeBps
       /\ c.annual <= MaxAnnualFeeBps
       /\ feeConfig' = c
  /\ status' = "Created"
  /\ UNCHANGED <<protocolPaused, basket, vault, holders, feeVault, settlement,
                 staged, tvl, now, exposure>>

InitializeReserveAsset(a) ==
  /\ status \in {"Created", "AssetsInitializing"}
  /\ a \notin basket /\ Cardinality(basket) < MaxReserveAssets
  /\ basket' = basket \cup {a}
  /\ vault' = [vault EXCEPT ![a] = 0]
  /\ status' = "AssetsInitializing"
  /\ UNCHANGED <<protocolPaused, feeConfig, holders, feeVault, settlement, staged,
                 tvl, now, exposure>>

AddReserveAssetActive(a) ==
  /\ status = "Active"
  /\ a \notin basket /\ Cardinality(basket) < MaxReserveAssets
  /\ basket' = basket \cup {a}
  /\ vault' = [vault EXCEPT ![a] = 0]
  /\ UNCHANGED <<status, protocolPaused, feeConfig, holders, feeVault, settlement,
                 staged, tvl, now, exposure>>

FundNewReserveAsset(a, amount) ==
  /\ status = "Active"
  /\ a \in basket /\ amount > 0 /\ vault[a] = 0
  /\ vault' = [vault EXCEPT ![a] = amount]
  /\ UNCHANGED <<status, protocolPaused, feeConfig, basket, holders, feeVault,
                 settlement, staged, tvl, now, exposure>>

(* remove_reserve_asset (the last asset in order) and its compacting variant   *)
(* (any asset of at least two): either way an asset with an empty vault.       *)
RemoveReserveAsset(a) ==
  /\ status \in {"AssetsInitializing", "Active", "Paused"}
  /\ a \in basket /\ vault[a] = 0
  /\ basket' = basket \ {a}
  /\ UNCHANGED <<status, protocolPaused, feeConfig, vault, holders, feeVault,
                 settlement, staged, tvl, now, exposure>>

PauseReserve ==
  /\ status = "Active" /\ status' = "Paused"
  /\ UNCHANGED <<protocolPaused, feeConfig, basket, vault, holders, feeVault,
                 settlement, staged, tvl, now, exposure>>

UnpauseReserve ==
  /\ status = "Paused" /\ status' = "Active"
  /\ UNCHANGED <<protocolPaused, feeConfig, basket, vault, holders, feeVault,
                 settlement, staged, tvl, now, exposure>>

InitiateWindDown ==
  /\ status = "Active" /\ status' = "WindDown"
  /\ UNCHANGED <<protocolPaused, feeConfig, basket, vault, holders, feeVault,
                 settlement, staged, tvl, now, exposure>>

SetProtocolPaused(paused) ==
  /\ protocolPaused' = paused
  /\ UNCHANGED <<status, feeConfig, basket, vault, holders, feeVault, settlement,
                 staged, tvl, now, exposure>>

(* Fault: a Reserve closes as soon as its vaults are empty.                    *)
CloseReserveUnchecked ==
  /\ status = "WindDown"
  /\ \A a \in basket : vault[a] = 0
  /\ status' = "Closed" /\ basket' = {}
  /\ UNCHANGED <<protocolPaused, feeConfig, vault, holders, feeVault, settlement,
                 staged, tvl, now, exposure>>

(* close_reserve: the Reserve, its ReserveAsset accounts and its vaults go;    *)
(* FeeSettlement and the staging accounts are neither checked nor closed.      *)
CloseReserve ==
  /\ status = "WindDown"
  /\ Supply = 0
  /\ \A a \in basket : vault[a] = 0
  /\ status' = "Closed" /\ basket' = {}
  /\ UNCHANGED <<protocolPaused, feeConfig, vault, holders, feeVault, settlement,
                 staged, tvl, now, exposure>>

-----------------------------------------------------------------------------
(* Issuance.                                                                   *)

SeedGuard(amounts, shares) ==
  /\ ~protocolPaused /\ status = "AssetsInitializing" /\ basket # {}
  /\ shares > 0 /\ \A a \in basket : amounts[a] >= MinSeedAmount
  /\ WithinU64(Deposit(amounts)) /\ Supply + shares <= U64Max

SeedReserve(amounts, shares) ==
  LET fee == MintFeeOf(shares) IN
  /\ SeedGuard(amounts, shares)
  /\ shares - fee > 0
  /\ tvl' = Checkpoint(0)
  /\ status' = "Active"
  /\ vault' = Deposit(amounts)
  /\ holders' = holders + (shares - fee)
  /\ feeVault' = feeVault + fee
  /\ settlement' = IF fee > 0 THEN CreditFees(MintFeeSplit(fee)) ELSE settlement
  /\ UNCHANGED <<protocolPaused, feeConfig, basket, staged, now, exposure>>

(* The variant whose fee is paid in USDC, co-signed by the keeper: the caller  *)
(* receives every share and no fee share is minted.                            *)
SeedReserveUsdcFee(amounts, shares) ==
  /\ SeedGuard(amounts, shares)
  /\ tvl' = Checkpoint(0)
  /\ status' = "Active"
  /\ vault' = Deposit(amounts)
  /\ holders' = holders + shares
  /\ UNCHANGED <<protocolPaused, feeConfig, basket, feeVault, settlement, staged,
                 now, exposure>>

MintGuard(shares) ==
  /\ ~protocolPaused /\ status = "Active" /\ shares > 0 /\ Supply > 0
  /\ Supply + shares <= U64Max

MintReserveTokensInKind(shares) ==
  LET fee     == MintFeeOf(shares)
      deposit == Deposit([a \in Assets |-> RequiredDeposit(shares, a)])
  IN
  /\ MintGuard(shares)
  /\ shares - fee > 0
  /\ WithinU64(deposit)
  /\ tvl' = Checkpoint(Supply)
  /\ vault' = deposit
  /\ holders' = holders + (shares - fee)
  /\ feeVault' = feeVault + fee
  /\ settlement' = IF fee > 0 THEN CreditFees(MintFeeSplit(fee)) ELSE settlement
  /\ UNCHANGED <<status, protocolPaused, feeConfig, basket, staged, now, exposure>>

MintReserveTokensInKindUsdcFee(shares) ==
  LET deposit == Deposit([a \in Assets |-> RequiredDeposit(shares, a)]) IN
  /\ MintGuard(shares)
  /\ WithinU64(deposit)
  /\ tvl' = Checkpoint(Supply)
  /\ vault' = deposit
  /\ holders' = holders + shares
  /\ UNCHANGED <<status, protocolPaused, feeConfig, basket, feeVault, settlement,
                 staged, now, exposure>>

-----------------------------------------------------------------------------
(* Redemption.                                                                 *)

(* Fault: a pause of the Reserve stops its redemptions too.                    *)
RedeemableUnlessPaused == {"Active", "WindDown"}
RedeemableStatuses == {"Active", "Paused", "WindDown"}

(* Every check between a call and its last effect, those of the token program  *)
(* (the balances burnt and paid out of) and the checked sums included.         *)
CanRedeem(shares) ==
  LET fee  == RedemptionFeeOf(shares)
      net  == shares - fee
      part == RedemptionFeeSplit(fee)
  IN
  /\ status \in RedeemableStatuses
  /\ shares > 0 /\ Supply > 0 /\ shares <= holders
  /\ net > 0
  /\ \A a \in basket : Entitlement(net, a) <= vault[a]
  /\ settlement.protocolInVault + part.protocol <= U64Max
  /\ settlement.managerInVault + part.manager <= U64Max

RedeemReserveTokensInKind(shares) ==
  LET fee == RedemptionFeeOf(shares)
      net == shares - fee
  IN
  /\ CanRedeem(shares)
  /\ tvl' = Checkpoint(Supply)
  /\ vault' = Withdraw([a \in Assets |-> Entitlement(net, a)])
  /\ holders' = holders - shares
  /\ feeVault' = feeVault + fee
  /\ settlement' = IF fee > 0 THEN CreditFees(RedemptionFeeSplit(fee)) ELSE settlement
  /\ UNCHANGED <<status, protocolPaused, feeConfig, basket, staged, now, exposure>>

-----------------------------------------------------------------------------
(* Fees.                                                                       *)

(* Fault: a settlement leaves the time it has billed in the accumulator.       *)
AccrueFeesKeepingPeriod ==
  LET t   == Checkpoint(Supply)
      fee == AnnualFeeOf(t.period)
  IN
  /\ status \in Live
  /\ now > t.lastSettled /\ t.period > 0 /\ Supply + fee <= U64Max
  /\ tvl' = [t EXCEPT !.lastSettled = now]
  /\ feeVault' = feeVault + fee
  /\ settlement' = IF fee > 0 THEN CreditFees(AnnualFeeSplit(fee)) ELSE settlement
  /\ exposure' = 0
  /\ UNCHANGED <<status, protocolPaused, feeConfig, basket, vault, holders, staged,
                 now>>

(* accrue_fees: permissionless, in any status.  The checkpoint stays even when *)
(* nothing is settled.                                                         *)
AccrueFees ==
  LET t   == Checkpoint(Supply)
      fee == AnnualFeeOf(t.period)
  IN
  /\ status \in Live
  /\ IF now <= t.lastSettled \/ t.period = 0
     THEN /\ tvl' = t
          /\ UNCHANGED <<feeVault, settlement, exposure>>
     ELSE /\ Supply + fee <= U64Max
          /\ tvl' = [started |-> TRUE, lastCheckpoint |-> t.lastCheckpoint,
                     lastSettled |-> now, period |-> 0]
          /\ feeVault' = feeVault + fee
          /\ settlement' = IF fee > 0 THEN CreditFees(AnnualFeeSplit(fee))
                                      ELSE settlement
          /\ exposure' = 0
  /\ UNCHANGED <<status, protocolPaused, feeConfig, basket, vault, holders, staged,
                 now>>

(* redeem_fee_vault_shares: permissionless, in any status; the burnt shares    *)
(* move from the in-vault to the pending counters, the assets to staging.      *)
(* Unlike every other change of supply, it takes no checkpoint.                *)
FeeShareParts(shares) ==
  SplitByWeight(shares, settlement.protocolInVault, settlement.managerInVault)

CanRedeemFeeShares(shares) ==
  LET part == FeeShareParts(shares) IN
  /\ status \in Live /\ settlement.initialized
  /\ shares > 0 /\ shares <= feeVault
  /\ part.protocol <= settlement.protocolInVault
  /\ part.manager <= settlement.managerInVault
  /\ \A a \in basket : Entitlement(shares, a) <= vault[a]

RedeemFeeVaultShares(shares) ==
  LET part == FeeShareParts(shares)
      out  == [a \in Assets |-> Entitlement(shares, a)]
  IN
  /\ CanRedeemFeeShares(shares)
  /\ settlement.protocolPending + settlement.managerPending + shares <= MaxPending
  /\ WithinU64(Stage(out))
  /\ vault' = Withdraw(out)
  /\ staged' = Stage(out)
  /\ feeVault' = feeVault - shares
  /\ settlement' = MoveToPending(part)
  /\ UNCHANGED <<status, protocolPaused, feeConfig, basket, holders, tvl, now,
                 exposure>>

-----------------------------------------------------------------------------
(* Rebalancing moves value between two vaults at a constant supply.            *)

MoveBetweenVaults(sell, buy, amountIn, amountOut) ==
  /\ sell \in basket /\ buy \in basket /\ sell # buy
  /\ amountIn > 0 /\ amountIn <= vault[sell]
  /\ amountOut > 0 /\ vault[buy] + amountOut <= U64Max
  /\ vault' = [a \in Assets |-> IF a = sell THEN vault[a] - amountIn
                                ELSE IF a = buy THEN vault[a] + amountOut
                                ELSE vault[a]]
  /\ UNCHANGED <<status, protocolPaused, feeConfig, basket, holders, feeVault,
                 settlement, staged, tvl, now, exposure>>

(* One leg through the devnet AMM: at most half of the sold vault.             *)
ExecuteRebalanceLeg(sell, buy, amountIn, amountOut) ==
  /\ status \in Live /\ status # "Paused"
  /\ amountIn <= vault[sell] \div 2
  /\ MoveBetweenVaults(sell, buy, amountIn, amountOut)

(* rebalance_swap_begin and rebalance_swap_end, which one transaction holds.   *)
RebalanceSwap(sell, buy, amountIn, amountOut) ==
  /\ status = "Active"
  /\ MoveBetweenVaults(sell, buy, amountIn, amountOut)

-----------------------------------------------------------------------------
(* The environment: the clock, and plain token transfers by anyone, which no   *)
(* handler of the program sees.                                                *)

Tick ==
  /\ now < MaxTime /\ now' = now + 1
  /\ exposure' = exposure + Supply
  /\ UNCHANGED <<status, protocolPaused, feeConfig, basket, vault, holders, feeVault,
                 settlement, staged, tvl>>

SendAssetToVault(a, amount) ==
  /\ a \in basket /\ amount > 0 /\ vault[a] + amount <= U64Max
  /\ vault' = [vault EXCEPT ![a] = @ + amount]
  /\ UNCHANGED <<status, protocolPaused, feeConfig, basket, holders, feeVault,
                 settlement, staged, tvl, now, exposure>>

SendSharesToFeeVault(shares) ==
  /\ shares > 0 /\ shares <= holders
  /\ holders' = holders - shares /\ feeVault' = feeVault + shares
  /\ UNCHANGED <<status, protocolPaused, feeConfig, basket, vault, settlement,
                 staged, tvl, now, exposure>>

-----------------------------------------------------------------------------
Amounts1 == 1 .. U64Max

Next ==
  \/ CreateReserve \/ PauseReserve \/ UnpauseReserve \/ InitiateWindDown
  \/ CloseReserve \/ AccrueFees \/ Tick
  \/ \E p \in BOOLEAN : SetProtocolPaused(p)
  \/ \E a \in Assets : \/ InitializeReserveAsset(a)
                       \/ AddReserveAssetActive(a)
                       \/ RemoveReserveAsset(a)
                       \/ \E n \in Amounts1 : \/ FundNewReserveAsset(a, n)
                                              \/ SendAssetToVault(a, n)
  \/ \E n \in Amounts1 :
       \/ MintReserveTokensInKind(n) \/ MintReserveTokensInKindUsdcFee(n)
       \/ RedeemReserveTokensInKind(n) \/ RedeemFeeVaultShares(n)
       \/ SendSharesToFeeVault(n)
       \/ \E amounts \in [Assets -> Amount] : \/ SeedReserve(amounts, n)
                                              \/ SeedReserveUsdcFee(amounts, n)
  \/ \E sell, buy \in Assets, n, m \in Amounts1 :
       \/ ExecuteRebalanceLeg(sell, buy, n, m) \/ RebalanceSwap(sell, buy, n, m)

Spec == Init /\ [][Next]_vars

-----------------------------------------------------------------------------
(* Properties.                                                                 *)

(* Every balance and counter stays a token amount (nothing underflows) and the *)
(* stored rates stay within the program's caps.                                *)
TypeOK ==
  /\ status \in Statuses /\ protocolPaused \in BOOLEAN
  /\ feeConfig \in Rates /\ feeConfig.redemption <= MaxRedemptionFeeBps
  /\ basket \subseteq Assets
  /\ vault \in [Assets -> Amount] /\ staged \in [Assets -> Amount]
  /\ holders \in Nat /\ feeVault \in Nat /\ Supply <= U64Max
  /\ settlement \in Settlement /\ tvl \in Tvl
  /\ now \in Nat /\ exposure \in Nat

(* FeeSettlement never attributes more shares than the fee vault really holds, *)
(* so what it promises the protocol and the manager can always be redeemed.    *)
FeeSharesBacked ==
  settlement.protocolInVault + settlement.managerInVault <= feeVault

(* A closed Reserve has no share outstanding, owes no fee share and left no    *)
(* asset behind in a vault (close_reserve's conditions, and nothing undoes     *)
(* them afterwards).                                                           *)
ClosedOwesNothing ==
  status = "Closed" =>
    /\ Supply = 0
    /\ settlement.protocolInVault = 0 /\ settlement.managerInVault = 0
    /\ \A a \in Assets : vault[a] = 0

(* The accumulator never bills time that was not spent: what it holds plus     *)
(* what the next checkpoint would add is at most the true integral of supply   *)
(* since the last settlement (the "supply before" rule of the checkpoints).    *)
NeverOverbilled ==
  tvl.started =>
    tvl.period + Supply * (now - tvl.lastCheckpoint) <= exposure

(* A holder can always get out: no pause of the Reserve or of the protocol, no *)
(* wind-down, fee, attribution or state of the vaults fails a redemption, of   *)
(* any amount but a single unit (which a nonzero fee rounds away entirely).    *)
(* CanRedeem is the whole guard of the action: its effects are assignments.    *)
RedemptionNeverBlocked ==
  status \in {"Active", "Paused", "WindDown"} => \A n \in 2 .. holders : CanRedeem(n)

(* What is attributed can be collected, in portions of any size and whatever   *)
(* the Reserve's status: the split of a portion never asks more of one party's *)
(* counter than it holds.  (The model's bounds on pending shares and staged    *)
(* assets are not the program's and are left out.)                             *)
FeeSharesRedeemable ==
  status \in Live =>
    \A n \in 1 .. settlement.protocolInVault + settlement.managerInVault :
      CanRedeemFeeShares(n)

(* Issuing, redeeming and settling fees round in favour of those who stay: no  *)
(* such step lowers the amount of any asset behind one share.  (Accrual        *)
(* dilutes by design, and a rebalance trades one asset for another; the first  *)
(* only mints to the fee vault, the second leaves the supply alone.)           *)
Dilutes == vault' = vault /\ holders' = holders /\ feeVault' >= feeVault
KeepsBacking ==
  Supply > 0 /\ Supply' # Supply /\ ~Dilutes
    => \A a \in Assets : vault'[a] * Supply >= vault[a] * Supply'
BackingNeverDiluted == [][KeepsBacking]_vars

(* The annual fee never takes more than its rate: what a settlement mints is   *)
(* at most the rate's part of the shares really held since the last one, share *)
(* by share and second by second, however many handlers took checkpoints in    *)
(* between.                                                                    *)
WithinRate == feeVault' > feeVault /\ Dilutes => feeVault' - feeVault <= AnnualFeeOf(exposure)
AccrualWithinRate == [][WithinRate]_vars

(* Whoever burns the last share takes the vaults with it, to the last unit:    *)
(* rounding leaves nothing behind that would keep the Reserve from closing.    *)
EmptiesVaults == Supply > 0 /\ Supply' = 0 => \A a \in basket : vault'[a] = 0
LastShareTakesEverything == [][EmptiesVaults]_vars

(* The Reserve as its holders see it (ShareLedger): shares are issued and      *)
(* redeemed at their exact part of every asset, rounded by less than one unit  *)
(* in favour of those who stay, and a closed Reserve stays closed and empty.   *)
Ledger == INSTANCE ShareLedger WITH supply <- Supply, backing <- vault,
                                    closed <- status = "Closed"
LedgerImplemented == Ledger!Spec

-----------------------------------------------------------------------------
(* What the repository says of the program and the program does not do; each   *)
(* is refuted by a run of its own.                                             *)

(* "Reserve Tokens cannot mint without backing" (SECURITY_INVARIANTS.md:14):   *)
(* whoever holds Reserve Tokens has some asset behind them.                    *)
MintedSharesBacked == holders > 0 => \E a \in basket : vault[a] > 0

(* "Every accrued fee share must be collected ... before this Reserve account  *)
(* ... is closed" (close_reserve.rs:90-97): a closed Reserve leaves no fee     *)
(* share undistributed and no asset in its staging accounts.                   *)
ClosedStrandsNothing ==
  status = "Closed" =>
    /\ settlement.protocolPending = 0 /\ settlement.managerPending = 0
    /\ \A a \in Assets : staged[a] = 0
=============================================================================
