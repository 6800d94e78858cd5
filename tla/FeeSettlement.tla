---------------------------- MODULE FeeSettlement ----------------------------
(* From fee shares to USDC: the fee vaults and staging accounts of several     *)
(* Reserves, the instructions that move them, and the hourly keeper            *)
(* (api/mainnet/fee-settlement-cron.ts, job A) that calls these instructions.  *)
(*                                                                             *)
(* A keeper's transaction lands or does not, and the keeper learns that it     *)
(* landed or is told of a failure: sendAndConfirmWithRebroadcast outwaits the  *)
(* life of a blockhash, so nothing lands after its report.  A run may stop     *)
(* after any step (time budget, crash); only one run is under way.  Quotes     *)
(* that fail, price limits and amounts that wait as dust are one choice, to    *)
(* skip.  Anyone may redeem fee shares and distribute in between.              *)
(*                                                                             *)
(* Values are units: redeeming one share stages one unit of every asset of the *)
(* basket and a swap exchanges one for one (amounts are ReserveCore's subject).*)
EXTENDS FeeMath, Functions, FiniteSets

CONSTANTS
  Reserves,
  Assets,      \* the assets of baskets, USDC among them
  Usdc,
  NoReserve, NoAsset,
  MaxShares,   \* bound of the model: fee shares ever credited
  MaxFaults,   \* bound of the model: skips, stops, lost and unreported sends
  MaxRemovals  \* bound of the model: assets that leave a basket

ASSUME SettlementAssumption ==
  /\ IsFiniteSet(Reserves) /\ IsFiniteSet(Assets)
  /\ Usdc \in Assets /\ NoReserve \notin Reserves /\ NoAsset \notin Assets
  /\ MaxShares \in Nat /\ MaxFaults \in Nat /\ MaxRemovals \in Nat

VARIABLES
  basket,     \* by Reserve: its registered assets
  inVault,    \* by Reserve: FeeSettlement's two in-vault counters
  pending,    \* by Reserve: FeeSettlement's two pending counters
  staged,     \* by Reserve and asset but USDC: settlement staging accounts
  usdc,       \* by Reserve: its USDC staging account, by Reserve of origin
  keeperAta,  \* by asset: the keeper's own account, by Reserve of origin
  paid,       \* by Reserve of origin: USDC received by recipients
  at,         \* the step the keeper's run is at
  todo,       \* the Reserves the run has still to visit
  vaultSeen,  \* the fee vaults as read when the run started
  visit,      \* the Reserve being visited and what was read of it
  credited, faults \* counters of the bounds

chain == <<basket, inVault, pending, staged, usdc, keeperAta, paid>>
vars  == <<chain, at, todo, vaultSeen, visit, credited, faults>>

-----------------------------------------------------------------------------
Legs  == Assets \ {Usdc}
None  == [a \in Legs |-> 0]
NoVisit == [reserve |-> NoReserve, ordered |-> {}, staged |-> None, held |-> None,
            legs |-> {}, selling |-> NoAsset]

Total(counters)  == counters.protocol + counters.manager
Held(a)          == SumFunction(keeperAta[a])
UsdcStaged(r)    == SumFunction(usdc[r])

Init ==
  /\ basket = [r \in Reserves |-> Assets]
  /\ inVault = [r \in Reserves |-> Split(0, 0)]
  /\ pending = [r \in Reserves |-> Split(0, 0)]
  /\ staged = [r \in Reserves |-> None]
  /\ usdc = [r \in Reserves |-> [o \in Reserves |-> 0]]
  /\ keeperAta = [a \in Legs |-> [o \in Reserves |-> 0]]
  /\ paid = [o \in Reserves |-> 0]
  /\ at = "idle" /\ todo = {} /\ vaultSeen = [r \in Reserves |-> 0]
  /\ visit = NoVisit
  /\ credited = 0 /\ faults = 0

-----------------------------------------------------------------------------
(* The program's instructions, as changes of the chain.                        *)

(* Fault: the two parties' parts are swapped.                                  *)
LessSwapped(counters, part) == Split(counters.protocol - part.manager,
                                     counters.manager - part.protocol)
Less(counters, part) == Split(counters.protocol - part.protocol,
                              counters.manager - part.manager)
Plus(counters, part) == Split(counters.protocol + part.protocol,
                              counters.manager + part.manager)

(* redeem_fee_vault_shares needs every asset of the basket in its account list.*)
CanRedeem(r, shares, ordered) ==
  shares > 0 /\ shares <= Total(inVault[r]) /\ ordered = basket[r]

RedeemFeeVaultShares(r, shares) ==
  LET part == SplitByWeight(shares, inVault[r].protocol, inVault[r].manager) IN
  /\ inVault' = [inVault EXCEPT ![r] = Less(@, part)]
  /\ pending' = [pending EXCEPT ![r] = Plus(@, part)]
  /\ staged' = [staged EXCEPT ![r] =
                  [a \in Legs |-> IF a \in basket[r] THEN @[a] + shares ELSE @[a]]]
  /\ usdc' = IF Usdc \in basket[r] THEN [usdc EXCEPT ![r][r] = @ + shares] ELSE usdc
  /\ UNCHANGED <<basket, keeperAta, paid>>

(* approve_settlement_swap and the transfer by the delegate it makes of the    *)
(* keeper, always in one transaction.                                          *)
CanMove(r, a, amount) == amount > 0 /\ amount <= staged[r][a]

ApproveAndMove(r, a, amount) ==
  /\ staged' = [staged EXCEPT ![r][a] = @ - amount]
  /\ keeperAta' = [keeperAta EXCEPT ![a][r] = @ + amount]
  /\ UNCHANGED <<basket, inVault, pending, usdc, paid>>

(* distribute_fee_usdc: all of the USDC account is paid, or nothing of it when *)
(* no share is pending; the counters are reset in both cases.                  *)
DistributeFeeUsdc(r) ==
  LET part == SplitByWeight(UsdcStaged(r), pending[r].protocol, pending[r].manager)
  IN
  IF UsdcStaged(r) = 0
  THEN UNCHANGED chain
  ELSE /\ IF Total(part) = UsdcStaged(r)
          THEN /\ paid' = [o \in Reserves |-> paid[o] + usdc[r][o]]
               /\ usdc' = [usdc EXCEPT ![r] = [o \in Reserves |-> 0]]
          ELSE UNCHANGED <<paid, usdc>>
       /\ pending' = [pending EXCEPT ![r] = Split(0, 0)]
       /\ UNCHANGED <<basket, inVault, staged, keeperAta>>

(* Fault: the proceeds of a swap go to the keeper, the default destination.    *)
SwapForKeeper(r, a, moved) ==
  /\ staged' = [staged EXCEPT ![r][a] = @ - moved]
  /\ keeperAta' = [keeperAta EXCEPT ![a] = [o \in Reserves |-> 0]]
  /\ UNCHANGED <<basket, inVault, pending, usdc, paid>>

(* The swap through the exchange: everything the keeper's account holds of a,  *)
(* with what is moved there in the same transaction, becomes USDC of Reserve r.*)
Swap(r, a, moved) ==
  /\ staged' = [staged EXCEPT ![r][a] = @ - moved]
  /\ keeperAta' = [keeperAta EXCEPT ![a] = [o \in Reserves |-> 0]]
  /\ usdc' = [usdc EXCEPT ![r] =
                [o \in Reserves |-> @[o] + keeperAta[a][o]
                                    + (IF o = r THEN moved ELSE 0)]]
  /\ UNCHANGED <<basket, inVault, pending, paid>>

-----------------------------------------------------------------------------
(* The keeper's run.  A Fault is anything that goes wrong for the keeper.      *)

Fault == faults < MaxFaults /\ faults' = faults + 1

Go(step, v) == at' = step /\ visit' = v

(* sendV0: simulation refuses what cannot execute; what is sent lands or is    *)
(* lost, and what landed may still be reported as failed.                      *)
Send(executes, effect, onSuccess, onFailure) ==
  \/ executes /\ effect /\ onSuccess /\ UNCHANGED faults
  \/ executes /\ effect /\ onFailure /\ Fault
  \/ onFailure /\ Fault /\ UNCHANGED chain
  \/ ~executes /\ onFailure /\ UNCHANGED <<chain, faults>>

(* Faults: the Reserves to visit are chosen by the counters; USDC is not among *)
(* the accounts looked at; what the keeper holds is not swept.                 *)
ActionableByCounters(r) == Total(inVault[r]) > 0 \/ Total(pending[r]) > 0
ActionableWithoutUsdc(r) ==
  \/ Total(inVault[r]) > 0
  \/ \E a \in basket[r] \ {Usdc} : staged[r][a] > 0 \/ Held(a) > 0
ToSwapStagedOnly(stagedAmount, heldAmount) == stagedAmount

(* The Reserves worth a visit: shares in the fee vault, USDC or an asset of    *)
(* the basket staged, or an asset of the basket in the keeper's account.       *)
Actionable(r) ==
  \/ Total(inVault[r]) > 0
  \/ UsdcStaged(r) > 0
  \/ \E a \in basket[r] \ {Usdc} : staged[r][a] > 0 \/ Held(a) > 0

ToSwap(stagedAmount, heldAmount) == stagedAmount + heldAmount

StartRun ==
  /\ at = "idle" /\ at' = "next"
  /\ todo' = {r \in Reserves : Actionable(r)}
  /\ vaultSeen' = [r \in Reserves |-> Total(inVault[r])]
  /\ UNCHANGED <<chain, visit, credited, faults>>

EndRun ==
  /\ at = "next" /\ todo = {} /\ at' = "idle"
  /\ vaultSeen' = [r \in Reserves |-> 0]
  /\ UNCHANGED <<chain, todo, visit, credited, faults>>

(* The time budget runs out, or the run crashes: only the chain is left.       *)
StopRun ==
  /\ at # "idle" /\ Fault
  /\ Go("idle", NoVisit) /\ todo' = {} /\ vaultSeen' = [r \in Reserves |-> 0]
  /\ UNCHANGED <<chain, credited>>

BeginVisit(r) ==
  /\ at = "next" /\ r \in todo /\ todo' = todo \ {r}
  /\ Go("redeem", [NoVisit EXCEPT !.reserve = r, !.ordered = basket[r]])
  /\ UNCHANGED <<chain, vaultSeen, credited, faults>>

(* Step 1: redeem what the fee vault held when the run started, unless there   *)
(* was nothing or it is dust; a failure ends the visit.                        *)
RedeemStep ==
  LET r == visit.reserve
      n == vaultSeen[r]
  IN
  /\ at = "redeem"
  /\ \/ n = 0 /\ Go("read", visit) /\ UNCHANGED <<chain, faults>>
     \/ n > 0 /\ Go("read", visit) /\ Fault /\ UNCHANGED chain
     \/ n > 0 /\ Send(CanRedeem(r, n, visit.ordered), RedeemFeeVaultShares(r, n),
                      Go("read", visit), Go("next", NoVisit))
  /\ UNCHANGED <<todo, vaultSeen, credited>>

(* Step 2 reads the staging accounts and its own accounts once for all legs.   *)
ReadBalances ==
  LET r == visit.reserve
      s == [a \in Legs |-> IF a \in visit.ordered THEN staged[r][a] ELSE 0]
      h == [a \in Legs |-> IF a \in visit.ordered THEN Held(a) ELSE 0]
  IN
  /\ at = "read"
  /\ Go("leg", [visit EXCEPT !.staged = s, !.held = h,
                  !.legs = {a \in Legs : ToSwap(s[a], h[a]) > 0}])
  /\ UNCHANGED <<chain, todo, vaultSeen, credited, faults>>

Done(a) == [visit EXCEPT !.legs = @ \ {a}, !.selling = NoAsset]

SkipLeg(a) ==
  /\ at = "leg" /\ a \in visit.legs
  /\ Go("leg", Done(a)) /\ Fault
  /\ UNCHANGED <<chain, todo, vaultSeen, credited>>

(* Approval, transfer to the keeper and swap in one transaction.               *)
SwapLeg(a) ==
  LET r     == visit.reserve
      moved == visit.staged[a]
  IN
  /\ at = "leg" /\ a \in visit.legs
  /\ Send(/\ moved > 0 => CanMove(r, a, moved)
          /\ Held(a) + moved = ToSwap(moved, visit.held[a]),
          Swap(r, a, moved), Go("leg", Done(a)), Go("leg", Done(a)))
  /\ UNCHANGED <<todo, vaultSeen, credited>>

(* A route too long for one transaction: first the transfer, then the swap.    *)
MoveLeg(a) ==
  LET r     == visit.reserve
      moved == visit.staged[a]
  IN
  /\ at = "leg" /\ a \in visit.legs /\ moved > 0
  /\ Send(CanMove(r, a, moved), ApproveAndMove(r, a, moved),
          Go("swap", [visit EXCEPT !.selling = a]), Go("leg", Done(a)))
  /\ UNCHANGED <<todo, vaultSeen, credited>>

SwapMovedLeg ==
  LET r == visit.reserve
      a == visit.selling
  IN
  /\ at = "swap"
  /\ Send(Held(a) = ToSwap(visit.staged[a], visit.held[a]),
          Swap(r, a, 0), Go("leg", Done(a)), Go("leg", Done(a)))
  /\ UNCHANGED <<todo, vaultSeen, credited>>

(* Step 3: distribute what is staged in USDC, if anything and if not dust.     *)
DistributeStep ==
  LET r == visit.reserve IN
  /\ at = "leg" /\ visit.legs = {}
  /\ \/ UsdcStaged(r) = 0 /\ Go("next", NoVisit) /\ UNCHANGED <<chain, faults>>
     \/ UsdcStaged(r) > 0 /\ Go("next", NoVisit) /\ Fault /\ UNCHANGED chain
     \/ /\ UsdcStaged(r) > 0
        /\ Send(TRUE, DistributeFeeUsdc(r), Go("next", NoVisit), Go("next", NoVisit))
  /\ UNCHANGED <<todo, vaultSeen, credited>>

Keeper ==
  \/ StartRun \/ EndRun \/ RedeemStep \/ ReadBalances \/ SwapMovedLeg
  \/ DistributeStep
  \/ \E r \in Reserves : BeginVisit(r)
  \/ \E a \in Legs : SwapLeg(a) \/ MoveLeg(a)

-----------------------------------------------------------------------------
(* Everyone else.                                                              *)

run == <<at, todo, vaultSeen, visit, faults>>

(* An issue, a redemption or an accrual credits a share to either party.       *)
CreditFees(r, part) ==
  /\ credited < MaxShares /\ credited' = credited + 1
  /\ inVault' = [inVault EXCEPT ![r] = Plus(@, part)]
  /\ UNCHANGED <<basket, pending, staged, usdc, keeperAta, paid, run>>

RedeemByAnyone(r, shares) ==
  /\ CanRedeem(r, shares, basket[r]) /\ RedeemFeeVaultShares(r, shares)
  /\ UNCHANGED <<run, credited>>

DistributeByAnyone(r) ==
  /\ UsdcStaged(r) > 0 /\ DistributeFeeUsdc(r)
  /\ UNCHANGED <<run, credited>>

RemoveReserveAsset(r, a) ==
  /\ SumFunction([o \in Reserves |-> Cardinality(Assets \ basket[o])]) < MaxRemovals
  /\ a \in basket[r] /\ basket' = [basket EXCEPT ![r] = @ \ {a}]
  /\ UNCHANGED <<inVault, pending, staged, usdc, keeperAta, paid, run, credited>>

Everyone ==
  \E r \in Reserves :
    \/ CreditFees(r, Split(1, 0)) \/ CreditFees(r, Split(0, 1))
    \/ \E n \in 1 .. MaxShares : RedeemByAnyone(r, n)
    \/ DistributeByAnyone(r)
    \/ \E a \in Assets : RemoveReserveAsset(r, a)

Next == Keeper \/ StopRun \/ (\E a \in Legs : SkipLeg(a)) \/ Everyone

(* The cron calls the keeper every hour and a run goes on while it can.        *)
Fairness == WF_vars(Keeper)

Spec == Init /\ [][Next]_vars /\ Fairness

-----------------------------------------------------------------------------
(* Properties.                                                                 *)

(* The counters and balances are amounts and a visit names a Reserve.          *)
TypeOK ==
  /\ basket \in [Reserves -> SUBSET Assets]
  /\ inVault \in [Reserves -> [protocol : Nat, manager : Nat]]
  /\ pending \in [Reserves -> [protocol : Nat, manager : Nat]]
  /\ staged \in [Reserves -> [Legs -> Nat]]
  /\ usdc \in [Reserves -> [Reserves -> Nat]]
  /\ keeperAta \in [Legs -> [Reserves -> Nat]]
  /\ paid \in [Reserves -> Nat]
  /\ at \in {"idle", "next", "redeem", "read", "leg", "swap"}
  /\ todo \subseteq Reserves /\ vaultSeen \in [Reserves -> Nat]
  /\ visit \in [reserve : Reserves \cup {NoReserve}, ordered : SUBSET Assets,
                staged : [Legs -> Nat], held : [Legs -> Nat],
                legs : SUBSET Legs, selling : Legs \cup {NoAsset}]
  /\ credited \in 0 .. MaxShares /\ faults \in 0 .. MaxFaults

(* Whatever is lost, repeated, skipped or stopped half-way, all that fee       *)
(* shares were redeemed for is in custody or was paid out, once.               *)
InCustody(o) ==
  SumFunction(staged[o]) + SumFunction([a \in Legs |-> keeperAta[a][o]])
  + SumFunction([r \in Reserves |-> usdc[r][o]])
Custody == INSTANCE FeeCustody WITH custody <- [o \in Reserves |-> InCustody(o)],
                                    payouts <- paid
FeesNeverLost == Custody!Spec

(* A staged asset is sold once failures cease, as long as it is in the basket, *)
(* even after a distribution reset the counters it was staged under.           *)
StagedIsSold ==
  \A r \in Reserves, a \in Legs :
    staged[r][a] > 0 ~> staged[r][a] = 0 \/ a \notin basket[r]

(* What a split transfer left in the keeper's account is sold by a later run,  *)
(* as long as some Reserve holds the asset.                                    *)
HeldIsSold ==
  \A a \in Legs :
    Held(a) > 0 ~> Held(a) = 0 \/ \A r \in Reserves : a \notin basket[r]

(* Staged USDC is paid out as long as a redeemed share awaits distribution.    *)
UsdcIsPaid ==
  \A r \in Reserves :
    UsdcStaged(r) > 0 /\ Total(pending[r]) > 0 ~> UsdcStaged(r) = 0

-----------------------------------------------------------------------------
(* What the repository says of the program and the program does not do; each   *)
(* is refuted by a run of its own.                                             *)

(* "money only ever reaches the fixed Protocol Treasury and the Reserve's own  *)
(* configured Manager recipient(s), in every case" (distribute_fee_usdc.rs:    *)
(* 32-34): no Reserve's staging account receives another Reserve's fees.       *)
FeesStayWithReserve ==
  \A r, o \in Reserves : r # o => usdc[r][o] = 0
=============================================================================
