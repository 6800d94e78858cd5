# A verification project for SSR.FUN

SSR.FUN lets a manager create a *Reserve*: a basket of token vaults on Solana
against which a *Reserve Token* is issued and redeemed in kind. The
authoritative logic is the Anchor program `src/programs/ssr_protocol`; around
it are a web front end that launches Reserves through a chain of wallet-signed
transactions, an hourly keeper that turns fee shares into USDC, indexers that
copy chain history into Postgres, and an SDK that mirrors the arithmetic. This directory holds TLA+ models of that system, the TLC runs that
check them and the TLAPS proofs about them.

## 1. Inventory

Every instruction of the program is one atomic transaction: either all of its
effects happen or none. The hard behaviours are therefore sequences of
instructions by different callers (most fee instructions are permissionless),
plain token transfers the program never sees, rounding, and the off-chain
keeper whose runs interleave with everything else.

| Component | State | Operations | Hard | What makes it correct |
|---|---|---|---|---|
| Share ledger | mint supply, vault balances, fee vault, `FeeSettlement`, `TvlAccrual` | seed, mint, redeem (share fee or USDC fee), `accrue_fees`, `redeem_fee_vault_shares` | rounding, accrual at any time, donations, supply reaching zero | nobody's backing is diluted; fee attribution is covered; time is never billed twice |
| Reserve lifecycle | `Reserve.status`, `ProtocolConfig.paused` | create, pause, unpause, wind down, close, protocol pause | which path each status closes | redemption is never blocked; a closed Reserve owes nothing |
| Asset registry | `ReserveAsset` (vault, `order_index`, weight), `asset_count`, total weight | initialize, add while active, fund, remove, remove and compact, `update_targets` | compaction, weights left behind by removal | indices contiguous, weight total exact and at most 100 % |
| Rebalancing | vaults, `RebalanceTicket` | `execute_rebalance_leg`, `rebalance_swap_begin/end`, `record_rebalance` | begin and end are two instructions of one transaction; the ticket is shared with the basket feed | sold assets always come back as at least the minimum |
| Delegates and manager | `Delegate` accounts, `delegate_count`, `Reserve.manager` | add, update, remove, transfer manager | restricted delegates appointing delegates; a manager transfer | no escalation of permissions |
| USDC fee settlement | `FeeSettlement` pending counters, staging accounts, the keeper's accounts | redeem, approve, swap, distribute; the keeper's run | lost and unreported transactions, time budget, legs that fail, one keeper account for all Reserves | nothing is lost, everything staged is eventually paid to its own Reserve's recipients |
| Legacy collection and recipients | pending counters, `ManagerFeeRecipients` | collect (three ways), initialise and update recipients | migration in the middle of accrual | what was accrued under one split is paid under it |
| Transfer fee and trade tax | withheld amounts, rates two epochs ahead | collect, update, enable, split | rate changes between accrual and collection | shares of a sweep add up |
| Pool liquidity | `LiquidityTerms` stream, `LiquiditySplit`, the feed account, tranches, revenue carry | sync, basket and pool feed, distribute, taxed swap, lock, extend, withdraw; job D of the keeper | a window restarted by every arrival, two spenders of one stream, a return, a clock read after the accounts | nothing is released early or twice, the pool keeps to its share, the stream ends in the vaults |
| Devnet AMM | pool reserves | swap, add, remove, pause | rounding | the product never falls |
| Reserve launch client | pending-deploy marker and form draft in `localStorage`, the page's job (funding record, step, target), the wallet and the accounts it builds | launch: fund, create, register, seed; resume, recover after a reload, check again, abandon | a transaction that lands after the page gave up, a reload anywhere, reads that fail, another Reserve that takes the id | a success is true; nothing half-built is forgotten; a resume fits what is there |
| Transaction sending and confirmation | the polled signature | bounded poll with four outcomes, expiry by height, re-quote | "expired" and "landed" are decided by two reads | what is repeated did not land |
| Activity index | cursor per Reserve, rows | top-up walk, backfill walk | page and entry budgets, a sync cut off anywhere, concurrent syncs | no transaction is skipped for ever |
| Ledger ingest | rows per venue | fetch, decode, upsert | as above | as above |
| Protocol configuration, metadata, alerts, rate limiting, SDK arithmetic, dust rules, front end | see `PROJECT.json` | | | |

The interactions that matter: issuance, redemption and accrual all change the
supply that divides every vault; `accrue_fees` and the share fees credit
`FeeSettlement`, which `redeem_fee_vault_shares` moves to pending while assets
go to staging; the keeper sells what is staged and `distribute_fee_usdc` divides
the proceeds by the pending ratio; `close_reserve` reads supply and vaults; the
launch client drives `create_reserve`, `initialize_reserve_asset` and
`seed_reserve` and decides by reading the Reserve back what is left to do; a
view of a Reserve starts a sync of its activity index; the
basket feed of the liquidity component and the rebalancer share one ticket.

`PROJECT.json` lists every component with its files and status, and every
hazard with the line where it bites.

## 2. Plan

Modules, in order:

1. `FeeMath`, `Apportionment`: the pure splits and roundings (done, with laws proved).
2. `ReserveCore`: the share ledger and lifecycle of one Reserve; implements
   `ShareLedger` (done, proved).
3. `FeeSettlement`: several Reserves, the keeper's run, lossy sends, stops;
   implements `FeeCustody` (done, its safety and the refinement proved); liveness
   under the cron's fairness (done, checked).
4. `AssetRegistry`: indices and weights; implements `AssetList` (done, proved).
5. `Delegates`: permissions, restricted grants, manager transfer (done, proved).
6. `ReserveLaunch`: a launch from the browser, with its resume and recovery
   (done, proved but for its liveness).
7. `ActivityIndex`: the two-ended history walk and its cursor (done, its types and
   its gap rule proved; liveness checked).
8. `RebalanceSwap`: ticket and transaction structure, refining the atomic
   `MoveBetweenVaults` of `ReserveCore`.
9. `FeeRecipients`: legacy counters and migration.
10. `HolderFeed`: the holders' stream and job D (done, proved but for its liveness).
11. `TradeTax`; `DevnetAmm`.

What stands open is 8, 9 and 11. `ReserveCore` takes begin and end of a rebalance as
one step because begin looks ahead, among the instructions of its own transaction,
for an end that must follow, and a transaction happens whole or not at all; 8 would
derive that instead of assuming it.

`FeeSettlement` still lacks the keeper's job B and the update of the recipients
while USDC is staged; both belong with `FeeRecipients`.

`docs/protocol/ACCOUNT_MODEL.md:164` says assets are always iterated in
registration order; compaction gives the last asset the place of the removed
one. That disagreement deserves a run of its own.

Theorems worth proving next: that the rebalance ticket is never left open; that the
counters of migrated recipients add up to what was credited, which
`ApportionmentIsExact` prepares.

## 3. Modules and how they correspond to the code

### FeeMath, Apportionment, FeeMath_proofs

`fee_math.rs` and the two rounding divisions of `instructions/common.rs`.
`Apportionment` has `apportion_to_recipients` as a function of the allocation: a
recipient gets one unit more than its floor when fewer slots come `Before` it than
there are units left over. The code sorts the slots and increments the first ones;
`MC_FeeSettlement`, the settlement being what divides USDC in this way, has that loop,
and its assumption `ApportionmentAgrees` compares the two over every division of a
whole of six parts among one to four recipients and every amount to 13.
`FeeMath_proofs` proves the laws the ledger rests on: floor and ceiling bounds,
that a split of a total adds up to it, that a party's part is covered when the
amount is no more than the attributed total. It also holds the laws of sums over
finite sets that the proofs of the other modules use (section 5).

### ShareLedger

The abstract specification of a Reserve for whoever holds its shares: supply, backing
and whether it is closed. Shares are issued and redeemed `AtFairPrice`: what remains
of an asset is its part for the shares that remain, exact or rounded up by less than a
unit. Beside that the annual fee issues shares against nothing, gifts come in, and a
rebalance gives of one asset for another. A closed ledger is empty and stays so.
Handlers, fees, pauses, wind-down and baskets are what it abstracts from.
`ReserveCore` implements it (`LedgerImplemented`), with all of its vaults, also of
assets outside the basket, as the backing. `AtFairPrice` bounds rounding on both sides: a
deposit of one unit more than needed violates it, as does a payout of one less.

### ReserveCore

One Reserve. Variables and what they stand for:

- `status`, `protocolPaused`, `feeConfig`: `Reserve.status`, the pause flag of
  `ProtocolConfig`, the three rates of `FeeConfig`;
- `basket`, `vault`: the assets with a `ReserveAsset` and their vault balances;
- `holders`, `feeVault`: Reserve Tokens outside and inside the fee vault; their
  sum is the mint's supply. No handler tells two holders apart;
- `settlement`: `FeeSettlement`; `staged`: the staging accounts;
- `tvl`, `now`: `TvlAccrual` and the chain's clock;
- `exposure`: a history variable, the true integral of the supply since the last
  settlement, against which the accumulator is judged.

Each handler is one action with the handler's name. The two instructions of a
rebalance swap, which the code forces into one transaction, are one action.
`remove_reserve_asset` and its compacting variant have the same effect on this
state and are one action. Plain token transfers into a vault or the fee vault
and the passing of time are actions of the environment.

Left out of this module: slippage limits (they only make the caller's own
instruction fail), signers' authority (the subject of `Delegates`), the fee a
Token-2022 asset may take on a transfer (the handlers gross the amount up, so
the model's amount is the one that arrives), telemetry fields nothing reads.
Share amounts are exact integers and every division is the program's.

The operators marked "Fault" next to a definition are alternative forms of it,
each with one plausible mistake; no behaviour of the module uses them. (`ReserveLaunch`, `ActivityIndex` and `HolderFeed` call them "Mistake".) They
are the mutants `PROJECT.json` lists: putting one in place of the definition
must break the property named there.

### MC_ReserveCore

Gives the constants small values and states the bounds.

### FeeSettlement

Several Reserves and the keeper, `api/mainnet/fee-settlement-cron.ts` (job A).
The state is in two halves.

On chain: `basket`; `inVault` and `pending`, the four counters of each
`FeeSettlement`; `staged` and `usdc`, the staging accounts; `keeperAta`, the
keeper's own token accounts, one per asset and shared by all Reserves; `paid`,
what recipients received. `usdc`, `keeperAta` and `paid` remember the Reserve
whose fee shares the units came from. The program does not keep that; no guard
reads it; it is history that lets properties speak of attribution.

In the keeper's process: `at`, the step of its run; `todo`, the Reserves still
to visit; `vaultSeen`, the fee vaults as read before the first visit; `visit`,
the Reserve being visited with the basket and balances read of it. All of it is
lost when a run stops.

| Action | Code |
|---|---|
| `StartRun` | the scan that finds the Reserves worth a visit |
| `BeginVisit`, `RedeemStep` | a Reserve's visit and its `redeem_fee_vault_shares`, for the amount read at the start of the run |
| `ReadBalances` | staging accounts and keeper's accounts, read once for all legs |
| `SwapLeg`, `SkipLeg` | a leg in one transaction; a leg left for a later run |
| `MoveLeg`, `SwapMovedLeg` | a leg too long for one transaction: transfer, then swap |
| `DistributeStep` | `distribute_fee_usdc` at the end of the visit |
| `EndRun`, `StopRun` | the end of a run; its time budget or a crash |
| `CreditFees`, `RedeemByAnyone`, `DistributeByAnyone`, `RemoveReserveAsset` | what others do meanwhile |

Decisions, with the code that justifies them:

- A send has four outcomes (`Send`): it lands and is reported; it lands and is
  reported as failed; it is lost; simulation refuses it. It cannot land *after*
  its report: `sendAndConfirmWithRebroadcast` polls longer than a blockhash
  lives (`src/merge/lib/rpcResilience.ts:258-295`).
- Dust thresholds, failed quotes and price limits all mean "not in this run" and
  are the choice to skip.
- One run at a time. A share stages one unit of every asset and a swap is one for
  one: amounts are the subject of `ReserveCore`, order and custody of this module.
- Baskets only shrink. Removal ignores whether the vault is empty; the vault is
  not part of this state.
- The order of visits is any order and stops are bounded. That a fixed order under
  the time budget could starve the last Reserve is therefore not examined here.

### FeeCustody

The abstract specification: by Reserve, what is in custody and what was paid.
Value comes into custody, or goes from custody to payment without loss and
without reversal. `FeeSettlement` implements it with custody as the sum of
staging accounts and keeper's accounts by origin (`FeesNeverLost`).

### FeeSettlement_proofs

See section 5.

### MC_FeeSettlement

Extends `FeeSettlement` and `Apportionment`; the bounds are in the `.cfg` files. It also
has the loop of `apportion_to_recipients`, for `ApportionmentAgrees`.

### AssetRegistry

The assets of one Reserve as accounts. `status`, `assetCount`, `totalWeight` are
fields of `Reserve`; `registered` is the set of mints with a `ReserveAsset`
account, `orderIndex` and `weight` are fields of those accounts; `funded` is the
set of mints whose vault is not empty, all that any guard here asks of a vault.

An instruction that works on all assets takes them as a list of accounts.
`Accepts(list)` is the test of `load_reserve_asset_configs`, which
`load_asset_legs` and `close_reserve` repeat; `UpdateTargets`, `SeedReserve` and
`CloseReserve` are offered every list and take only an accepted one. Both
removals share `Deregister`; the compacting one also moves the last asset
(`IndexWithout`). `FillVault` and `EmptyVault` stand for every transfer in or
out, a stranger's included.

Decisions: no instruction clears `ReserveAsset.enabled` and none changes
`max_reserve_assets`, so the first is left out and the second is a constant. The
permissions are left to `Delegates`; the supply and the fee counters that
`close_reserve` also asks about are in `ReserveCore`, so closing may happen here
in more states than in the code.

### AssetList

The abstract specification: a list without repetitions that grows at its end,
shrinks with at most the last asset changing its place, or is closed.
`AssetRegistry` implements it with the accepted account list as `list`
(`ListImplemented`): an instruction prepared before a change finds at most two
positions different.

### Delegates

Who may sign for one Reserve. `manager` and `delegateCount` are fields of
`Reserve`, `paused` says whether its status is `Paused`; `appointed` is the set
of wallets with a `Delegate` account, `permissions` and `restricted` are fields
of those. `signer` and `ceiling` are history: who signed last, and the flags
that all delegates together held when a manager last signed. No guard reads
either.

`Holds` is `require_reserve_permission`, `MayGrant` is
`require_grantable_permissions`, `MayEdit` the choice every delegate instruction
makes by the `restricted` flag of the record. Only the flags that open an
instruction of this module have names; the others open handlers elsewhere and
are unnamed members of `V1Flags`. A Reserve that is not paused may be in any other status;
pausing is therefore allowed in more states than in the code.

What the module does *not* claim: a revocation is not transitive. What a
delegate granted stays, and the one who received it may appoint the revoked
wallet again with the same flags. `NoNewPowers` bounds all delegates together.

### ReserveLaunch

One wallet, one tab, one basket of assets bought with USDC. The state is in
three places, because what each of them survives is the subject of the module.

On chain: `count` and `reserves`, the protocol's counter and the Reserve
accounts, which get their id from it; `held`, the wallet's balance of each
asset; `txs`, what became of each transaction the wallet sent. A transaction in
flight lands once, atomically, or never; landing is tested against the state at
that moment (`Applies`), which is where a late one does harm or is refused.
`swapped` counts landed swaps for one property.

In `localStorage`: `marker`, the pending deploy with its funding record, and
`draft`, the form's. They are all that a reload leaves.

In the page: `pc`, where it is; `mem`, the form's funding record; `panel`, the
deploy the Resume panel was shown with; and the locals of the running job. `snap`
is the wallet as read before the first swap, `amounts` what will be seeded.

| Action | Code |
|---|---|
| `PressLaunch`, `LaunchFindsMarker` | `handleSubmitReal`, which shows a pending deploy instead of starting another |
| `Reconcile`, `AlreadyHeld`, `NeedsSwap`, `SendSwap`, `SwapConfirmed`, `SwapNotLanded`, `SwapUnknown` | `fundSeedAssetsIdempotent` with `executeJupiterSwap`, asset by asset |
| `Derive`, `SendBatch`, `BatchConfirmed`, `BatchStops`, `SendSeed`, `LaunchSeeded`, `SeedStops`, `SendFails`, `PreflightFails` | `createReserveOnChain` |
| `ReserveExists`, `ReserveMissing`, `ExistsUnread`, `CheckedComplete`, `CheckedIncomplete` | what the page reads after a failure, and what it does with the marker |
| `PressResume`, `ResumeReads`, `ResumeFunds`, `ResumeFunded`, `ResumeSeeded`, `ResumeEnds`, `ResumeUnread` | `resumeReserveDeploymentOnChain`, every stage after a read of its own |
| `Reload`, `Recover`, `RecoverUnread`, `CheckAgain`, `Abandon`, `Rejects`, `SaveDraft` | the effects and buttons of `CreateDTR` |
| `Land`, `Slips`, `Pass`, `ForeignReserve` | the cluster and other wallets |
| `PollStatus` | a status read of `confirmSignatureBounded` that finds nothing yet |

Decisions, with the code that justifies them:

- A confirmation ends in one of four ways: landed, failed, expired (no status,
  then a height past the last valid block) or unanswered. That order of the two
  reads is kept (`polled`, `Pass`): a transaction can land between them.
- Instruction 0 of a launch creates the Reserve, instruction *a* registers asset
  *a*; `packInstructionsBySize` keeps the order, so a batch is an interval.
- A swap buys one unit, a seed takes one: tolerances, the price lock and
  shortfalls are data.
- A success lets go of everything; the model stops there, and so does a launch
  blocked by a Reserve with a different number of assets (`Stop`).
- Later stages of a launch do not change the form's funding record, so a draft
  saved then is the one a save during funding would leave.
- The follow-up transaction of a launch (metadata, further fee recipients,
  delegates) is left out, and so is a settled-balance read after a swap that fails
  and answers 0.
- Reads see the latest state. A node that lags, a Reserve that is paused or
  winding down, a second tab, assets funded with USDC, SOL or the devnet faucet,
  and another launch after a success are left out.
- `ForeignReserve` only happens when it takes the id that the marker names; at
  any other time it shifts ids and nothing else.

Seen in the model and left as notes: after a reload the recovery looks once for
the Reserve and drops the marker, and a create still in flight then lands as a
Reserve nothing tracks; and a Reserve of another wallet that took the derived id
and has as many assets is resumed, and reported, as one's own.

### ReserveLaunch_proofs

See section 5.

### ActivityIndex

One Reserve's history and its index. `chain` holds, for each signature, how many
events it emitted (none for a failed one); `log` the rows of
`reserve_activity_log`; `cursor` the row of `reserve_activity_cursor`, with the
cluster it was written for; `sync` each running sync: its step, the cursor it
read and the walk it made.

`Walk` is `fetchReserveActivityLog`: newest first, page by page, down to the page
budget, the entry budget, the signature to stop at or the end, with the report of
each that the code makes. Its argument `mute` is the set of signatures whose
`getTransaction` answers null: the code goes past them (`if (!logs) continue`,
`activityLog.ts:521`) while newest, oldest and end move on. `TopUpUpdate` and
`BackfillUpdate` are the two functions of `cursorLogic.ts`; `Upserted` is the
statement with its `COALESCE`, which keeps columns the update leaves out.

A sync reads the cursor (`ReadCursor`), deletes a row of another cluster in a
statement of its own (`DropRow`), tops up (`WalkTopUp`, `SaveEntries`,
`SaveCursor`), reads the row again (`RereadCursor`), walks one step back and saves
again (`WalkBackfill`, `SaveEntries`, `SaveCursor`); `Fails` cuts it off anywhere,
between two rows included. Nothing serialises syncs: any number overlap, each
with the row it read.

Two variables are history. `skipped` collects the events a saved walk went past
without returning them: those of a null answer, those the entry budget cut off
in the last transaction, and those below a walk that took its entry budget for
the end. `overwritten` says that some sync saved its row over one that had changed
since it read it. They are what `GapsAreAhead` and `EverythingIndexed` except,
because the code loses events in these two ways and, as `GapsStayAhead` proves of
the gap rule, in no other. TLC refutes `GapsAreAhead` without either exception. A
compare-and-set on the row would do away with the second.

A history that is an exact multiple of the page size never gets
`backfill_complete`: the empty last page leaves the loop before
`reachedRealEnd` is set (`activityLog.ts:509`); nothing is lost by it, only every
later sync looks again.

### ActivityIndex_proofs

See section 5.

### HolderFeed

The holders' share of what one pool earns. It collects as USDC in the feed
account, is released over a window, and is then turned into the Reserve's assets
or, for a pool with a split, in part into liquidity.

On chain: `terms` and `split`, the accounts `LiquidityTerms` and
`LiquiditySplit`; `feed`, the balance of the feed account; `staging`, creator
fees not yet distributed; `remainder`, the carry of SSR's part; `rateKept`,
whether Raydium still retains the part recorded when the pool was configured,
without which nothing can be distributed; `status`. `backing`, `received` and `arrived` are
history. In the keeper's process: `at` and `visit`, the accounts, the amount and
the legs of the run.

| Action | Code |
|---|---|
| `DistributeByAnyone`, `TaxedSwap` | `distribute_v2`, `taxed_swap_v2`: the two instructions that add to the stream and bring it up to date |
| `PlainTransfer` | a transfer into the feed account, seen at the next sync |
| `FeedBySigner`, `PoolFeedBySigner` | `basket_feed_begin` ... `rebalance_swap_end` and `pool_feed_begin` ... `pool_feed_end`, for any amount SSR's signer asks for at any time |
| `StartRun`, `CollectStep`, `ReadAccounts`, `ReadClock` | `runBasketFeedForPool` up to what it thinks is released |
| `SkipPool`, `SendPool`, `SendLeg`, `SkipLeg`, `EndRun`, `StopRun` | the pool's part, the legs, the end or the breaking off of the run |
| `Trade`, `RaydiumChangesRate`, `SetStatus`, `Tick` | the pool, Raydium, the lifecycle, the clock |

Decisions, with the code that justifies them:

- Time is relative. `left` is `stream_end - last_update` and `since` is the
  clock minus `last_update`, which is all that `release` looks at; a stream that
  has run out does not get older.
- begin looks for its end in the same transaction and the route between them pays
  at least `min_out` or everything fails, so a feed is one step. How much of a
  pool feed comes back is any amount below what was lent.
- The keeper's plan for the pool (the price, the 2 % cap, the swap) ends in an amount
  no larger than what it holds for the pool, or in none: the choice in `SendPool`
  and `SkipPool`. Legs are sent in any order.
- The accounts of a run are read in several calls and a pool leg is planned,
  built and sent in several; each group is one step (`ReadAccounts`, `SendPool`).
- A send is that of `FeeSettlement`. A quote that fails, a route that is too long
  and the deadline are faults; only they are bounded.
- One pool and one run at a time. Amounts stay below 2^64; pools that share nothing
  with holders are not looked at by job D.

Seen in the model, each by removing one exception from `StreamIsFed`: while
collecting is refused, no run feeds what was released before; the part held for
the pool waits while the Reserve is paused or winding down; what is in the feed
when the Reserve is closed, or comes later, can never leave.

### HolderFeed_proofs

See section 5.

### MC_ReserveLaunch, MC_ActivityIndex

Extend their modules; the bounds are in the `.cfg` files, and the second adds the
constraint `Bounded` (section 4).

### MC_AssetRegistry, MC_Delegates

Give the constants small values; the second adds the symmetry of the wallets.

### MC_HolderFeed

Gives two assets different weights.

## 4. Runs

| Run | Result | What it shows |
|---|---|---|
| `core` | passes | two assets, rebalancing, a changing basket, a running clock: types, attribution covered, a closed Reserve owes nothing, no time billed twice, redemption never blocked, fee shares collectable, the annual fee within its rate, backing never diluted, the last share takes everything, and the whole implements `ShareLedger` |
| `core_unbacked` | violation | shares can be issued with nothing behind them: accrue after the last redemption, then issue |
| `core_stranded` | violation | a Reserve closes over undistributed fee shares and staged assets |
| `registry` | passes | one account list is always accepted and names every asset; the weight total is exact; the list changes only as `AssetList` says |
| `delegates` | passes | delegates gain no flag none of them held; unrestricted delegates stand until a manager changes them; the count is exact |
| `settlement` | passes | custody refines `FeeCustody`; staged assets, the keeper's holdings and staged USDC all move on once failures cease |
| `settlement_cross` | violation | fees of one Reserve reach the staging account of another |
| `launch` | passes | one fault anywhere in a launch of two assets: successes are true, registration leaves a prefix, the seeding gate opens, what is to be seeded is there, the marker outlives every failure, a tracked half-built Reserve becomes Active |
| `launch_rebuy` | violation | with no fault at all, a swap that lands between the two reads of a poll is bought again |
| `activity` | passes | two overlapping syncs, cut off anywhere, with null answers and an entry budget that is met: what is missing lies ahead of the backfill unless a walk went past it or a changed row was overwritten, and a Reserve synced again and again gets all the rest indexed |
| `activity_cap` | violation | a walk stopped by its entry cap reports the end of history: the row says complete over events never read |
| `holder_feed` | passes | what is tracked is there, nothing is released early or taken back, the pool keeps to its share, no unit is lost, and what is worth a leg leaves the stream for the vaults |

Bounds. `U64Max = 3` makes the overflow checks of the token program real
branches; `BpsDenominator = 10` with rates 0, 3 and 4 makes every fee rounding
either exact or not and every split either even or not; a year of one second
makes one tick bill a full annual fee, so accruals of zero, one and several
shares occur. `MaxTime = 2` allows two checkpoints after the clock's start and
therefore a settlement between them; `MaxPending` bounds the shares a run may
leave undistributed. Two assets let rebalancing move between vaults and an asset
leave and come back; they are symmetric. `core` has all of this at once; the
theorems below remove the bounds.

In `settlement`, two Reserves that share an asset are the least that can meet in
the keeper's account; two fee shares let both parties or both Reserves occur, and
a credit arrive between the reading of a fee vault and its redemption; two
faults let a second failure hit the recovery from a first; one removal lets an
asset leave the basket of one Reserve and stay in the other's. `MaxFaults` is
also what "failures eventually cease" means.

In `launch`, two assets in batches of two instructions give a batch that creates
and registers, and one that only registers; one fault can fall on any step, and
combines with any order of landings and with a foreign Reserve; USDC for three
swaps lets one be wasted; six transactions are two more than a launch without
faults sends. One Reserve is enough for what a job does to its own, and a foreign
one then takes its place. In `launch_rebuy` one asset, no fault and no foreign
Reserve: the violation needs none.

In `activity`, pages of two and one page for a top-up as for a backfill step: of
four signatures a top-up reaches two, so gaps open by the page budget, close over
several steps and reopen while transactions arrive. An entry budget of one, with
up to two events per signature, is met in the middle of a page, inside a
transaction and on a last short page. One fault, a failed call or a null answer,
falls anywhere; a null answer alone, with an entry budget out of reach, already
refutes `GapsAreAhead` without `skipped`. Two syncs overlap in every order. The
constraint `Bounded` stops at three events in all, which is one on either side of a
gap and one in it, and does not follow a behaviour past its first overwritten row: `GapsAreAhead` and
`EverythingIndexed` hold by their exception from there, and the types are
proved. Transactions need not arrive, so no behaviour within the bound is cut
short by it. `activity_cap` has one sync, no fault, a top-up of two pages and an
entry budget of two: its violation needs neither overlap nor a null answer.

In `registry`, four mints for three places let the limit be reached and an asset
be replaced by one never seen before; three places are the least in which a
removal can hit the first, a middle or the last one, and a weight scale of two
lets the sum be exceeded by two assets or by one update. In `delegates`, a manager and three more
wallets let a grant be handed on twice and come back to its first holder after a
removal; the four named flags are those the module's own guards read, and one
reserved bit is enough to be refused; a limit of three records is reached with a
fourth wallet waiting.

In `holder_feed`, three units with shares of one and two thirds give roundings
that are exact and not, a split with room for two units and a return of one, and
two legs of different weight; a window of two ticks has a partial release, and an
arrival in the middle of it; one fault falls on any step of a run. Both a pool
with a split and one without are initial states.

Fairness. `ReserveCore`, `AssetRegistry` and `Delegates` assume none: their properties are safety properties. The
two that say something is *possible*, `RedemptionNeverBlocked` and `FeeSharesRedeemable`,
are state predicates: `CanRedeem` and `CanRedeemFeeShares` are the guards of the
actions, every `require`, checked operation and token-program check of the handler, and what
follows a guard only assigns (the second action has, besides, the model's bounds on
pending and staged amounts). `FeeSettlement` assumes `WF_vars(Keeper)`: the cron
entry in `vercel.json` ("15 * * * *") starts the keeper every hour for ever, and
a run that has not stopped takes its next step. Nothing is assumed of the other
callers, of a stop or of a skip, and no strong fairness: the code retries a leg
only because the next run looks at it again, which is what the properties test.
`ReserveLaunch` assumes that transactions in flight land or are lost, that the
page's code goes on when nothing fails (`Progress`), and that a creator who
started a launch goes on with it, by launching, resuming or checking again
(`Creator`); that the creator abandons, declines or reloads is never assumed and
always possible. `LaunchCompletes` excepts an abandoned Reserve and a wallet that
spent all its USDC: a swap that failed to be recognised costs one more.
`ActivityIndex` assumes only that while syncs are under way one of them goes on
(`WF_vars(\E s \in Syncs : Continue(s))`); another may hang for ever. That a sync
is started is not assumed. A view of the Reserve starts one (`activityRoute.ts:112`)
and so does the sweep (`backfillAll.ts:123`), which `vercel.json` runs once a day
("0 3 * * *") under a time budget and which may not come to a Reserve. `EverythingIndexed`
therefore has `[]<>Visited` as a hypothesis: it is about a Reserve that is synced
again and again, as the header of `indexer.ts` is ("converges to fully indexed
over a handful of calls"). Its other hypothesis excludes one state of affairs,
`Silent`: a top-up window that stays full of transactions without events never
moves the newest signature and resets the boundary each time; TLC refutes the
property without it.

`HolderFeed` assumes that the clock runs and that the keeper, which the same
cron starts, goes on (`Tick`, `Keeper`); that creator fees are distributed by
others, that a pool leg is tried, or that SSR's signer feeds outside a run is not assumed.
`StreamIsFed` excepts a closed Reserve, a collection that the program refuses and
the pool's part, and is about an amount worth a leg; TLC refutes it without any
one of the first three.

Deadlock is checked in every run but `registry`, whose module is about one
Reserve only and legitimately stops when that is closed. `ReserveLaunch` stutters
when the page has shown its last word or a bound is reached (`Stop`), and stops
nowhere else. In `ReserveCore` the
protocol's pause flag can still change after a close, in `Delegates` a manager
can always hand over, an idle keeper starts again, and the clock never stops.

## 5. Proofs

`ReserveCore_proofs` proves for every value of the constants allowed by
`CoreAssumption`:

- `TypeCorrect`, `FeeSharesAlwaysBacked`, `ClosedReserveOwesNothing`,
  `AccumulatorNeverOverbills`, `HoldersAreNeverLockedIn`,
  `AttributedSharesAreRedeemable`: the invariants of `core`;
- `BackingIsNeverDiluted`, `LastShareEmptiesVaults`, `AccrualStaysWithinRate`: its
  action properties;
- `ReserveImplementsLedger`: the refinement of `ShareLedger`.

The inductive invariant is `IInv`: the first four invariants, and `Support`, which
says what none of them says by itself. Assets outside the basket have an empty
vault (otherwise closing, which only looks at the basket, could leave a
balance); there is no basket before creation and after closing; the checkpoint never
lies in the future (otherwise an elapsed time would be negative). Each action has a lemma, grouped as the module groups them;
the arithmetic leaves cite the laws of `FeeMath_proofs`, so that nonlinear
reasoning is done once, there.

That a holder is never locked in follows from `TypeOK` and `FeeSharesBacked`, with no
further induction: a fee of at most half leaves something of two or more units
(`HalfFeeLeavesSome`; the greatest redemption fee of `constants.rs` is far below half, and
`CoreAssumption` asks no more), an entitlement is at most the vault (`FloorAtMost`), and the
attribution credited, being covered by the fee vault, fits a u64 as the supply does. That fee shares
can be collected needs one more inductive fact, `Attributed`: a settlement that
attributes anything is initialised. The rate of the annual fee follows from
`NeverOverbilled`, since the fee grows with the period it is billed for.

The refinement maps an issue to `Issue` or, over an empty supply, to `IssueFirst`; a
redemption, of shares or of fee shares, to `Redeem`; an accrual to `Accrue`; a deposit
into a vault to `Gift`; a rebalance to `Trade`; everything else leaves supply, vaults and closing
alone. A redemption burns the shares and mints its fee back in one step, so the
supply falls by what remains of it: `RedeemAtFairPrice` is about that net amount. The bound
on the other side, less than one unit kept, is what the division laws
`DepositAtFairPrice` and `WithdrawalAtFairPrice` give.

`ApportionmentIsExact` holds for any finite set of slots, any whole and any amount: the
parts add up to the amount, each is the exact part rounded down or up, exact where that is a
whole number, and a larger allocation never gets less. The sort is read as a rank: the
slots before a slot are fewer than those before any later one (`EarlierRanksLower`), so
ranks are the numbers below the count, each once (`RankIsBijection`), and the units handed
out are as many as there are ranks below the leftover (`PlacesBefore`). The leftover is less than
the count because it is the sum of the remainders over the whole (`LeftoverOfSums`),
which also says that it never reaches a slot without a remainder.

Several modules add up amounts over assets, Reserves or ages with the community
modules' fold. The last part of `FeeMath_proofs` says what such a sum is: that it is
unique and exists (`SumExists`), what it is without a member, with one value
changed, over a union, shifted by one. The library's induction theorems take the
property to prove as an operator, which the provers cannot instantiate;
`SetInduction` takes it as the set of the subsets that have it and rests on the
well-foundedness of strict inclusion between finite subsets, which the library has
as a fact without an operator.

`AssetRegistry_proofs` proves `RegistryTypeCorrect`, `OneListIsAccepted`,
`TotalIsExact`, `RemovalNeverUnderflows` and `RegistryImplementsList` for any finite
set of mints and any limits. The inductive
invariant is `TypeOK` with `Indexed`: every index is below the count, no two
assets share one, and none below the count is unused. `OneAccountList` follows
from it, since the list is then determined position by position; it is not
inductive itself, because it does not say which asset a removal moves. For the total
`TotalExact` is added, which is inductive once it is read as a sum over all mints
(one without an account weighs nothing). `RemovalNeverUnderflows` says what it is
worth: the `checked_sub` of a removal never fails, so an empty asset can always go. The
refinement maps every action to `Add`, `Remove`, `Close` or a stutter.

`FeeSettlement_proofs` proves `SettlementTypeCorrect` and
`SettlementImplementsCustody` for any finite sets of Reserves and assets and any
number of fee shares, faults and removals. The invariant is `ChainOK`, the types of
the accounts, and `RunOK`, the types of the keeper's locals with the steps in which
a visit has a Reserve and a split leg has an asset. `ChainStep` lists what a step
may do to the chain, whoever takes it: one of four instructions, each under the
condition on which the program accepts it, a credit, the removal of an asset, or nothing. Every action is shown to be such a
step, once for each outcome of its send; the refinement then needs four lemmas. A
transfer or a swap keeps the custody of every Reserve (`MoveKeepsCustody`,
`SwapKeepsCustody`), also one that sells another Reserve's units: custody is by
origin. A redemption adds to it, a distribution takes from it what it pays. The proof does not
say that units reach the right staging account; the run `settlement_cross` shows
that they need not.

`Delegates_proofs` proves `DelegatesTypeCorrect`, `DelegateCountIsExact`,
`DelegatesGainNoPowers` and `UnrestrictedDelegatesStand` for any finite or
infinite set of wallets and any flags. The invariant adds only that the set of
records is finite, which the count needs. Containment is inductive as it
stands: a grant by a delegate adds to the union only what its own record, a part
of the union, already holds, and a grant by a manager raises the ceiling with it.

`ReserveLaunch_proofs` proves `LaunchTypeCorrect`, `SuccessIsTrue`,
`MarkerIsKept`, `RegistrationLeavesNoGap`, `GateNeverRefuses` and `SeedIsFunded` for
any basket, batch size, number of faults and of transactions.
`ReportedActive` by itself says nothing of the step before: the invariant adds
`Accounts` (a Reserve has left "created" when it has assets, so that "all
registered and not initialising" means Active), `Awaits` (what the transaction a
job waits for did to its target if it landed, and is if it has not), `Resumes` (a
resume funds and seeds only what has begun, so that "no longer initialising" means
Active) and `Places` (which locals are in use where). `Grows` is why landings in
any order cannot disturb it: a Reserve never goes back. `Tracked` adds that marker, panel and
job name the same Reserve, from which `KeptUntilActive` follows step by step.

`RegistrationLeavesNoGap` is proved over that invariant. A prefix alone is not inductive, because a batch lands long after it was
sent: `FlightsInOrder` says that every batch in flight creates the Reserve or
registers the assets behind some position c, and that the first c are registered
already if the Reserve is ours; `JobInOrder` says that the position a job sends
from has been reached, and what the batch it waits for will add. The program
refuses a batch that registers an asset twice, so a batch that lands starts at the
end of the prefix. `Grown` (registered assets stay, accounts keep their owner)
carries the other batches over the landing.

`GateNeverRefuses` rests on `GateInv`: the assets before the one being funded are
ready, and no step between funding and the seed touches their records.
`SeedIsFunded` is about two attempts. A seed that was given up may still be in
flight when the next launch counts what the wallet holds, and if it landed it would take
what the launch is to seed. `SeedsInv` says that a flying seed of a half-built
Reserve is for the one the marker tracks or for an abandoned one; a launch starts
when nothing is tracked, so `WalletInv` can say that while it goes on no flying seed can
still apply, and hence that what was counted stays in the wallet.

`ActivityIndex_proofs` proves `IndexTypeCorrect` and `GapsStayAhead`
(`Spec => []GapsAreAhead`) for every history and budget and any number of
overlapping syncs, failures and null answers; neither has a hypothesis beyond
`IndexAssumption`. `GapsAreAhead` is not inductive: between a walk and the saving of
its cursor only the sync's locals know what was covered. `GapInv` adds
`HoldsWalk` for every sync: the walk it holds `Covers` an unbroken stretch of
signatures down from the top of history, or from the boundary, of the row it *read*,
and once its entries are saved each event of that stretch is in `log` or in
`walk.skipped` (`WalkAccounts`). Nothing in it speaks of the row as it is now, so
the steps of one sync do not disturb another's (`GapStep`). When a sync saves, either
the row is still what it read, and `TopUpLeavesGapsAhead` or
`BackfillLeavesGapsAhead` shows that the new row keeps sight of what the old one did,
or the save is an overwrite. A sync that has hung for long is covered: only
the value of the row matters, not whether it changed in between and changed back.

`HolderFeed_proofs` proves `FeedTypeCorrect`,
`TrackedIsAlwaysThere`, `PoolNeverOvertakes`, `NoUnitIsLost`, `StreamNeverAhead` and
`ReleaseIsFinal` for every window, share and basket. The inductive invariant `SafeInv` is the
conjunction of the types on chain and the next three: a feed takes no more than is in the account
because what is tracked is there; the share is kept through a return because what
is released in all only grows, and a returned amount counts as released again. `SyncTracks` says what
bringing a stream up to date keeps, whatever the balance; every instruction's lemma
rests on it. The keeper occurs there only through the instructions it sends; `RunOK`
adds what it carries between its steps, where the legs are a division by a
sum of weights. `NeverAheadOfStream` alone is not inductive, because it says nothing
of what is still locked: `OnSchedule` bounds, for every time from now to the end of
the window, what will have been released by then by the sum over the units' ages at
that time. An arrival re-spreads the locked amount over a full window, a partial
release takes the part of it the clock has reached, and both stay below that line.

Only model-checked: that `Apportion` is what the sorting loop computes
(`ApportionmentAgrees`, since the loop is defined by recursion over a sequence), and what must eventually happen: `StagedIsSold`, `HeldIsSold` and
`UsdcIsPaid` of `FeeSettlement`, `LaunchCompletes` of `ReserveLaunch`,
`EverythingIndexed` of `ActivityIndex` and `StreamIsFed` of `HolderFeed`, since TLAPS
does not handle fairness. Every other property of a passing run is a theorem.

The proofs assume nothing beyond the named assumptions of the modules
(`CoreAssumption`, `RegistryAssumption`, `DelegatesAssumption`,
`SettlementAssumption`, `LaunchAssumption`, `IndexAssumption`, `FeedAssumption`); in
particular not that the
clock or the pending shares are bounded small. Mints, Reserves and assets are
finite sets because the modules add up over them.

## 6. Findings

`PROJECT.json` quotes the sentence of the repository each one contradicts.

1. *Unbacked issue.* After the last redemption a period of time remains in the
   accumulator; `accrue_fees` mints fee shares for it over empty vaults; an
   issue is then proportional to empty vaults and costs nothing.
2. *Stranding close.* `close_reserve` reads the legacy counters, not those of
   `FeeSettlement`.
3. *Fees cross Reserves.* The keeper's account for an asset is common to all
   Reserves. After a transfer whose swap failed, the next run sells all it holds
   for the first Reserve it visits that has the asset.
4. *A swap is bought twice.* `sendAndConfirmWithRebroadcast` reads a signature's
   status before the block height. A swap that lands between the two, at the end
   of its life, is reported as expired and bought again.
5. *Complete over a gap.* A history walk that stops at its entry cap on a short
   last page reports that it reached the end; the cursor then says complete.

Eight more were seen in the models and are weaker than a contradiction of the
repository's words. Burning fee shares without a checkpoint lets the time before
the burn be counted at the supply after it, always in the holders' favour
(`NeverOverbilled` states that and is proved). Distribution divides by the pending
counters and resets them, so USDC of a leg sold later waits for the next
redemption (`UsdcIsPaid` is what does hold). The keeper finds staging accounts
through the assets registered now, so one removed while staged waits for ever
(`StagedIsSold` is what does hold). Three are what `StreamIsFed` excepts:
a refused collection, the pool's part and a closed Reserve each keep holders' USDC
in the feed. The last two are what `GapsAreAhead` excepts beside the entry cap: a
transaction answered with null is passed over and never looked at again
(`activityLog.ts:521`), and of two overlapping syncs the one that saves last can mark
the row complete over a gap the other recorded (`indexer.ts:131`). The hazard list
has them at their lines.

## 7. Not modelled

See the components with status `not_modelled` in `PROJECT.json`; the plan above
says which follow. Of the keeper, the fee on transfer of Token-2022 assets, the
choice of a route and the amounts below the dust thresholds are left out. Of the
launch, what section 3 lists, and the refund of an abandoned one. Of the activity
index, the sweep over all Reserves (its order by `updated_at` can starve those
behind one that always fails; the hazard list says where), dollar values and
decoding. Of the pools, liquidity locks and the v1 terms. The rest of the front end (forms, charts, pages), the generated IDL,
metadata, events and alerts will stay out: no other component reads their state.
