---------------------------- MODULE ReserveLaunch ----------------------------
(***************************************************************************)
(* Launching a Reserve from the browser (src/src/merge).  A launch is a    *)
(* chain of wallet-signed transactions: one swap per basket asset, then    *)
(* the batches that create the Reserve and register its assets, then the   *)
(* seed that makes it Active.  Any of them can be dropped, land late or    *)
(* leave the page without an answer, and the page can be reloaded between  *)
(* any two steps.  What survives is the chain and two records in           *)
(* localStorage: the pending-deploy marker and the form's draft.           *)
(*                                                                         *)
(* One wallet, one tab, a basket of the swap-funded assets 1..N in         *)
(* registration order.  A target is one unit of each asset and a swap      *)
(* delivers one unit: quotes, slippage and shortfall tolerances are data.  *)
(***************************************************************************)
EXTENDS Integers, FiniteSets

CONSTANTS
    N,              \* assets of the basket
    BatchSize,      \* instructions that fit one transaction
    SlippageSteps,  \* attempts of one funding swap
    Funds,          \* USDC of the wallet, in swaps it can pay
    MaxFaults,      \* reloads, refusals, losses and failed reads
    MaxForeign,     \* Reserves other wallets create meanwhile
    MaxTx,          \* transactions the wallet sends
    MaxReserves     \* Reserves of the protocol

ASSUME LaunchAssumption ==
    /\ {N, BatchSize, SlippageSteps, Funds, MaxTx, MaxReserves} \subseteq Nat \ {0}
    /\ {MaxFaults, MaxForeign} \subseteq Nat

VARIABLES
    count, reserves,       \* ProtocolConfig.reserve_count and the Reserve accounts
    held, swapped,         \* wallet balance of each asset, landed swaps of each asset
    sent, txs,             \* transactions sent, and what became of each
    marker, draft,         \* localStorage: pending deploy, funding kept in the form's draft
    pc, mode,              \* where the page is, and whether the job is a launch or a resume
    mem, panel,            \* the form's funding record, the deploy the Resume panel shows
    target, funding,       \* the job: Reserve it builds, per-asset funding record
    snap, amounts,         \*   balances read at its start, amounts to seed
    cur, tries,            \*   next asset or last instruction sent, attempts of the swap
    wait, polled,          \*   transaction being confirmed, whether a status read found nothing
    reported,              \* Reserve a success was shown for
    abandoned,             \* Reserves the creator stopped tracking
    faults, foreign

chain == <<count, reserves, held, swapped, sent, txs>>
disk == <<marker, draft>>
job == <<mode, target, funding, snap, amounts, cur, tries, wait, polled>>
page == <<pc, mem, panel, job>>
outcome == <<reported, abandoned>>
vars == <<chain, disk, page, outcome, faults, foreign>>

Assets == 1..N
NoAmounts == [a \in Assets |-> 0]

(***************************************************************************)
(* Funding records (launchFunding.ts).                                     *)
(***************************************************************************)
FundingOrder == [ not_started |-> 0, quoted |-> 1, awaiting_signature |-> 2, submitted |-> 3,
                  confirmed |-> 4, balance_verified |-> 5, ready_to_seed |-> 6 ]
Statuses == DOMAIN FundingOrder
Fresh == [a \in Assets |-> [status |-> "not_started", sig |-> 0]]

\* Mistake: only the next status is a legal step.
AdvanceOneStep(f, a, to, sig) ==
    IF FundingOrder[to] \in {0, FundingOrder[f[a].status] + 1} THEN [f EXCEPT ![a].status = to] ELSE f

\* A step forward or a reset; any other transition leaves the record as it is,
\* the signature that came with it included.
Advance(f, a, to, sig) ==
    IF to = "not_started" THEN [f EXCEPT ![a] = [status |-> to, sig |-> 0]]
    ELSE IF FundingOrder[to] >= FundingOrder[f[a].status]
         THEN [f EXCEPT ![a] = [status |-> to, sig |-> IF sig = 0 THEN @.sig ELSE sig]]
         ELSE f

CanEnterSeeding(f) == \A a \in Assets : f[a].status = "ready_to_seed"

NoDeploy == [id |-> 0, funding |-> Fresh]

(***************************************************************************)
(* The chain: transactions land at most once, atomically, or never.        *)
(***************************************************************************)
NoReserve == [owner |-> "none", registered |-> {}, status |-> "none"]
NoTx == [kind |-> "none", asset |-> 0, id |-> 0, create |-> FALSE, range |-> {},
         amt |-> NoAmounts, st |-> "none", past |-> FALSE]

Unseeded == {"created", "assetsInitializing"}
Mine(i) == i \in 1..count /\ reserves[i].owner = "me"
HalfBuilt(i) == Mine(i) /\ reserves[i].status \in Unseeded
Active(i) == i \in 1..count /\ reserves[i].status = "active"

Spent == LET sum[a \in 0..N] == IF a = 0 THEN 0 ELSE sum[a - 1] + swapped[a] IN sum[N]

Registered(r, range) ==
    [r EXCEPT !.registered = @ \cup range,
              !.status = IF range = {} THEN @ ELSE "assetsInitializing"]

SeedFits(tx) ==
    /\ reserves[tx.id].status = "assetsInitializing"
    /\ Cardinality(reserves[tx.id].registered) = N
    /\ \A a \in Assets : tx.amt[a] >= 1 /\ held[a] >= tx.amt[a]

\* What the programs require of a transaction when it is executed.
Applies(tx) ==
    \/ tx.kind = "swap" /\ Spent < Funds
    \/ tx.kind = "batch" /\ tx.create /\ tx.id = count + 1 /\ count < MaxReserves
    \/ /\ tx.kind = "batch" /\ ~tx.create /\ HalfBuilt(tx.id)
       /\ tx.range \cap reserves[tx.id].registered = {}
    \/ tx.kind = "seed" /\ HalfBuilt(tx.id) /\ SeedFits(tx)

SwapEffect(tx) ==
    /\ tx.kind = "swap"
    /\ held' = [held EXCEPT ![tx.asset] = @ + 1]
    /\ swapped' = [swapped EXCEPT ![tx.asset] = @ + 1]
    /\ UNCHANGED <<count, reserves>>

BatchEffect(tx) ==
    /\ tx.kind = "batch"
    /\ count' = IF tx.create THEN count + 1 ELSE count
    /\ LET r == IF tx.create THEN [owner |-> "me", registered |-> {}, status |-> "created"]
                             ELSE reserves[tx.id]
       IN reserves' = [reserves EXCEPT ![tx.id] = Registered(r, tx.range)]
    /\ UNCHANGED <<held, swapped>>

SeedEffect(tx) ==
    /\ tx.kind = "seed"
    /\ held' = [a \in Assets |-> held[a] - tx.amt[a]]
    /\ reserves' = [reserves EXCEPT ![tx.id].status = "active"]
    /\ UNCHANGED <<count, swapped>>

Flying(t) == t \in 1..sent /\ txs[t].st = "flying" /\ ~txs[t].past
\* What is left of a transaction that ended is how it ended.
Ends(t, st) == txs' = [txs EXCEPT ![t] = [NoTx EXCEPT !.st = st]]
Fault == faults < MaxFaults /\ faults' = faults + 1
Elsewhere == UNCHANGED <<disk, page, outcome, foreign>>

Land(t) ==
    /\ Flying(t)
    /\ \/ /\ Applies(txs[t]) /\ Ends(t, "landed")
          /\ SwapEffect(txs[t]) \/ BatchEffect(txs[t]) \/ SeedEffect(txs[t])
       \/ /\ ~Applies(txs[t]) /\ Ends(t, "failed")
          /\ UNCHANGED <<count, reserves, held, swapped>>
    /\ Elsewhere /\ UNCHANGED <<sent, faults>>

\* A swap whose price moved past its slippage fails on-chain and moves nothing.
Slips(t) ==
    /\ Flying(t) /\ txs[t].kind = "swap" /\ Ends(t, "failed") /\ Fault
    /\ Elsewhere /\ UNCHANGED <<count, reserves, held, swapped, sent>>

\* The last valid block of a transaction passes: one still in flight can no
\* longer land (a fault), one that landed since the last status read keeps its effect.
Pass(t) ==
    /\ t \in 1..sent /\ ~txs[t].past
    /\ \/ txs[t].st = "flying" /\ Fault
       \/ txs[t].st = "landed" /\ t = wait /\ polled /\ UNCHANGED faults
    /\ txs' = [txs EXCEPT ![t].past = TRUE]
    /\ Elsewhere /\ UNCHANGED <<count, reserves, held, swapped, sent>>

\* Another wallet creates a Reserve and takes the id our deploy was given; at
\* any other time it would only shift our ids.
ForeignReserve ==
    /\ foreign < MaxForeign /\ count < MaxReserves /\ marker.id = count + 1
    /\ foreign' = foreign + 1 /\ count' = count + 1
    /\ \E s \in {"assetsInitializing", "active"}, k \in 1..N + 1 :
          reserves' = [reserves EXCEPT
              ![count + 1] = [owner |-> "other", registered |-> 1..k, status |-> s]]
    /\ UNCHANGED <<held, swapped, sent, txs, disk, page, outcome, faults>>

(***************************************************************************)
(* Sending.  Every transaction is signed, sent and then confirmed by a     *)
(* bounded poll: status first, then block height.                          *)
(***************************************************************************)
Idle == UNCHANGED <<chain, outcome, foreign>>

Sends(tx) ==
    /\ sent < MaxTx
    /\ sent' = sent + 1
    /\ txs' = [txs EXCEPT ![sent + 1] = [tx EXCEPT !.st = "flying"]]
    /\ wait' = sent + 1 /\ polled' = FALSE
    /\ UNCHANGED <<count, reserves, held, swapped, outcome, foreign, faults>>

Polling == pc \in {"swap", "batch", "seeding"}
Confirmed == txs[wait].st = "landed"
\* "failed", or "expired": no status, then a height past the last valid block.
NotLanded == txs[wait].st = "failed" \/ (polled /\ txs[wait].past)
\* "unknown": the polls outlast the transaction's blocks without an answer.
Unanswered == ~Flying(wait) /\ Fault
NotConfirmed == (NotLanded /\ UNCHANGED faults) \/ Unanswered

\* The status read finds nothing yet.
PollStatus ==
    /\ Polling /\ txs[wait].st = "flying" /\ ~polled
    /\ polled' = TRUE
    /\ Idle /\ UNCHANGED <<disk, pc, mem, panel, mode, target, funding, snap, amounts, cur, tries, wait, faults>>

(***************************************************************************)
(* Saving.  A launch keeps the record in memory, where the debounced draft *)
(* save picks it up; a resume keeps it in the marker.                      *)
(***************************************************************************)
SetFunding(f) ==
    /\ funding' = f
    /\ IF mode = "launch" THEN mem' = f /\ UNCHANGED marker
       ELSE marker' = [marker EXCEPT !.funding = IF marker.id = 0 THEN @ ELSE f] /\ UNCHANGED mem

\* Later stages of a launch leave the record as it is, and a save there is one here.
SaveDraft ==
    /\ draft # mem /\ pc \in {"form", "fund", "sign", "swap"}
    /\ draft' = mem
    /\ Idle /\ UNCHANGED <<marker, page, faults>>

(***************************************************************************)
(* How a job ends: its locals are gone, the page shows something else.     *)
(***************************************************************************)
JobOver ==
    /\ mode' = "none" /\ target' = 0 /\ funding' = Fresh /\ snap' = NoAmounts
    /\ amounts' = NoAmounts /\ cur' = 0 /\ tries' = 0 /\ wait' = 0 /\ polled' = FALSE

ShowForm == pc' = "form" /\ panel' = NoDeploy
ShowPanel == IF marker.id = 0 THEN ShowForm ELSE pc' = "panel" /\ panel' = marker
\* A resume that stops leaves the panel as it was shown, funding record included.
StayInPanel == pc' = "panel" /\ UNCHANGED panel
BackFromJob == IF mode = "launch" THEN ShowPanel ELSE StayInPanel

\* A success: the marker is done with, and the page moves on to the Reserve.
Succeed(i) ==
    /\ pc' = "done" /\ reported' = i
    /\ marker' = NoDeploy /\ mem' = Fresh /\ panel' = NoDeploy
    /\ JobOver /\ UNCHANGED <<chain, abandoned, foreign>>

\* Mistake: declining in the wallet drops the marker.
RejectsForgets ==
    /\ pc \in {"sign", "send", "seed"} /\ Fault
    /\ ShowForm /\ marker' = NoDeploy
    /\ JobOver /\ Idle /\ UNCHANGED <<draft, mem>>

\* The creator declines in the wallet; nothing was sent.
Rejects ==
    /\ pc \in {"sign", "send", "seed"} /\ Fault
    /\ IF mode = "launch" THEN ShowForm ELSE StayInPanel
    /\ JobOver /\ Idle /\ UNCHANGED <<disk, mem>>

\* Funding stops: a launch is back at the form, a resume reconciles.
FundingStops ==
    IF mode = "launch" THEN ShowForm /\ JobOver
    ELSE pc' = "check" /\ UNCHANGED <<panel, mode, target, funding, snap, amounts, cur, tries, wait, polled>>

(***************************************************************************)
(* handleSubmitReal and fundSeedAssetsIdempotent.                          *)
(***************************************************************************)
\* A balance read that fails reads as zero (fetchOwnedBalanceRaw).
Missed == {{}} \cup IF faults < MaxFaults THEN {{a} : a \in Assets} ELSE {}

StartFunding(f) ==
    /\ \E m \in Missed :
          /\ snap' = [a \in Assets |-> IF a \in m THEN 0 ELSE held[a]]
          /\ faults' = faults + Cardinality(m)
    /\ amounts' = NoAmounts /\ cur' = 1 /\ tries' = 1 /\ polled' = FALSE /\ wait' = 0
    /\ pc' = "fund" /\ funding' = f

PressLaunch ==
    /\ pc = "form" /\ marker.id = 0 /\ count < MaxReserves
    /\ mode' = "launch" /\ target' = 0 /\ StartFunding(mem)
    /\ Idle /\ UNCHANGED <<disk, mem, panel>>

\* A deployment already in progress is shown instead of starting another.
LaunchFindsMarker ==
    /\ pc = "form" /\ marker.id # 0 /\ ShowPanel
    /\ Idle /\ UNCHANGED <<disk, mem, job, faults>>

Unresolved(a) == funding[a].sig # 0 /\ funding[a].status \in {"submitted", "awaiting_signature"}

\* The balance after a confirmed swap, or the balance before it when no read
\* settles in time.
SettledBalance(b) == \/ b = held[cur] /\ UNCHANGED faults
                     \/ b = snap[cur] /\ b # held[cur] /\ Fault

\* One status read of the recorded signature: landed means the tokens are
\* there, anything else resets the asset.
Reconcile ==
    /\ pc = "fund" /\ cur <= N /\ Unresolved(cur)
    /\ IF txs[funding[cur].sig].st = "landed"
       THEN /\ SetFunding(Advance(funding, cur, "confirmed", 0))
            /\ \E b \in {held[cur], snap[cur]} : SettledBalance(b) /\ snap' = [snap EXCEPT ![cur] = b]
       ELSE SetFunding(Advance(funding, cur, "not_started", 0)) /\ UNCHANGED <<snap, faults>>
    /\ Idle /\ UNCHANGED <<draft, pc, panel, mode, target, amounts, cur, tries, wait, polled>>

ReadyWith(amount) ==
    /\ amounts' = [amounts EXCEPT ![cur] = amount]
    /\ cur' = cur + 1 /\ tries' = 1

AlreadyHeld ==
    /\ pc = "fund" /\ cur <= N /\ ~Unresolved(cur) /\ snap[cur] >= 1
    /\ SetFunding(Advance(funding, cur, "ready_to_seed", 0)) /\ ReadyWith(1)
    /\ Idle /\ UNCHANGED <<draft, pc, panel, mode, target, snap, wait, polled, faults>>

QuoteAsset(f) == Advance(Advance(f, cur, "quoted", 0), cur, "awaiting_signature", 0)

NeedsSwap ==
    /\ pc = "fund" /\ cur <= N /\ ~Unresolved(cur) /\ snap[cur] < 1
    /\ IF Spent < Funds
       THEN /\ pc' = "sign" /\ SetFunding(QuoteAsset(funding))
            /\ UNCHANGED <<panel, mode, target, snap, amounts, cur, tries, wait, polled>>
       ELSE FundingStops /\ UNCHANGED <<marker, mem>>
    /\ Idle /\ UNCHANGED <<draft, faults>>

SendSwap ==
    /\ pc = "sign" /\ pc' = "swap"
    /\ Sends([NoTx EXCEPT !.kind = "swap", !.asset = cur])
    /\ SetFunding(Advance(funding, cur, "submitted", sent + 1))
    /\ UNCHANGED <<draft, panel, mode, target, snap, amounts, cur, tries>>

SwapConfirmed ==
    /\ pc = "swap" /\ Confirmed /\ pc' = "fund"
    /\ LET f == Advance(Advance(funding, cur, "confirmed", 0), cur, "balance_verified", 0)
       IN SetFunding(Advance(f, cur, "ready_to_seed", 0))
    /\ \E b \in {held[cur], snap[cur]} : SettledBalance(b) /\ ReadyWith(b)
    /\ Idle /\ UNCHANGED <<draft, panel, mode, target, snap, wait, polled>>

\* A swap that did not land is quoted again with more slippage, up to a ceiling.
SwapNotLanded ==
    /\ pc = "swap" /\ NotLanded
    /\ LET f == Advance(funding, cur, "not_started", 0)
       IN IF tries < SlippageSteps
          THEN /\ pc' = "sign" /\ tries' = tries + 1 /\ SetFunding(QuoteAsset(f))
               /\ UNCHANGED <<panel, mode, target, snap, amounts, cur, wait, polled>>
          ELSE IF mode = "launch" THEN ShowForm /\ JobOver /\ mem' = f /\ UNCHANGED marker
          ELSE /\ pc' = "check" /\ SetFunding(f)
               /\ UNCHANGED <<panel, mode, target, snap, amounts, cur, tries, wait, polled>>
    /\ Idle /\ UNCHANGED <<draft, faults>>

SwapUnknown ==
    /\ pc = "swap" /\ Unanswered /\ FundingStops
    /\ Idle /\ UNCHANGED <<disk, mem>>

(***************************************************************************)
(* createReserveOnChain after funding.                                     *)
(***************************************************************************)
Funded == pc = "fund" /\ cur > N
\* Mistake: seed amounts of zero are let through.
SeedUnchecked == TRUE
SeedAmountsOk == \A a \in Assets : amounts[a] >= 1

\* The id comes from one read of the protocol's count; the marker is saved
\* before anything is sent.  No instruction has been sent yet: cur is -1.
Derive ==
    /\ Funded /\ mode = "launch" /\ SeedAmountsOk
    /\ target' = count + 1 /\ marker' = [id |-> count + 1, funding |-> mem]
    /\ pc' = "send" /\ cur' = -1
    /\ Idle /\ UNCHANGED <<draft, mem, panel, mode, funding, snap, amounts, tries, wait, polled, faults>>

\* Amounts the seed would refuse, or the read of the count fails: nothing is built.
PreflightFails ==
    /\ Funded /\ mode = "launch" /\ ShowForm
    /\ IF SeedAmountsOk THEN Fault ELSE UNCHANGED faults
    /\ JobOver /\ Idle /\ UNCHANGED <<disk, mem>>

\* Mistake: an instruction that still fits is pulled forward.
PackedByFit == IF cur = -1 THEN {0, N} ELSE {i \in 1..N : cur < i /\ i <= cur + BatchSize}
\* Mistake: a batch runs past the last asset.
BatchPastEnd == {i \in 0..N + 1 : cur < i /\ i <= cur + BatchSize}

\* Instruction 0 creates the Reserve, instruction a registers asset a; batches
\* keep their order.
NextBatch == {i \in 0..N : cur < i /\ i <= cur + BatchSize}

SendBatch ==
    /\ pc = "send" /\ pc' = "batch"
    /\ Sends([NoTx EXCEPT !.kind = "batch", !.id = target,
                          !.create = 0 \in NextBatch, !.range = NextBatch \ {0}])
    /\ UNCHANGED <<disk, mem, panel, mode, target, funding, snap, amounts, cur, tries>>

BatchConfirmed ==
    /\ pc = "batch" /\ Confirmed
    /\ cur' = IF cur + BatchSize < N THEN cur + BatchSize ELSE N
    /\ pc' = IF cur' < N THEN "send" ELSE IF mode = "launch" THEN "seed" ELSE "refund"
    /\ Idle /\ UNCHANGED <<disk, mem, panel, mode, target, funding, snap, amounts, tries, wait, polled, faults>>

\* A launch looks for the Reserve account, a resume for a complete Reserve.
BatchStops ==
    /\ pc = "batch" /\ NotConfirmed
    /\ pc' = IF mode = "launch" THEN "exists" ELSE "check"
    /\ Idle /\ UNCHANGED <<disk, mem, panel, job>>

SendSeed ==
    /\ pc = "seed" /\ CanEnterSeeding(funding) /\ pc' = "seeding"
    /\ Sends([NoTx EXCEPT !.kind = "seed", !.id = target, !.amt = amounts])
    /\ UNCHANGED <<disk, mem, panel, mode, target, funding, snap, amounts, cur, tries>>

LaunchSeeded ==
    /\ pc = "seeding" /\ Confirmed /\ mode = "launch" /\ Succeed(target)
    /\ draft' = Fresh /\ UNCHANGED faults

ResumeSeeded ==
    /\ pc = "seeding" /\ Confirmed /\ mode = "resume" /\ pc' = "final"
    /\ Idle /\ UNCHANGED <<disk, mem, panel, job, faults>>

SeedStops ==
    /\ pc = "seeding" /\ NotConfirmed
    /\ pc' = "check"
    /\ Idle /\ UNCHANGED <<disk, mem, panel, job>>

\* A read, a quote or the submission fails before anything is sent.
SendFails ==
    /\ Fault
    /\ \/ pc \in {"fund", "sign"} /\ cur <= N /\ FundingStops
       \/ /\ pc \in {"send", "seed"} /\ UNCHANGED <<panel, job>>
          /\ pc' = IF mode = "launch" /\ pc = "send" THEN "exists" ELSE "check"
    /\ Idle /\ UNCHANGED <<disk, mem>>

(***************************************************************************)
(* After a failure: reserveAccountExistsOnChain and                        *)
(* checkReserveGenuinelyComplete.                                          *)
(***************************************************************************)
\* Mistake: a Reserve with all its assets is complete, whatever its status.
ResumePointByCount(i) ==
    IF i > count THEN "start_fresh"
    ELSE IF Cardinality(reserves[i].registered) < N THEN "registration" ELSE "complete"

\* determineDeploymentResumePoint on a fresh read of Reserve i.
ResumePoint(i) ==
    LET r == reserves[i]
        k == Cardinality(r.registered)
    IN IF i > count THEN "start_fresh"
       ELSE IF k < N /\ r.status \in Unseeded THEN "registration"
       ELSE IF k # N THEN "mismatch"
       ELSE IF r.status = "assetsInitializing" THEN "funding"
       ELSE "complete"

\* The account is there, whoever created it: the launch becomes resumable.
ReserveExists ==
    /\ pc = "exists" /\ target <= count /\ ShowPanel
    /\ JobOver /\ Idle /\ UNCHANGED <<disk, mem, faults>>

ReserveMissing ==
    /\ pc = "exists" /\ target > count /\ ShowForm
    /\ marker' = NoDeploy
    /\ JobOver /\ Idle /\ UNCHANGED <<draft, mem, faults>>

ExistsUnread ==
    /\ pc = "exists" /\ Fault /\ ShowForm
    /\ JobOver /\ Idle /\ UNCHANGED <<disk, mem>>

CheckedComplete ==
    /\ pc = "check" /\ ResumePoint(target) = "complete" /\ Succeed(target)
    /\ UNCHANGED <<draft, faults>>

CheckedIncomplete ==
    /\ pc = "check"
    /\ IF ResumePoint(target) = "complete" THEN Fault ELSE UNCHANGED faults
    /\ BackFromJob /\ JobOver /\ Idle /\ UNCHANGED <<disk, mem>>

(***************************************************************************)
(* resumeReserveDeploymentOnChain: every stage reads the Reserve afresh.   *)
(***************************************************************************)
PressResume ==
    /\ pc = "panel" /\ pc' = "resume"
    /\ mode' = "resume" /\ target' = panel.id /\ funding' = panel.funding
    /\ UNCHANGED <<snap, amounts, cur, tries, wait, polled>>
    /\ Idle /\ UNCHANGED <<disk, mem, panel, faults>>

\* Mistake: a resume registers every asset again.
AllAgain(i) == 0
\* Registration goes on behind the assets that are registered; they are the
\* first ones, because registration keeps its order.
RegisteredUpTo(i) == Cardinality(reserves[i].registered)

ResumeReads ==
    /\ pc = "resume"
    /\ LET at == ResumePoint(target)
       IN \/ /\ at \in {"start_fresh", "mismatch"} /\ StayInPanel
             /\ JobOver /\ Idle /\ UNCHANGED <<disk, mem>>
          \/ at = "complete" /\ Succeed(target) /\ UNCHANGED draft
          \/ /\ at = "registration" /\ pc' = "send"
             /\ cur' = RegisteredUpTo(target)
             /\ Idle /\ UNCHANGED <<disk, mem, panel, mode, target, funding, snap, amounts, tries, wait, polled>>
          \/ /\ at = "funding" /\ pc' = "refund"
             /\ Idle /\ UNCHANGED <<disk, mem, panel, job>>
    /\ UNCHANGED faults

Initializing == reserves[target].status = "assetsInitializing"

\* statusBeforeFunding: anything past initialising is a completed deployment.
ResumeFunds ==
    /\ pc = "refund"
    /\ \/ /\ Initializing /\ StartFunding(panel.funding)
          /\ Idle /\ UNCHANGED <<disk, mem, panel, mode, target>>
       \/ ~Initializing /\ Succeed(target) /\ UNCHANGED <<draft, faults>>

\* freshBeforeSeed: seed only a Reserve that still wants it, with amounts it takes.
ResumeFunded ==
    /\ Funded /\ mode = "resume"
    /\ pc' = IF ~Initializing THEN "final" ELSE IF SeedAmountsOk THEN "seed" ELSE "check"
    /\ Idle /\ UNCHANGED <<disk, mem, panel, job, faults>>

\* Success only on a last read past initialising (reads here are never behind).
ResumeEnds ==
    /\ pc = "final"
    /\ IF ~Initializing THEN Succeed(target)
       ELSE pc' = "check" /\ Idle /\ UNCHANGED <<marker, mem, panel, job>>
    /\ UNCHANGED <<draft, faults>>

\* One of these reads fails: the resume stops with a plain error.
ResumeUnread ==
    /\ pc \in {"resume", "refund", "final"} \/ (Funded /\ mode = "resume")
    /\ Fault /\ StayInPanel
    /\ JobOver /\ Idle /\ UNCHANGED <<disk, mem>>

(***************************************************************************)
(* The Resume panel, reloads and the recovery read at mount.               *)
(***************************************************************************)
CheckAgain ==
    /\ pc = "panel"
    /\ \/ /\ ResumePoint(panel.id) = "complete"
          /\ pc' = "done" /\ panel' = NoDeploy /\ marker' = NoDeploy /\ reported' = panel.id
       \/ /\ ResumePoint(panel.id) = "mismatch"
          /\ pc' = "blocked" /\ UNCHANGED <<panel, marker, reported>>
    /\ UNCHANGED <<chain, draft, mem, job, abandoned, faults, foreign>>

Abandon ==
    /\ pc = "panel" /\ ShowForm
    /\ marker' = NoDeploy /\ abandoned' = abandoned \cup {panel.id}
    /\ UNCHANGED <<chain, draft, mem, job, reported, faults, foreign>>

\* The page is lost at any point.  The draft is restored unless a deploy is
\* pending; the form then starts empty, and its next save replaces the draft.
Reload ==
    /\ pc \notin {"done", "recovering"} /\ Fault
    /\ pc' = IF marker.id = 0 THEN "form" ELSE "recovering"
    /\ mem' = IF marker.id = 0 THEN draft ELSE Fresh
    /\ panel' = NoDeploy
    /\ JobOver /\ Idle /\ UNCHANGED disk

Recover ==
    /\ pc = "recovering"
    /\ LET at == ResumePoint(marker.id)
       IN \/ at = "start_fresh" /\ ShowForm /\ marker' = NoDeploy /\ UNCHANGED reported
          \/ /\ at = "complete" /\ pc' = "done" /\ panel' = NoDeploy
             /\ reported' = marker.id /\ marker' = NoDeploy
          \/ at = "mismatch" /\ pc' = "blocked" /\ UNCHANGED <<panel, marker, reported>>
          \/ at \in {"registration", "funding"} /\ ShowPanel /\ UNCHANGED <<marker, reported>>
    /\ UNCHANGED <<chain, draft, mem, job, abandoned, faults, foreign>>

\* The read fails (one with the reload): the form is back and the marker stays.
RecoverUnread ==
    /\ pc = "recovering" /\ ShowForm
    /\ Idle /\ UNCHANGED <<disk, mem, job, faults>>

(***************************************************************************)
(* The specification.                                                      *)
(***************************************************************************)
Init ==
    /\ count = 0 /\ reserves = [i \in 1..MaxReserves |-> NoReserve]
    /\ held = NoAmounts /\ swapped = NoAmounts
    /\ sent = 0 /\ txs = [t \in 1..MaxTx |-> NoTx]
    /\ marker = NoDeploy /\ draft = Fresh /\ mem = Fresh /\ panel = NoDeploy
    /\ pc = "form" /\ mode = "none" /\ target = 0 /\ funding = Fresh
    /\ snap = NoAmounts /\ amounts = NoAmounts /\ cur = 0 /\ tries = 0 /\ wait = 0 /\ polled = FALSE
    /\ reported = 0 /\ abandoned = {} /\ faults = 0 /\ foreign = 0

Chain == ForeignReserve \/ \E t \in 1..MaxTx : Land(t) \/ Slips(t) \/ Pass(t)

Funding ==
    \/ Reconcile \/ AlreadyHeld \/ NeedsSwap \/ SendSwap
    \/ SwapConfirmed \/ SwapNotLanded \/ SwapUnknown

Building ==
    \/ Derive \/ PreflightFails \/ SendBatch \/ BatchConfirmed \/ BatchStops
    \/ SendSeed \/ LaunchSeeded \/ SeedStops \/ SendFails

Reconciling == ReserveExists \/ ReserveMissing \/ ExistsUnread \/ CheckedComplete \/ CheckedIncomplete
Resuming == ResumeReads \/ ResumeFunds \/ ResumeFunded \/ ResumeSeeded \/ ResumeEnds \/ ResumeUnread
Client == PollStatus \/ Funding \/ Building \/ Reconciling \/ Resuming \/ Recover \/ RecoverUnread
Creator == PressLaunch \/ LaunchFindsMarker \/ PressResume \/ CheckAgain

\* The page shows its last word, or a bound of the model is reached.
Stop ==
    /\ pc \in {"done", "blocked"} \/ (pc = "form" /\ count = MaxReserves) \/ sent = MaxTx
    /\ UNCHANGED vars

Next == Chain \/ Client \/ Creator \/ Rejects \/ Abandon \/ Reload \/ SaveDraft \/ Stop

Spec == Init /\ [][Next]_vars

\* Transactions land or are lost, the page's own code runs, and a creator who
\* started a launch goes on with it.
Progress == Client /\ faults' = faults
Fairness == /\ WF_vars(\E t \in 1..MaxTx : Land(t))
            /\ WF_vars(Progress) /\ WF_vars(Creator)
FairSpec == Spec /\ Fairness

(***************************************************************************)
(* Properties.                                                             *)
(***************************************************************************)
FundingRecord == [Assets -> [status : Statuses, sig : 0..MaxTx]]
Deploy == [id : 0..MaxReserves + 1, funding : FundingRecord]
Amounts == [Assets -> Nat]
Account == [owner : {"none", "me", "other"}, registered : SUBSET (1..N + 1),
            status : {"none", "created", "assetsInitializing", "active"}]
Tx == [kind : {"none", "swap", "batch", "seed"}, asset : 0..N, id : 0..MaxReserves + 1,
       create : BOOLEAN, range : SUBSET Assets, amt : Amounts,
       st : {"none", "flying", "landed", "failed"}, past : BOOLEAN]

ChainOK ==
    /\ count \in 0..MaxReserves /\ reserves \in [1..MaxReserves -> Account]
    /\ held \in Amounts /\ swapped \in Amounts
    /\ sent \in 0..MaxTx /\ txs \in [1..MaxTx -> Tx]

RecordsOK ==
    /\ marker \in Deploy /\ panel \in Deploy
    /\ draft \in FundingRecord /\ mem \in FundingRecord

JobOK ==
    /\ pc \in {"form", "fund", "sign", "swap", "send", "batch", "seed", "seeding", "exists", "check",
              "panel", "resume", "refund", "final", "recovering", "blocked", "done"}
    /\ mode \in {"none", "launch", "resume"} /\ target \in 0..MaxReserves + 1
    /\ funding \in FundingRecord /\ snap \in Amounts /\ amounts \in Amounts
    /\ cur \in -1..N + 1 /\ tries \in 0..SlippageSteps /\ wait \in 0..MaxTx /\ polled \in BOOLEAN

OutcomeOK ==
    /\ reported \in 0..MaxReserves /\ abandoned \subseteq 1..MaxReserves + 1
    /\ faults \in 0..MaxFaults /\ foreign \in 0..MaxForeign

\* Every variable keeps its type; a transaction registers assets of the basket.
TypeOK == ChainOK /\ RecordsOK /\ JobOK /\ OutcomeOK

\* A success is shown only for a Reserve that is Active on-chain, whichever of
\* the five paths to a success the page took.
ReportedActive == reported # 0 => Active(reported)

\* The registered assets of a Reserve of ours are always a prefix of the order
\* its deploy was started with, which is what lets a resume slice the list.
PrefixRegistered ==
    \A i \in 1..MaxReserves : Mine(i) => \E k \in 0..N : reserves[i].registered = 1..k

\* The seeding gate never refuses what funding let through.
GateOpen == pc = "seed" => CanEnterSeeding(funding)

\* The marker of a half-built Reserve of ours is dropped by the creator only.
KeptUntilActive ==
    [][HalfBuilt(marker.id) /\ marker'.id # marker.id => marker.id \in abandoned']_vars

\* What a launch is going to seed is in the wallet from before it creates the
\* Reserve until it seeds it, unless an abandoned seed of another one lands.
SeedFunded ==
    mode = "launch" /\ pc \in {"send", "batch", "seed"} /\ abandoned = {} =>
        \A a \in Assets : 1 <= amounts[a] /\ amounts[a] <= held[a]

\* A tracked half-built Reserve becomes Active, unless the creator abandons it
\* or runs out of the USDC its missing assets cost.
LaunchCompletes ==
    \A i \in 1..MaxReserves :
        (marker.id = i /\ HalfBuilt(i)) ~> (~HalfBuilt(i) \/ i \in abandoned \/ Spent = Funds)

(***************************************************************************)
(* Claims of the source that the code does not keep.                       *)
(***************************************************************************)
\* A swap that "definitively did not land" is the only one that is repeated: no
\* asset of the basket is bought twice.
BasketBoughtOnce == \A a \in Assets : swapped[a] <= 1
=============================================================================
