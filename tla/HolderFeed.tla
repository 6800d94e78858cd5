----------------------------- MODULE HolderFeed -----------------------------
(***************************************************************************)
(* The holders' share of what a pool earns (instructions/liquidity_terms   *)
(* and liquidity_split of the program) and job D of the keeper, which puts *)
(* it to use (lib/mainnet/basketFeed.ts).  The share collects as USDC in   *)
(* the feed account and is released over a window; released USDC is turned *)
(* into the Reserve's assets and, for a split, in part into liquidity.     *)
(*                                                                         *)
(* begin, route and end are one transaction and one step: the route pays   *)
(* what begin's min_out asks or nothing happens.  Time is relative: an     *)
(* account holds how long its stream still lasts and how long ago it was   *)
(* brought up to date.  Amounts stay below u64 and total_fed's saturation. *)
(***************************************************************************)
EXTENDS FeeMath, Functions, FiniteSets

CONSTANTS
    Bps,            \* BPS
    SsrShare,       \* SSR_SHARE_BPS
    HolderShare,    \* holder_share_bps; job D looks at pools where it is positive
    PoolShares,     \* pool_share_bps a creator may choose; 0 for no split account
    Window,         \* FEED_RELEASE_SECONDS, in ticks of the clock
    CollectMin, FeedMin, LegMin,   \* the keeper's minimal amounts
    Weight,         \* by asset of the basket: its target weight
    MaxReceived,    \* bound of the model: USDC on its way to, or ever in, the feed
    MaxFaults       \* bound of the model: failures of a keeper's run

Assets == DOMAIN Weight

ASSUME FeedAssumption ==
    /\ {Bps, Window, CollectMin, FeedMin, LegMin} \subseteq Nat \ {0}
    /\ SsrShare \in 0..Bps /\ HolderShare \in 0..Bps /\ PoolShares \subseteq 0..Bps
    /\ IsFiniteSet(Assets) /\ Weight \in [Assets -> Nat \ {0}]
    /\ MaxReceived \in Nat /\ MaxFaults \in Nat

VARIABLES
    status,     \* of the Reserve
    rateKept,   \* Raydium still retains the part recorded when the pool was configured
    staging,    \* creator fees waiting in the pool or its router
    remainder,  \* LiquidityRevenue.remainder
    terms,      \* LiquidityTerms
    split,      \* LiquiditySplit
    feed,       \* balance of the feed account
    backing,    \* USDC that was swapped into the vaults
    received,   \* history: USDC that ever came to the feed
    arrived,    \* history: the same, by its age up to Window
    at,         \* the step of the keeper's run
    visit,      \* what that run has read and decided
    faults

stream  == <<terms, split, feed, backing>>
history == <<received, arrived>>
chain   == <<status, rateKept, staging, remainder, stream, history>>
vars    == <<chain, at, visit, faults>>

NewTerms == [locked |-> 0, unlocked |-> 0, left |-> 0, since |-> 0, fed |-> 0]
NoLegs   == [a \in Assets |-> 0]
NoVisit  == [terms |-> NewTerms, feed |-> 0, released |-> 0, legs |-> NoLegs]

(* configure_v2, and configure_split in the same transaction or never.     *)
Init ==
    /\ status = "active" /\ rateKept = TRUE /\ staging = 0 /\ remainder = 0
    /\ terms = NewTerms
    /\ split \in [share : PoolShares, fed : {0}]
    /\ feed = 0 /\ backing = 0
    /\ received = 0 /\ arrived = [age \in 0..Window |-> 0]
    /\ at = "idle" /\ visit = NoVisit /\ faults = 0

-----------------------------------------------------------------------------
(* LiquidityTerms::release: linear until the end of the stream.            *)
Released(t) ==
    IF t.since >= t.left THEN t.locked ELSE MulDivFloor(t.since, t.locked, t.left)

Release(t) ==
    [t EXCEPT !.locked = @ - Released(t), !.unlocked = @ + Released(t),
              !.left = @ - t.since, !.since = 0]

Lesser(m, n) == IF m <= n THEN m ELSE n

(* Mistake: the window starts again only for an empty stream.              *)
TrackOldWindow(t, balance) ==
    LET tracked == t.locked + t.unlocked
    IN  IF balance > tracked
        THEN [t EXCEPT !.locked = @ + (balance - tracked),
                       !.left = IF t.locked = 0 THEN Window ELSE @]
        ELSE t

(* LiquidityTerms::sync: what came since the last sync starts releasing    *)
(* now, and what is still locked starts over with it.                      *)
Track(t, balance) ==
    LET tracked == t.locked + t.unlocked
        unlocked == Lesser(t.unlocked, balance)
    IN  CASE balance < tracked -> [t EXCEPT !.unlocked = unlocked,
                                            !.locked = Lesser(@, balance - unlocked)]
          [] balance > tracked -> [t EXCEPT !.locked = @ + (balance - tracked),
                                            !.left = Window]
          [] OTHER -> t

Sync(t, balance) == Track(Release(t), balance)

(* Mistakes: begin lends without taking it off what is released; what      *)
(* comes back is not released again, or still counts as the pool's.        *)
SpendUntracked(t, n)    == [t EXCEPT !.fed = @ + n]
GiveBackUnreleased(t, n) == [t EXCEPT !.fed = @ - n]
PoolTakesAll(fed, n, unspent) == fed + n

(* What begin takes, and what pool_feed_end takes back.                    *)
Spend(t, n)    == [t EXCEPT !.unlocked = @ - n, !.fed = @ + n]
GiveBack(t, n) == [t EXCEPT !.unlocked = @ + n, !.fed = @ - n]
PoolTakes(fed, n, unspent) == fed + n - unspent

(* Mistake: the share is checked before the amount is added.               *)
PoolFeedAllowedBefore(t, n) == split.fed * Bps <= (t.fed + t.unlocked) * split.share

(* pool_feed_allowed, and its mirror poolFeedRoom.                         *)
PoolFeedAllowed(t, n) == (split.fed + n) * Bps <= (t.fed + t.unlocked) * split.share

PoolFeedRoom(total) ==
    LET cap == MulDivFloor(total, split.share, Bps)
    IN  IF cap > split.fed THEN cap - split.fed ELSE 0

HolderPart(creator) == MulDivFloor(creator, HolderShare, Bps)

-----------------------------------------------------------------------------
(* The instructions, as changes of the chain.                              *)

Receive(n) ==
    /\ feed' = feed + n
    /\ received' = received + n
    /\ arrived' = [arrived EXCEPT ![0] = @ + n]

(* collect and distribute_v2.                                              *)
DistributeV2 ==
    LET numerator == staging * SsrShare + remainder
        ssr == numerator \div Bps
        holders == HolderPart(staging - ssr)
    IN  /\ remainder' = numerator % Bps
        /\ staging' = 0
        /\ Receive(holders)
        /\ terms' = Sync(terms, feed + holders)
        /\ UNCHANGED <<status, rateKept, split, backing>>

(* Mistake: whatever the feed holds for the stream may be lent.            *)
CanFeedTracked(n) ==
    /\ status \in {"active", "paused", "winddown"}
    /\ n \in Nat \ {0} /\ n <= Sync(terms, feed).unlocked + Sync(terms, feed).locked

(* basket_feed_begin, the route and rebalance_swap_end.                    *)
CanFeed(n) ==
    /\ status \in {"active", "paused", "winddown"}
    /\ n \in Nat \ {0} /\ n <= Sync(terms, feed).unlocked

BasketFeed(n) ==
    /\ terms' = Spend(Sync(terms, feed), n)
    /\ feed' = feed - n
    /\ backing' = backing + n
    /\ UNCHANGED <<status, rateKept, staging, remainder, split, history>>

(* pool_feed_begin, swap, deposit and pool_feed_end, which returns unspent.*)
CanPoolFeed(n) ==
    /\ status = "active" /\ split.share > 0
    /\ n \in Nat \ {0} /\ n <= Sync(terms, feed).unlocked
    /\ PoolFeedAllowed(Sync(terms, feed), n)

PoolFeed(n, unspent) ==
    /\ terms' = GiveBack(Spend(Sync(terms, feed), n), unspent)
    /\ split' = [split EXCEPT !.fed = PoolTakes(@, n, unspent)]
    /\ feed' = feed - n + unspent
    /\ UNCHANGED <<status, rateKept, staging, remainder, backing, history>>

-----------------------------------------------------------------------------
(* The keeper's run.  A Fault is anything that goes wrong for the keeper.  *)

Fault == faults < MaxFaults /\ faults' = faults + 1
Go(step, v) == at' = step /\ visit' = v

(* sendV0, as in FeeSettlement.                                            *)
Send(executes, effect, onSuccess, onFailure) ==
    \/ executes /\ effect /\ onSuccess /\ UNCHANGED faults
    \/ executes /\ effect /\ onFailure /\ Fault
    \/ onFailure /\ Fault /\ UNCHANGED chain
    \/ ~executes /\ onFailure /\ UNCHANGED <<chain, faults>>

(* A Reserve that was closed is "unavailable".                             *)
StartRun ==
    /\ at = "idle" /\ status # "closed"
    /\ Go(IF staging >= CollectMin THEN "collect" ELSE "read", NoVisit)
    /\ UNCHANGED <<chain, faults>>

(* A failure here ends the run: nothing is fed.                            *)
CollectStep ==
    /\ at = "collect"
    /\ Send(rateKept, DistributeV2, Go("read", NoVisit), Go("idle", NoVisit))

ReadAccounts ==
    /\ at = "read"
    /\ Go("clock", [visit EXCEPT !.terms = terms, !.feed = feed])
    /\ UNCHANGED <<chain, faults>>

(* planBasketFeedLegs: by weight, what rounding leaves to the heaviest.    *)
Heaviest == CHOOSE a \in Assets : \A b \in Assets : Weight[b] <= Weight[a]

PlanLegs(amount) ==
    LET part == [a \in Assets |-> MulDivFloor(amount, Weight[a], SumFunction(Weight))]
        leg  == [part EXCEPT ![Heaviest] = @ + (amount - SumFunction(part))]
    IN  [a \in Assets |-> IF leg[a] >= LegMin THEN leg[a] ELSE 0]

FeedLegs(amount) ==
    IF amount < FeedMin
    THEN Go("idle", NoVisit)
    ELSE Go("legs", [NoVisit EXCEPT !.legs = PlanLegs(amount)])

(* Mistake: the keeper looks at what the account says without bringing it  *)
(* up to date.                                                             *)
StoredBasketFeed(t, balance) == t.unlocked

(* The time is read after the accounts; releasedBasketFeed mirrors sync.   *)
ReleasedBasketFeed(t, balance) == Sync(t, balance).unlocked

ReadClock ==
    LET released == ReleasedBasketFeed(visit.terms, visit.feed) IN
    /\ at = "clock"
    /\ IF released >= FeedMin /\ split.share > 0
       THEN Go("pool", [NoVisit EXCEPT !.released = released,
                                       !.terms.fed = visit.terms.fed])
       ELSE FeedLegs(released)
    /\ UNCHANGED <<chain, faults>>

(* The pool's part: nothing, or up to what there is room for.  Off NAV it  *)
(* goes to backing; sent or not, what is held stays out of the legs.       *)
Held == LET room == PoolFeedRoom(visit.terms.fed + visit.released)
        IN  IF room >= LegMin THEN Lesser(room, visit.released) ELSE 0

ToBackingOffNav == visit.released
ToBacking == visit.released - Held

SkipPool ==
    /\ at = "pool"
    /\ FeedLegs(ToBacking) \/ FeedLegs(ToBackingOffNav)
    /\ UNCHANGED <<chain, faults>>

SendPool(n, unspent) ==
    /\ at = "pool" /\ n <= Held /\ n >= LegMin
    /\ Send(CanPoolFeed(n), PoolFeed(n, unspent), FeedLegs(ToBacking), FeedLegs(ToBacking))

LegDone(a) == [visit EXCEPT !.legs[a] = 0]

SkipLeg(a) ==
    /\ at = "legs" /\ visit.legs[a] > 0
    /\ Go("legs", LegDone(a)) /\ Fault /\ UNCHANGED chain

SendLeg(a) ==
    /\ at = "legs" /\ visit.legs[a] > 0
    /\ Send(CanFeed(visit.legs[a]), BasketFeed(visit.legs[a]),
            Go("legs", LegDone(a)), Go("legs", LegDone(a)))

EndRun ==
    /\ at = "legs" /\ visit.legs = NoLegs
    /\ Go("idle", NoVisit) /\ UNCHANGED <<chain, faults>>

(* The time budget runs out, a read fails or the run crashes.              *)
StopRun ==
    /\ at # "idle" /\ Fault
    /\ Go("idle", NoVisit) /\ UNCHANGED chain

Amounts == 1..MaxReceived

Keeper ==
    \/ StartRun \/ CollectStep \/ ReadAccounts \/ ReadClock \/ SkipPool \/ EndRun
    \/ \E n \in Amounts : \E unspent \in 0..(n - 1) : SendPool(n, unspent)
    \/ \E a \in Assets : SendLeg(a)

-----------------------------------------------------------------------------
(* Everyone else, and time.                                                *)

run == <<at, visit, faults>>

Expected(n) == staging + received + n <= MaxReceived

(* Trades leave creator fees; anyone may have them distributed.            *)
Trade(n) ==
    /\ Expected(n) /\ staging' = staging + n
    /\ UNCHANGED <<status, rateKept, remainder, stream, history, run>>

DistributeByAnyone ==
    /\ rateKept /\ staging > 0 /\ DistributeV2
    /\ UNCHANGED run

(* taxed_swap_v2: n is the project tax of one trade.                       *)
TaxedSwap(n) ==
    LET holders == HolderPart(MulDivFloor(n, Bps - SsrShare, Bps)) IN
    /\ Expected(holders) /\ holders > 0
    /\ Receive(holders)
    /\ terms' = Sync(terms, feed + holders)
    /\ UNCHANGED <<status, rateKept, staging, remainder, split, backing, run>>

(* A transfer to the feed account that no instruction knows of.            *)
PlainTransfer(n) ==
    /\ Expected(n) /\ Receive(n)
    /\ UNCHANGED <<status, rateKept, staging, remainder, terms, split, backing, run>>

(* The program binds SSR's signer too, whatever it sends.                  *)
FeedBySigner(n) == CanFeed(n) /\ BasketFeed(n) /\ UNCHANGED run
PoolFeedBySigner(n, unspent) ==
    CanPoolFeed(n) /\ PoolFeed(n, unspent) /\ UNCHANGED run

SetStatus(from, to) ==
    /\ status = from /\ status' = to
    /\ UNCHANGED <<rateKept, staging, remainder, stream, history, run>>

RaydiumChangesRate ==
    /\ rateKept' = ~rateKept
    /\ UNCHANGED <<status, staging, remainder, stream, history, run>>

Age(t) == [t EXCEPT !.since = Lesser(@ + 1, t.left)]

Older == [age \in 0..Window |->
            IF age = 0 THEN 0
            ELSE IF age < Window THEN arrived[age - 1]
            ELSE arrived[age - 1] + arrived[age]]

Tick ==
    /\ terms' = Age(terms)
    /\ visit' = [visit EXCEPT !.terms = Age(@)]
    /\ arrived' = Older
    /\ UNCHANGED <<status, rateKept, staging, remainder, split, feed, backing, received, at, faults>>

Everyone ==
    \/ DistributeByAnyone \/ RaydiumChangesRate
    \/ \E n \in Amounts :
          \/ Trade(n) \/ TaxedSwap(n) \/ PlainTransfer(n) \/ FeedBySigner(n)
          \/ \E unspent \in 0..(n - 1) : PoolFeedBySigner(n, unspent)
    \/ SetStatus("active", "paused") \/ SetStatus("paused", "active")
    \/ SetStatus("active", "winddown") \/ SetStatus("winddown", "closed")

Next == Keeper \/ Tick \/ StopRun \/ (\E a \in Assets : SkipLeg(a)) \/ Everyone

(* The clock runs, the cron comes every hour and a run goes on.            *)
Fairness == WF_vars(Tick) /\ WF_vars(Keeper)

Spec == Init /\ [][Next]_vars /\ Fairness

-----------------------------------------------------------------------------
(* Properties.                                                             *)

Stream == [locked : Nat, unlocked : Nat, left : 0..Window, since : Nat, fed : Nat]

StreamOK(t) == t \in Stream /\ t.since <= t.left

ChainOK ==
    /\ status \in {"active", "paused", "winddown", "closed"} /\ rateKept \in BOOLEAN
    /\ staging \in Nat /\ remainder \in 0..(Bps - 1)
    /\ StreamOK(terms) /\ split \in [share : PoolShares, fed : Nat]
    /\ feed \in Nat /\ backing \in Nat /\ received \in Nat

KeeperOK ==
    /\ at \in {"idle", "collect", "read", "clock", "pool", "legs"} /\ faults \in 0..MaxFaults
    /\ StreamOK(visit.terms) /\ visit.feed \in Nat /\ visit.released \in Nat
    /\ visit.legs \in [Assets -> Nat]

(* Amounts are amounts: the subtractions and divisions of the code, which  *)
(* fail or wrap below zero, are never reached with less than they take.    *)
TypeOK == ChainOK /\ KeeperOK /\ arrived \in [0..Window -> Nat]

(* "Never expected" (liquidity_terms.rs:94): the account always holds what *)
(* is tracked as locked or released, whoever feeds, adds liquidity, gets   *)
(* some of it back, distributes, is taxed or transfers in between.         *)
TrackedIsThere == terms.locked + terms.unlocked <= feed

(* The pool never gets more than its share of all that was released, in    *)
(* whatever order the pool and the basket are fed.                         *)
PoolWithinShare == split.fed * Bps <= (terms.fed + terms.unlocked) * split.share

(* Holders' USDC is never released faster than over the window since it    *)
(* came, although every arrival re-spreads all that is locked and partial  *)
(* releases, returns and feeds come in between.                            *)
NeverAheadOfStream ==
    Window * (terms.unlocked + terms.fed)
      <= SumFunction([age \in 0..Window |-> age * arrived[age]])

(* Every unit that came is in the feed account or was fed, and what counts *)
(* as fed went to the vaults or the pool and nowhere else.                 *)
EveryUnitAccounted == received = feed + terms.fed /\ terms.fed = backing + split.fed

(* What was released stays released or fed: no arrival, late sync or       *)
(* returned amount takes it back.                                          *)
ReleasedNeverTakenBack == [][terms'.unlocked + terms'.fed >= terms.unlocked + terms.fed]_vars

(* What is in the stream beyond what the pool has room for ends up in the  *)
(* vaults once arrivals and failures cease, paused or not, as far as it is *)
(* worth a leg; unless the Reserve is closed, or a collect fails before.   *)
Tracked == terms.locked + terms.unlocked
Worth(amount) == amount >= FeedMin /\ PlanLegs(amount) # NoLegs
PoolsPart == IF split.share > 0 THEN Lesser(PoolFeedRoom(terms.fed + Tracked), Tracked) ELSE 0
CollectFails == ~rateKept /\ staging >= CollectMin
StreamIsFed ==
    Worth(Tracked) ~> ~Worth(Tracked - PoolsPart) \/ status = "closed" \/ CollectFails
=============================================================================
