-------------------------- MODULE HolderFeed_proofs --------------------------
(* What the program and the keeper keep of the holders' stream whoever calls   *)
(* it, for every window, share and basket.  SafeInv is inductive by itself and *)
(* speaks neither of the keeper's run nor of the arrivals by age; RunOK adds   *)
(* the run, and Schedule what the stream owes its arrivals.                    *)
EXTENDS HolderFeed, FeeMath_proofs

(* The conjuncts are inductive together: a feed takes no more than is there    *)
(* because what is tracked is there, and the share is kept because what was    *)
(* released only grows.                                                        *)
SafeInv == ChainOK /\ TrackedIsThere /\ PoolWithinShare /\ EveryUnitAccounted

-----------------------------------------------------------------------------
LEMMA ConstantFacts ==
  /\ Bps \in Nat \ {0} /\ Window \in Nat \ {0}
  /\ SsrShare \in 0..Bps /\ SsrShare \in Nat /\ Bps - SsrShare \in Nat
  /\ HolderShare \in Nat /\ PoolShares \subseteq Nat
<1>1. Bps \in Nat \ {0} /\ Window \in Nat \ {0}
  BY FeedAssumption
<1>2. SsrShare \in 0..Bps /\ HolderShare \in 0..Bps /\ PoolShares \subseteq 0..Bps
  BY FeedAssumption
<1> QED
  BY <1>1, <1>2

(* A stream is a record of five amounts.                                       *)
LEMMA StreamParts == ASSUME NEW t, StreamOK(t)
  PROVE  /\ t.locked \in Nat /\ t.unlocked \in Nat /\ t.fed \in Nat
         /\ t.left \in 0..Window /\ t.since \in Nat /\ t.since <= t.left
         /\ t.left \in Nat
         /\ t = [locked |-> t.locked, unlocked |-> t.unlocked, left |-> t.left,
                 since |-> t.since, fed |-> t.fed]
<1>1. t \in Stream /\ t.since <= t.left /\ Window \in Nat
  BY FeedAssumption DEF StreamOK
<1>2. /\ t.locked \in Nat /\ t.unlocked \in Nat /\ t.fed \in Nat
      /\ t.left \in 0..Window /\ t.since \in Nat
  BY <1>1 DEF Stream
<1>3. t = [locked |-> t.locked, unlocked |-> t.unlocked, left |-> t.left,
           since |-> t.since, fed |-> t.fed]
  BY <1>1, Zenon DEF Stream
<1> QED
  BY <1>1, <1>2, <1>3

LEMMA StreamRecord ==
  ASSUME NEW l \in Nat, NEW u \in Nat, NEW e \in 0..Window, NEW s \in Nat, NEW f \in Nat,
         s <= e
  PROVE  StreamOK([locked |-> l, unlocked |-> u, left |-> e, since |-> s, fed |-> f])
BY DEF StreamOK, Stream

(* What the changes of a stream make of the record.                            *)
LEMMA SpendRecord == ASSUME NEW t \in Stream, NEW n \in Nat, NEW x, x = Spend(t, n)
  PROVE  x = [locked |-> t.locked, unlocked |-> t.unlocked - n, left |-> t.left,
              since |-> t.since, fed |-> t.fed + n]
BY DEF Spend, Stream

LEMMA GiveBackRecord ==
  ASSUME NEW t \in Stream, NEW n \in Nat, NEW m \in Nat, NEW y, y = Spend(t, n),
         NEW x, x = GiveBack(y, m)
  PROVE  x = [locked |-> t.locked, unlocked |-> (t.unlocked - n) + m, left |-> t.left,
              since |-> t.since, fed |-> (t.fed + n) - m]
<1>1. y = [locked |-> t.locked, unlocked |-> t.unlocked - n, left |-> t.left,
           since |-> t.since, fed |-> t.fed + n]
  BY SpendRecord
<1>2. /\ t.locked \in Nat /\ t.unlocked \in Nat /\ t.fed \in Nat
      /\ t.left \in 0..Window /\ t.since \in Nat
  BY DEF Stream
<1>3. y \in [locked : Int, unlocked : Int, left : Int, since : Int, fed : Int]
  BY <1>1, <1>2, FeedAssumption
<1>4. x = [locked |-> y.locked, unlocked |-> y.unlocked + m, left |-> y.left,
           since |-> y.since, fed |-> y.fed - m]
  BY <1>3 DEF GiveBack
<1> QED
  BY <1>1, <1>4

LEMMA ReleaseRecord ==
  ASSUME NEW t \in Stream, NEW n \in Nat, NEW x,
         x = [t EXCEPT !.locked = @ - n, !.unlocked = @ + n, !.left = @ - t.since, !.since = 0]
  PROVE  x = [locked |-> t.locked - n, unlocked |-> t.unlocked + n,
              left |-> t.left - t.since, since |-> 0, fed |-> t.fed]
BY DEF Stream

(* release moves an amount from locked to unlocked.                            *)
LEMMA ReleaseMoves == ASSUME NEW t, StreamOK(t)
  PROVE  /\ StreamOK(Release(t))
         /\ Release(t).fed = t.fed
         /\ Release(t).unlocked >= t.unlocked
         /\ Release(t).locked + Release(t).unlocked = t.locked + t.unlocked
<1>1. /\ t.locked \in Nat /\ t.unlocked \in Nat /\ t.fed \in Nat
      /\ t.left \in 0..Window /\ t.since \in Nat /\ t.since <= t.left /\ t.left \in Nat
      /\ Window \in Nat
  BY StreamParts, FeedAssumption
<1>2. Released(t) \in Nat /\ Released(t) <= t.locked
  <2>1. CASE t.since >= t.left
    BY <1>1, <2>1 DEF Released
  <2>2. CASE t.since < t.left
    <3>1. t.left \in Nat \ {0} /\ t.since <= t.left
      BY <1>1, <2>2
    <3>2. MulDivFloor(t.since, t.locked, t.left) \in Nat
          /\ MulDivFloor(t.since, t.locked, t.left) <= t.locked
      BY <1>1, <3>1, FloorFacts, FloorAtMost
    <3> QED
      BY <1>1, <2>2, <3>2 DEF Released
  <2> QED
    BY <1>1, <2>1, <2>2
<1> DEFINE x == Released(t)
<1>3. Release(t) = [locked |-> t.locked - x, unlocked |-> t.unlocked + x,
                    left |-> t.left - t.since, since |-> 0, fed |-> t.fed]
  <2>1. Release(t) = [t EXCEPT !.locked = @ - x, !.unlocked = @ + x,
                               !.left = @ - t.since, !.since = 0]
    BY Zenon DEF Release
  <2>2. t \in Stream /\ x \in Nat
    BY <1>2 DEF StreamOK
  <2> HIDE DEF x
  <2> QED
    BY <2>1, <2>2, ReleaseRecord
<1> HIDE DEF x
<1>4. /\ t.locked - x \in Nat /\ t.unlocked + x \in Nat
      /\ t.left - t.since \in 0..Window /\ 0 <= t.left - t.since
      /\ t.unlocked + x >= t.unlocked
      /\ (t.locked - x) + (t.unlocked + x) = t.locked + t.unlocked
  BY <1>1, <1>2 DEF x
<1>5. StreamOK(Release(t))
  BY <1>1, <1>3, <1>4, StreamRecord
<1> QED
  BY <1>3, <1>4, <1>5

(* sync never unreleases what is there, tracks all of the balance and leaves   *)
(* what was fed alone.                                                         *)
LEMMA SyncTracks ==
  ASSUME NEW t, StreamOK(t), NEW balance \in Nat, t.locked + t.unlocked <= balance
  PROVE  /\ StreamOK(Sync(t, balance))
         /\ Sync(t, balance).fed = t.fed
         /\ Sync(t, balance).unlocked >= t.unlocked
         /\ Sync(t, balance).locked + Sync(t, balance).unlocked = balance
<1> DEFINE r == Release(t)
<1>1. /\ StreamOK(r) /\ r.fed = t.fed /\ r.unlocked >= t.unlocked
      /\ r.locked + r.unlocked = t.locked + t.unlocked
  BY ReleaseMoves
<1> HIDE DEF r
<1>2. /\ r.locked \in Nat /\ r.unlocked \in Nat /\ r.fed \in Nat
      /\ r.left \in 0..Window /\ r.since \in Nat /\ r.since <= r.left
      /\ r = [locked |-> r.locked, unlocked |-> r.unlocked, left |-> r.left,
              since |-> r.since, fed |-> r.fed]
  BY <1>1, StreamParts
<1>3. Sync(t, balance) = Track(r, balance) /\ Window \in 0..Window
  BY FeedAssumption DEF Sync, r
<1>4. CASE balance > r.locked + r.unlocked
  <2> DEFINE more == r.locked + (balance - (r.locked + r.unlocked))
  <2>1. Track(r, balance) = [r EXCEPT !.locked = more, !.left = Window]
    BY <1>2, <1>4 DEF Track
  <2>2. Track(r, balance) = [locked |-> more, unlocked |-> r.unlocked, left |-> Window,
                             since |-> r.since, fed |-> r.fed]
    BY <1>2, <2>1
  <2>3. more \in Nat /\ more + r.unlocked = balance /\ r.since <= Window
    BY <1>2, <1>4, ConstantFacts
  <2> HIDE DEF more
  <2>4. StreamOK(Track(r, balance))
    BY <1>2, <1>3, <2>2, <2>3, StreamRecord
  <2> QED
    BY <1>1, <1>3, <2>2, <2>3, <2>4
<1>5. CASE balance = r.locked + r.unlocked
  <2>1. Track(r, balance) = r
    BY <1>2, <1>5 DEF Track
  <2> QED
    BY <1>1, <1>3, <1>5, <2>1
<1> QED
  BY <1>1, <1>2, <1>4, <1>5

(* A distribution gives SSR no more than there is.                             *)
LEMMA SsrPart ==
  ASSUME NEW s \in Nat, NEW r \in 0..(Bps - 1)
  PROVE  /\ (s * SsrShare + r) \div Bps \in 0..s
         /\ (s * SsrShare + r) % Bps \in 0..(Bps - 1)
<1> USE FeedAssumption
<1> DEFINE n == s * SsrShare + r
<1>1. SsrShare \in Nat /\ Bps \in Nat \ {0} /\ SsrShare <= Bps
  OBVIOUS
<1>2. s * SsrShare \in Nat /\ s * Bps \in Nat
  BY <1>1, ProductIsNat
<1>3. s * SsrShare <= s * Bps
  <2>1. SsrShare * s <= Bps * s
    BY <1>1, ProductMonotone
  <2> QED
    BY <1>1, <2>1, ProductCommutes
<1>4. n \in Nat /\ n < s * Bps + Bps
  BY <1>1, <1>2, <1>3
<1> HIDE DEF n
<1>5. n \div Bps \in Nat /\ (n \div Bps) * Bps <= n
  BY <1>1, <1>4, DivisionFacts
<1>6. n \div Bps <= s
  <2> SUFFICES ASSUME s + 1 <= n \div Bps PROVE FALSE
    BY <1>5
  <2>1. (s + 1) * Bps <= (n \div Bps) * Bps
    BY <1>1, <1>5, ProductMonotone
  <2>2. (s + 1) * Bps = s * Bps + Bps
    BY <1>1, ProductDistributes
  <2>3. (n \div Bps) * Bps \in Nat
    BY <1>1, <1>5, ProductIsNat
  <2> QED
    BY <1>1, <1>2, <1>4, <1>5, <2>1, <2>2, <2>3
<1>7. n % Bps \in 0..(Bps - 1)
  BY <1>1, <1>4
<1> QED
  BY <1>5, <1>6, <1>7 DEF n

(* The share is kept when more is released and the pool gets no more.          *)
LEMMA ShareKept ==
  ASSUME NEW p \in Nat, NEW q \in Nat, NEW total \in Nat, NEW more \in Nat,
         NEW share \in Nat, p <= q, total <= more, q * Bps <= total * share
  PROVE  p * Bps <= more * share
<1>1. Bps \in Nat
  BY ConstantFacts
<1>2. p * Bps <= q * Bps /\ total * share <= more * share
  BY <1>1, ProductMonotone
<1>3. /\ p * Bps \in Nat /\ q * Bps \in Nat
      /\ total * share \in Nat /\ more * share \in Nat
  BY <1>1, ProductIsNat
<1> QED
  BY <1>2, <1>3

-----------------------------------------------------------------------------
(* What one step may do to the chain and SafeInv survives: the stream is       *)
(* brought up to date or left alone, and an instruction may move it on.        *)

LEMMA InvParts == ASSUME SafeInv
  PROVE  /\ StreamOK(terms) /\ terms.locked \in Nat /\ terms.unlocked \in Nat
         /\ terms.fed \in Nat /\ feed \in Nat /\ backing \in Nat /\ received \in Nat
         /\ split \in [share : PoolShares, fed : Nat]
         /\ split.fed \in Nat /\ split.share \in PoolShares /\ split.share \in Nat
         /\ staging \in Nat /\ remainder \in 0..(Bps - 1)
         /\ terms.locked + terms.unlocked <= feed
         /\ split.fed * Bps <= (terms.fed + terms.unlocked) * split.share
         /\ received = feed + terms.fed /\ terms.fed = backing + split.fed
<1>1. /\ StreamOK(terms) /\ feed \in Nat /\ backing \in Nat /\ received \in Nat
      /\ split \in [share : PoolShares, fed : Nat]
      /\ staging \in Nat /\ remainder \in 0..(Bps - 1)
  BY DEF SafeInv, ChainOK
<1>2. terms.locked \in Nat /\ terms.unlocked \in Nat /\ terms.fed \in Nat
  BY <1>1, StreamParts
<1>3. split.fed \in Nat /\ split.share \in PoolShares
  BY <1>1
<1>4. split.share \in Nat
  BY <1>3, ConstantFacts
<1> QED
  BY <1>1, <1>2, <1>3, <1>4
  DEF SafeInv, TrackedIsThere, PoolWithinShare, EveryUnitAccounted

(* USDC comes to the feed and the stream is synced.                            *)
LEMMA ArrivalKeeps ==
  ASSUME SafeInv, NEW n \in Nat, Receive(n), terms' = Sync(terms, feed + n),
         UNCHANGED <<status, rateKept, split, backing>>,
         staging' \in Nat, remainder' \in 0..(Bps - 1)
  PROVE  SafeInv' /\ terms'.unlocked + terms'.fed >= terms.unlocked + terms.fed
<1>1. feed' = feed + n /\ received' = received + n
  BY DEF Receive
<1>2. /\ StreamOK(terms') /\ terms'.fed = terms.fed
      /\ terms'.unlocked >= terms.unlocked
      /\ terms'.locked + terms'.unlocked = feed + n
  BY InvParts, SyncTracks
<1>3. terms'.unlocked \in Nat /\ terms'.fed \in Nat
  BY <1>2, StreamParts
<1>4. ChainOK'
  BY <1>1, <1>2, InvParts DEF ChainOK, SafeInv
<1>5. TrackedIsThere' /\ EveryUnitAccounted'
  BY <1>1, <1>2, InvParts DEF TrackedIsThere, EveryUnitAccounted
<1>6. PoolWithinShare'
  <2>1. /\ terms.fed + terms.unlocked <= terms'.fed + terms'.unlocked
        /\ terms.fed + terms.unlocked \in Nat /\ terms'.fed + terms'.unlocked \in Nat
        /\ split.fed <= split.fed
    BY <1>2, <1>3, InvParts
  <2>2. split.fed * Bps <= (terms'.fed + terms'.unlocked) * split.share
    BY <2>1, InvParts, ShareKept, Zenon
  <2> QED
    BY <2>2 DEF PoolWithinShare
<1> QED
  BY <1>2, <1>3, <1>4, <1>5, <1>6, InvParts DEF SafeInv

LEMMA DistributeKeeps == ASSUME SafeInv, DistributeV2
  PROVE  SafeInv' /\ terms'.unlocked + terms'.fed >= terms.unlocked + terms.fed
<1> DEFINE ssr == (staging * SsrShare + remainder) \div Bps
           holders == HolderPart(staging - ssr)
<1>1. ssr \in 0..staging /\ (staging * SsrShare + remainder) % Bps \in 0..(Bps - 1)
  BY InvParts, SsrPart
<1>2. Receive(holders) /\ terms' = Sync(terms, feed + holders)
      /\ UNCHANGED <<status, rateKept, split, backing>>
      /\ staging' = 0 /\ remainder' = (staging * SsrShare + remainder) % Bps
  BY Zenon DEF DistributeV2
<1> HIDE DEF ssr
<1>3. holders \in Nat
  <2>1. staging - ssr \in Nat /\ HolderShare \in Nat /\ Bps \in Nat \ {0}
    BY <1>1, InvParts, FeedAssumption
  <2> QED
    BY <2>1, FloorFacts DEF HolderPart
<1> QED
  BY <1>1, <1>2, <1>3, ArrivalKeeps

(* begin, route and end.                                                       *)
LEMMA BasketFeedKeeps == ASSUME SafeInv, NEW n, CanFeed(n), BasketFeed(n)
  PROVE  SafeInv' /\ terms'.unlocked + terms'.fed >= terms.unlocked + terms.fed
<1> DEFINE s == Sync(terms, feed)
<1>1. /\ StreamOK(s) /\ s.fed = terms.fed /\ s.unlocked >= terms.unlocked
      /\ s.locked + s.unlocked = feed
  BY InvParts, SyncTracks
<1>2. /\ n \in Nat \ {0} /\ n <= s.unlocked
      /\ terms' = Spend(s, n) /\ feed' = feed - n /\ backing' = backing + n
      /\ UNCHANGED <<status, rateKept, staging, remainder, split, history>>
  BY Zenon DEF CanFeed, BasketFeed
<1> HIDE DEF s
<1>3. /\ s.unlocked \in Nat /\ s.locked \in Nat /\ s.fed \in Nat
      /\ s.left \in 0..Window /\ s.since \in Nat /\ s.since <= s.left
      /\ s = [locked |-> s.locked, unlocked |-> s.unlocked, left |-> s.left,
              since |-> s.since, fed |-> s.fed]
  BY <1>1, StreamParts
<1>4. /\ terms'.unlocked = s.unlocked - n /\ terms'.fed = s.fed + n
      /\ terms'.locked = s.locked /\ StreamOK(terms')
  <2>1. terms' = [locked |-> s.locked, unlocked |-> s.unlocked - n, left |-> s.left,
                  since |-> s.since, fed |-> s.fed + n]
    <3>1. s \in Stream /\ n \in Nat
      BY <1>1, <1>2 DEF StreamOK
    <3> QED
      BY <1>2, <3>1, SpendRecord
  <2>2. s.unlocked - n \in Nat /\ s.fed + n \in Nat
    BY <1>2, <1>3
  <2>3. StreamOK(terms')
    BY <1>3, <2>1, <2>2, StreamRecord
  <2> QED
    BY <2>1, <2>3
<1>5. ChainOK'
  BY <1>1, <1>2, <1>3, <1>4, InvParts DEF ChainOK, SafeInv, history
<1>6. TrackedIsThere' /\ EveryUnitAccounted'
  BY <1>1, <1>2, <1>3, <1>4, InvParts DEF TrackedIsThere, EveryUnitAccounted, history
<1>7. PoolWithinShare'
  <2>1. /\ terms'.fed + terms'.unlocked = s.fed + s.unlocked
        /\ terms.fed + terms.unlocked <= s.fed + s.unlocked
        /\ terms.fed + terms.unlocked \in Nat /\ s.fed + s.unlocked \in Nat
        /\ split.fed <= split.fed
    BY <1>1, <1>2, <1>3, <1>4, InvParts
  <2>2. split.fed * Bps <= (s.fed + s.unlocked) * split.share
    BY <2>1, InvParts, ShareKept, Zenon
  <2> QED
    BY <1>2, <2>1, <2>2 DEF PoolWithinShare
<1> QED
  BY <1>1, <1>2, <1>3, <1>4, <1>5, <1>6, <1>7, InvParts DEF SafeInv

(* begin, swap, deposit and end, with what the deposit did not use returned.   *)
LEMMA PoolFeedKeeps ==
  ASSUME SafeInv, NEW n, CanPoolFeed(n), NEW unspent \in 0..(n - 1), PoolFeed(n, unspent)
  PROVE  SafeInv' /\ terms'.unlocked + terms'.fed >= terms.unlocked + terms.fed
<1> DEFINE s == Sync(terms, feed)
<1>1. /\ StreamOK(s) /\ s.fed = terms.fed /\ s.unlocked >= terms.unlocked
      /\ s.locked + s.unlocked = feed
  BY InvParts, SyncTracks
<1>2. /\ n \in Nat \ {0} /\ n <= s.unlocked /\ PoolFeedAllowed(s, n)
      /\ terms' = GiveBack(Spend(s, n), unspent) /\ feed' = feed - n + unspent
      /\ split' = [split EXCEPT !.fed = PoolTakes(@, n, unspent)]
      /\ UNCHANGED <<status, rateKept, staging, remainder, backing, history>>
  BY Zenon DEF CanPoolFeed, PoolFeed
<1> HIDE DEF s
<1>3. /\ s.unlocked \in Nat /\ s.locked \in Nat /\ s.fed \in Nat
      /\ s.left \in 0..Window /\ s.since \in Nat /\ s.since <= s.left
      /\ s = [locked |-> s.locked, unlocked |-> s.unlocked, left |-> s.left,
              since |-> s.since, fed |-> s.fed]
      /\ unspent \in Nat /\ unspent <= n
  BY <1>1, <1>2, StreamParts
<1>4. /\ terms'.unlocked = (s.unlocked - n) + unspent
      /\ terms'.fed = (s.fed + n) - unspent
      /\ terms'.locked = s.locked /\ StreamOK(terms')
  <2>1. s \in Stream /\ n \in Nat
    BY <1>1, <1>2 DEF StreamOK
  <2>2. terms' = [locked |-> s.locked, unlocked |-> (s.unlocked - n) + unspent,
                  left |-> s.left, since |-> s.since, fed |-> (s.fed + n) - unspent]
    BY <1>2, <1>3, <2>1, GiveBackRecord
  <2>3. (s.unlocked - n) + unspent \in Nat /\ (s.fed + n) - unspent \in Nat
    BY <1>2, <1>3
  <2>4. StreamOK(terms')
    BY <1>3, <2>2, <2>3, StreamRecord
  <2> QED
    BY <2>2, <2>4
<1>5. /\ split'.fed = split.fed + n - unspent /\ split'.share = split.share
      /\ split' \in [share : PoolShares, fed : Nat] /\ split'.fed \in Nat
  BY <1>2, <1>3, InvParts DEF PoolTakes
<1>6. ChainOK'
  BY <1>1, <1>2, <1>3, <1>4, <1>5, InvParts DEF ChainOK, SafeInv, history
<1>7. TrackedIsThere' /\ EveryUnitAccounted'
  BY <1>1, <1>2, <1>3, <1>4, <1>5, InvParts DEF TrackedIsThere, EveryUnitAccounted, history
<1>8. PoolWithinShare'
  <2>1. /\ terms'.fed + terms'.unlocked = s.fed + s.unlocked
        /\ split'.fed <= split.fed + n /\ split.fed + n \in Nat
        /\ s.fed + s.unlocked \in Nat /\ s.fed + s.unlocked <= s.fed + s.unlocked
    BY <1>2, <1>3, <1>4, <1>5, InvParts
  <2>2. (split.fed + n) * Bps <= (s.fed + s.unlocked) * split.share
    BY <1>2 DEF PoolFeedAllowed
  <2>3. split'.fed * Bps <= (s.fed + s.unlocked) * split.share
    BY <1>5, <2>1, <2>2, InvParts, ShareKept, Zenon
  <2> QED
    BY <1>5, <2>1, <2>3 DEF PoolWithinShare
<1> QED
  BY <1>1, <1>2, <1>3, <1>4, <1>6, <1>7, <1>8, InvParts DEF SafeInv

(* A step that leaves the stream's accounts alone.                             *)
LEMMA OthersKeep ==
  ASSUME SafeInv, UNCHANGED <<stream, received>>,
         status' \in {"active", "paused", "winddown", "closed"}, rateKept' \in BOOLEAN,
         staging' \in Nat, remainder' \in 0..(Bps - 1)
  PROVE  SafeInv' /\ terms'.unlocked + terms'.fed >= terms.unlocked + terms.fed
<1>1. terms' = terms /\ split' = split /\ feed' = feed /\ backing' = backing
      /\ received' = received
  BY DEF stream
<1>2. terms'.unlocked + terms'.fed >= terms.unlocked + terms.fed
  BY <1>1, InvParts
<1> QED
  BY <1>1, <1>2 DEF SafeInv, ChainOK, TrackedIsThere, PoolWithinShare, EveryUnitAccounted

LEMMA TickKeeps == ASSUME SafeInv, Tick
  PROVE  SafeInv' /\ terms'.unlocked + terms'.fed >= terms.unlocked + terms.fed
<1>1. /\ terms' = [terms EXCEPT !.since = Lesser(@ + 1, terms.left)]
      /\ UNCHANGED <<status, rateKept, staging, remainder, split, feed, backing, received>>
  BY DEF Tick, Age
<1>2. /\ terms'.locked = terms.locked /\ terms'.unlocked = terms.unlocked
      /\ terms'.fed = terms.fed /\ StreamOK(terms')
  BY <1>1, InvParts, FeedAssumption DEF StreamOK, Stream, Lesser
<1>3. terms'.unlocked + terms'.fed >= terms.unlocked + terms.fed
  BY <1>2, InvParts
<1> QED
  BY <1>1, <1>2, <1>3 DEF SafeInv, ChainOK, TrackedIsThere, PoolWithinShare, EveryUnitAccounted

-----------------------------------------------------------------------------
LEMMA InitEstablishes == Init => SafeInv
<1> SUFFICES ASSUME Init PROVE SafeInv
  OBVIOUS
<1>1. split.share \in Nat /\ split.fed = 0 /\ split \in [share : PoolShares, fed : Nat]
  <2>1. split \in [share : PoolShares, fed : {0}] /\ PoolShares \subseteq Nat
    BY ConstantFacts DEF Init
  <2>2. split.share \in PoolShares /\ split.fed = 0
    BY <2>1
  <2>3. split \in [share : PoolShares, fed : Nat]
    BY <2>1
  <2> QED
    BY <2>1, <2>2, <2>3
<1>2. 0 * Bps = 0 /\ (0 + 0) * split.share = 0
  BY <1>1, FeedAssumption
<1>3. StreamOK(terms) /\ terms.locked = 0 /\ terms.unlocked = 0 /\ terms.fed = 0
  BY FeedAssumption DEF Init, NewTerms, StreamOK, Stream
<1> QED
  BY <1>1, <1>2, <1>3, FeedAssumption
  DEF Init, SafeInv, ChainOK, TrackedIsThere, PoolWithinShare, EveryUnitAccounted

(* One step of the keeper, of anyone else or of time.                          *)
LEMMA NextKeeps == ASSUME SafeInv, [Next]_vars
  PROVE  SafeInv' /\ terms'.unlocked + terms'.fed >= terms.unlocked + terms.fed
<1> DEFINE Goal == SafeInv' /\ terms'.unlocked + terms'.fed >= terms.unlocked + terms.fed
<1>0. /\ status \in {"active", "paused", "winddown", "closed"} /\ rateKept \in BOOLEAN
      /\ staging \in Nat /\ remainder \in 0..(Bps - 1)
  BY DEF SafeInv, ChainOK
<1>1. ASSUME UNCHANGED chain PROVE Goal
  <2>1. UNCHANGED <<stream, received, status, rateKept, staging, remainder>>
    BY <1>1 DEF chain, history
  <2> QED
    BY <1>0, <2>1, OthersKeep
<1>2. CASE UNCHANGED vars
  BY <1>1, <1>2 DEF vars
<1>3. CASE StartRun \/ ReadAccounts \/ ReadClock \/ SkipPool \/ EndRun \/ StopRun
  BY <1>1, <1>3 DEF StartRun, ReadAccounts, ReadClock, SkipPool, EndRun, StopRun
<1>4. ASSUME NEW a \in Assets, SkipLeg(a) PROVE Goal
  BY <1>1, <1>4 DEF SkipLeg
<1>5. CASE CollectStep
  <2>1. UNCHANGED chain \/ DistributeV2
    BY <1>5 DEF CollectStep, Send
  <2> QED
    BY <1>1, <2>1, DistributeKeeps
<1>6. ASSUME NEW n \in Amounts, NEW unspent \in 0..(n - 1), SendPool(n, unspent) PROVE Goal
  <2>1. UNCHANGED chain \/ (CanPoolFeed(n) /\ PoolFeed(n, unspent))
    BY <1>6 DEF SendPool, Send
  <2> QED
    BY <1>1, <2>1, PoolFeedKeeps
<1>7. ASSUME NEW a \in Assets, SendLeg(a) PROVE Goal
  <2>1. UNCHANGED chain \/ (CanFeed(visit.legs[a]) /\ BasketFeed(visit.legs[a]))
    BY <1>7 DEF SendLeg, Send
  <2> QED
    BY <1>1, <2>1, BasketFeedKeeps
<1>8. CASE Tick
  BY <1>8, TickKeeps
<1>9. CASE DistributeByAnyone
  BY <1>9, DistributeKeeps DEF DistributeByAnyone
<1>10. CASE RaydiumChangesRate
  BY <1>0, <1>10, OthersKeep DEF RaydiumChangesRate, history
<1>11. ASSUME NEW n \in Amounts, Trade(n) PROVE Goal
  <2>1. staging' \in Nat
    BY <1>0, <1>11 DEF Trade, Amounts
  <2> QED
    BY <1>0, <1>11, <2>1, OthersKeep DEF Trade, history
<1>12. ASSUME NEW n \in Amounts, TaxedSwap(n) PROVE Goal
  <2> DEFINE holders == HolderPart(MulDivFloor(n, Bps - SsrShare, Bps))
  <2>1. n \in Nat /\ Bps - SsrShare \in Nat /\ Bps \in Nat \ {0} /\ HolderShare \in Nat
    BY FeedAssumption DEF Amounts
  <2>2. holders \in Nat
    BY <2>1, FloorFacts DEF HolderPart
  <2>3. Receive(holders) /\ terms' = Sync(terms, feed + holders)
        /\ UNCHANGED <<status, rateKept, staging, remainder, split, backing>>
    BY <1>12, Zenon DEF TaxedSwap
  <2> HIDE DEF holders
  <2> QED
    BY <1>0, <2>2, <2>3, ArrivalKeeps
<1>13. ASSUME NEW n \in Amounts, PlainTransfer(n) PROVE Goal
  <2>1. /\ n \in Nat /\ feed' = feed + n /\ received' = received + n
        /\ UNCHANGED <<status, rateKept, staging, remainder, terms, split, backing>>
    BY <1>13 DEF PlainTransfer, Receive, Amounts
  <2> QED
    BY <2>1, InvParts DEF SafeInv, ChainOK, TrackedIsThere, PoolWithinShare, EveryUnitAccounted
<1>14. ASSUME NEW n \in Amounts, FeedBySigner(n) PROVE Goal
  BY <1>14, BasketFeedKeeps DEF FeedBySigner
<1>15. ASSUME NEW n \in Amounts, NEW unspent \in 0..(n - 1), PoolFeedBySigner(n, unspent)
       PROVE  Goal
  BY <1>15, PoolFeedKeeps DEF PoolFeedBySigner
<1>16. ASSUME NEW to \in {"active", "paused", "winddown", "closed"}, NEW from,
              SetStatus(from, to)
       PROVE  Goal
  BY <1>0, <1>16, OthersKeep DEF SetStatus, history
<1>17. CASE Keeper
  BY <1>3, <1>5, <1>6, <1>7, <1>17, Zenon DEF Keeper
<1>18. CASE Everyone
  BY <1>9, <1>10, <1>11, <1>12, <1>13, <1>14, <1>15, <1>16, <1>18 DEF Everyone
<1> QED
  BY <1>2, <1>3, <1>4, <1>8, <1>17, <1>18, Zenon DEF Next

LEMMA Invariance == Spec => []SafeInv
<1>1. SafeInv /\ [Next]_vars => SafeInv'
  BY NextKeeps
<1> QED
  BY <1>1, InitEstablishes, PTL DEF Spec

-----------------------------------------------------------------------------
(* The feed account always holds what the stream tracks.                       *)
THEOREM TrackedIsAlwaysThere == Spec => []TrackedIsThere
BY Invariance, PTL DEF SafeInv

(* The pool never overtakes its share of what was released.                    *)
THEOREM PoolNeverOvertakes == Spec => []PoolWithinShare
BY Invariance, PTL DEF SafeInv

(* Every unit that came is in the feed, in the vaults or in the pool.          *)
THEOREM NoUnitIsLost == Spec => []EveryUnitAccounted
BY Invariance, PTL DEF SafeInv

(* Nothing released is ever taken back.                                        *)
THEOREM ReleaseIsFinal == Spec => ReleasedNeverTakenBack
<1>1. SafeInv /\ [Next]_vars
        => [terms'.unlocked + terms'.fed >= terms.unlocked + terms.fed]_vars
  BY NextKeeps
<1> QED
  BY <1>1, Invariance, PTL DEF Spec, ReleasedNeverTakenBack

-----------------------------------------------------------------------------
(* The keeper's run: what it has read and decided stays within its types.      *)
Visits == [terms : Stream, feed : Nat, released : Nat, legs : [Assets -> Nat]]

RunOK ==
  /\ at \in {"idle", "collect", "read", "clock", "pool", "legs"}
  /\ faults \in 0..MaxFaults
  /\ visit \in Visits /\ StreamOK(visit.terms)

(* The mirror of sync gives amounts for any balance, also one that was read    *)
(* from another account state than the stream.                                 *)
LEMMA SyncTypes == ASSUME NEW t, StreamOK(t), NEW balance \in Nat
  PROVE  StreamOK(Sync(t, balance))
<1> DEFINE r == Release(t)
<1>1. StreamOK(r)
  BY ReleaseMoves
<1> HIDE DEF r
<1>2. /\ r.locked \in Nat /\ r.unlocked \in Nat /\ r.fed \in Nat
      /\ r.left \in 0..Window /\ r.since \in Nat /\ r.since <= r.left
      /\ r = [locked |-> r.locked, unlocked |-> r.unlocked, left |-> r.left,
              since |-> r.since, fed |-> r.fed]
  BY <1>1, StreamParts
<1>3. Sync(t, balance) = Track(r, balance)
  BY DEF Sync, r
<1>4. CASE balance >= r.locked + r.unlocked
  <2>1. r.locked + r.unlocked <= balance
    BY <1>2, <1>4
  <2>2. CASE balance = r.locked + r.unlocked
    <3>1. Track(r, balance) = r
      BY <1>2, <2>2 DEF Track
    <3> QED
      BY <1>1, <1>3, <3>1
  <2>3. CASE balance > r.locked + r.unlocked
    <3> DEFINE more == r.locked + (balance - (r.locked + r.unlocked))
    <3>1. Track(r, balance) = [r EXCEPT !.locked = more, !.left = Window]
      BY <1>2, <2>3 DEF Track
    <3>2. Track(r, balance) = [locked |-> more, unlocked |-> r.unlocked,
                               left |-> Window, since |-> r.since, fed |-> r.fed]
      BY <1>2, <3>1
    <3>3. more \in Nat /\ r.since <= Window /\ Window \in 0..Window
      BY <1>2, <2>3, ConstantFacts
    <3> HIDE DEF more
    <3> QED
      BY <1>2, <1>3, <3>2, <3>3, StreamRecord
  <2> QED
    BY <1>2, <1>4, <2>2, <2>3
<1>5. CASE balance < r.locked + r.unlocked
  <2> DEFINE u == Lesser(r.unlocked, balance)
             l == Lesser(r.locked, balance - u)
  <2>1. u \in Nat /\ u <= balance
    BY <1>2 DEF Lesser
  <2>2. l \in Nat
    <3> HIDE DEF u
    <3> QED BY <1>2, <2>1 DEF Lesser
  <2>3. Track(r, balance) = [r EXCEPT !.unlocked = u, !.locked = l]
    BY <1>2, <1>5 DEF Track
  <2> HIDE DEF u, l
  <2>4. Track(r, balance) = [locked |-> l, unlocked |-> u, left |-> r.left,
                             since |-> r.since, fed |-> r.fed]
    BY <1>2, <2>3
  <2> QED
    BY <1>2, <1>3, <2>1, <2>2, <2>4, StreamRecord
<1> QED
  BY <1>2, <1>4, <1>5

(* planBasketFeedLegs: the floored parts add up to no more than the amount, so *)
(* what rounding leaves to the heaviest asset is never negative.               *)
LEMMA PartsFit ==
  ASSUME NEW amount \in Nat, NEW part,
         \A a \in Assets : part[a] = MulDivFloor(amount, Weight[a], SumFunction(Weight))
  PROVE  /\ \A a \in Assets : part[a] \in Nat
         /\ SumFunctionOnSet(part, Assets) \in 0..amount
<1> DEFINE total == SumFunction(Weight)
           share == [a \in Assets |-> amount * Weight[a]]
           back  == [a \in Assets |-> total * part[a]]
<1>1. IsFiniteSet(Assets) /\ \A a \in Assets : Weight[a] \in Nat \ {0}
  BY FeedAssumption
<1>2. total = SumFunctionOnSet(Weight, Assets)
  BY SumOverDomain DEF Assets
<1>3. total \in Nat /\ \A a \in Assets : Weight[a] <= total
  BY <1>1, <1>2, SumIsNat
<1>4. CASE Assets = {}
  BY <1>4, SumOfNothing
<1>5. CASE Assets # {}
  <2>1. total \in Nat \ {0}
    <3> HIDE DEF total
    <3> QED BY <1>1, <1>3, <1>5
  <2> HIDE DEF total
  <2>2. \A a \in Assets : part[a] \in Nat /\ part[a] * total <= amount * Weight[a]
    <3> SUFFICES ASSUME NEW a \in Assets
                 PROVE  part[a] \in Nat /\ part[a] * total <= amount * Weight[a]
      OBVIOUS
    <3>1. part[a] = MulDivFloor(amount, Weight[a], total)
      BY DEF total
    <3> QED
      BY <1>1, <2>1, <3>1, FloorFacts
  <2>3. \A a \in Assets : /\ share[a] \in Int /\ back[a] \in Int
                          /\ back[a] <= share[a]
    <3> SUFFICES ASSUME NEW a \in Assets
                 PROVE  /\ share[a] \in Int /\ back[a] \in Int /\ back[a] <= share[a]
      OBVIOUS
    <3>1. /\ amount * Weight[a] \in Nat /\ total * part[a] \in Nat
          /\ total * part[a] = part[a] * total
      BY <1>1, <2>1, <2>2, ProductIsNat, ProductCommutes
    <3> QED
      BY <2>2, <3>1
  <2>4. /\ \A a \in Assets : share[a] = amount * Weight[a]
        /\ \A a \in Assets : back[a] = total * part[a]
    OBVIOUS
  <2> HIDE DEF share, back
  <2>5. SumFunctionOnSet(back, Assets) <= SumFunctionOnSet(share, Assets)
    BY <1>1, <2>3, SumMonotone
  <2>6. SumFunctionOnSet(share, Assets) = amount * total
    BY <1>1, <1>2, <2>4, SumOfMultiples
  <2>7. SumFunctionOnSet(back, Assets) = total * SumFunctionOnSet(part, Assets)
    <3>1. \A a \in Assets : part[a] \in Int
      BY <2>2
    <3> QED
      BY <1>1, <2>1, <2>4, <3>1, SumOfMultiples
  <2>8. SumFunctionOnSet(part, Assets) \in Nat
    BY <1>1, <2>2, SumIsNat
  <2>9. SumFunctionOnSet(part, Assets) <= amount
    <3> DEFINE sum == SumFunctionOnSet(part, Assets)
    <3>1. sum * total <= amount * total
      BY <2>1, <2>5, <2>6, <2>7, <2>8, ProductCommutes
    <3> QED
      BY <2>1, <2>8, <3>1, ProductCancels
  <2> QED
    BY <2>2, <2>8, <2>9
<1> QED
  BY <1>4, <1>5

LEMMA RestIsAdded == ASSUME NEW part \in [Assets -> Nat], NEW h, NEW rest \in Nat
  PROVE  [part EXCEPT ![h] = @ + rest] \in [Assets -> Nat]
<1>1. CASE h \in Assets
  <2>1. part[h] + rest \in Nat
    BY <1>1
  <2> QED
    BY <2>1
<1>2. CASE h \notin Assets
  BY <1>2
<1> QED
  BY <1>1, <1>2

LEMMA PlanLegsTypes == ASSUME NEW amount \in Nat
  PROVE  PlanLegs(amount) \in [Assets -> Nat]
<1> DEFINE part == [a \in Assets |-> MulDivFloor(amount, Weight[a], SumFunction(Weight))]
           rest == amount - SumFunction(part)
           leg  == [part EXCEPT ![Heaviest] = @ + rest]
<1>1. /\ \A a \in Assets : part[a] \in Nat
      /\ SumFunctionOnSet(part, Assets) \in 0..amount
  BY PartsFit
<1>2. rest \in Nat
  <2>1. SumFunction(part) = SumFunctionOnSet(part, Assets)
    BY SumOverDomain
  <2> HIDE DEF part
  <2> QED BY <1>1, <2>1
<1>3. part \in [Assets -> Nat]
  BY <1>1
<1> HIDE DEF part, rest
<1>4. leg \in [Assets -> Nat]
  BY <1>2, <1>3, RestIsAdded
<1>5. PlanLegs(amount) = [a \in Assets |-> IF leg[a] >= LegMin THEN leg[a] ELSE 0]
  BY DEF PlanLegs, part, rest
<1> HIDE DEF leg
<1> QED
  BY <1>4, <1>5

LEMMA NoVisitTypes == NoVisit \in Visits /\ StreamOK(NoVisit.terms)
BY ConstantFacts DEF NoVisit, NewTerms, NoLegs, Visits, Stream, StreamOK

(* Where the run goes on, and with what.                                       *)
Goes(steps) == at' \in steps /\ visit' \in Visits /\ StreamOK(visit'.terms)

Steps == {"idle", "collect", "read", "clock", "pool", "legs"}

LEMMA FeedLegsTypes == ASSUME NEW amount \in Nat, FeedLegs(amount) PROVE Goes(Steps)
<1>1. CASE Go("idle", NoVisit)
  BY <1>1, NoVisitTypes DEF Go, Goes, Steps
<1>2. CASE Go("legs", [NoVisit EXCEPT !.legs = PlanLegs(amount)])
  <2>1. PlanLegs(amount) \in [Assets -> Nat]
    BY PlanLegsTypes
  <2>2. visit' \in Visits /\ visit'.terms = NoVisit.terms
    BY <1>2, <2>1, NoVisitTypes DEF Go, Visits
  <2> QED
    BY <1>2, <2>2, NoVisitTypes DEF Go, Goes, Steps
<1> QED
  BY <1>1, <1>2 DEF FeedLegs

(* What of the released amount is not held for the pool goes to the vaults.    *)
LEMMA RoomTypes == ASSUME SafeInv, NEW total \in Nat PROVE PoolFeedRoom(total) \in Nat
<1> DEFINE cap == MulDivFloor(total, split.share, Bps)
<1>1. cap \in Nat /\ split.fed \in Nat
  BY InvParts, ConstantFacts, FloorFacts
<1>2. PoolFeedRoom(total) = (IF cap > split.fed THEN cap - split.fed ELSE 0)
  BY DEF PoolFeedRoom
<1> HIDE DEF cap
<1> QED
  BY <1>1, <1>2

LEMMA HeldFits == ASSUME SafeInv, visit \in Visits
  PROVE  ToBacking \in Nat /\ ToBackingOffNav \in Nat
<1> DEFINE room == PoolFeedRoom(visit.terms.fed + visit.released)
<1>1. visit.released \in Nat /\ visit.terms \in Stream
  BY DEF Visits
<1>2. room \in Nat /\ LegMin \in Nat
  <2>1. visit.terms.fed \in Nat
    BY <1>1 DEF Stream
  <2> QED
    BY <1>1, <2>1, RoomTypes, FeedAssumption
<1>3. Held = (IF room >= LegMin THEN Lesser(room, visit.released) ELSE 0)
  BY DEF Held
<1> HIDE DEF room
<1>4. Held \in 0..visit.released
  BY <1>1, <1>2, <1>3 DEF Lesser
<1> QED
  BY <1>1, <1>4 DEF ToBacking, ToBackingOffNav

(* The steps of the run.                                                       *)
LEMMA ReadAccountsTypes == ASSUME SafeInv, RunOK, ReadAccounts PROVE Goes(Steps)
<1>1. at' = "clock" /\ visit' = [visit EXCEPT !.terms = terms, !.feed = feed]
  BY DEF ReadAccounts, Go
<1>2. visit \in Visits /\ terms \in Stream /\ feed \in Nat /\ StreamOK(terms)
  BY InvParts DEF RunOK, StreamOK
<1>3. visit' \in Visits /\ visit'.terms = terms
  BY <1>1, <1>2 DEF Visits
<1> QED
  BY <1>1, <1>2, <1>3 DEF Goes, Steps

LEMMA ReadClockTypes == ASSUME SafeInv, RunOK, ReadClock PROVE Goes(Steps)
<1> DEFINE released == ReleasedBasketFeed(visit.terms, visit.feed)
           found == [NoVisit EXCEPT !.released = released, !.terms.fed = visit.terms.fed]
<1>1. visit.feed \in Nat /\ StreamOK(visit.terms)
  BY DEF RunOK, Visits
<1>2. released \in Nat /\ visit.terms.fed \in Nat
  BY <1>1, SyncTypes, StreamParts DEF ReleasedBasketFeed
<1>3. Go("pool", found) \/ FeedLegs(released)
  BY DEF ReadClock
<1> HIDE DEF released
<1>4. CASE Go("pool", found)
  <2>1. found.terms = [NewTerms EXCEPT !.fed = visit.terms.fed]
        /\ found.feed = 0 /\ found.released = released /\ found.legs = NoLegs
        /\ found \in [terms : {found.terms}, feed : Nat, released : Nat, legs : {NoLegs}]
    BY <1>2 DEF NoVisit
  <2>2. StreamOK(found.terms) /\ found.terms \in Stream
    <3>1. found.terms = [locked |-> 0, unlocked |-> 0, left |-> 0, since |-> 0,
                         fed |-> visit.terms.fed]
      BY <2>1 DEF NewTerms
    <3>2. StreamOK(found.terms)
      BY <1>2, <3>1, StreamRecord, ConstantFacts
    <3> QED
      BY <3>2 DEF StreamOK
  <2>3. NoLegs \in [Assets -> Nat]
    BY DEF NoLegs
  <2>4. found \in Visits
    <3> HIDE DEF found
    <3> QED BY <2>1, <2>2, <2>3 DEF Visits
  <2> QED
    BY <1>4, <2>2, <2>4 DEF Go, Goes, Steps
<1> QED
  BY <1>2, <1>3, <1>4, FeedLegsTypes

LEMMA LegsGoTypes == ASSUME RunOK, NEW a \in Assets, Go("legs", LegDone(a))
  PROVE  Goes(Steps)
<1>1. at' = "legs" /\ visit' = [visit EXCEPT !.legs[a] = 0]
  BY DEF Go, LegDone
<1>2. visit \in Visits /\ StreamOK(visit.terms)
  BY DEF RunOK
<1>3. visit' \in Visits /\ visit'.terms = visit.terms
  BY <1>1, <1>2 DEF Visits
<1> QED
  BY <1>1, <1>2, <1>3 DEF Goes, Steps

LEMMA IdleTypes == ASSUME NEW s \in Steps, Go(s, NoVisit) PROVE Goes(Steps)
BY NoVisitTypes DEF Go, Goes, Steps

LEMMA AgeTypes == ASSUME NEW t, StreamOK(t) PROVE StreamOK(Age(t)) /\ Age(t) \in Stream
<1>1. /\ t.locked \in Nat /\ t.unlocked \in Nat /\ t.fed \in Nat
      /\ t.left \in 0..Window /\ t.since \in Nat /\ t.since <= t.left /\ t.left \in Nat
      /\ t = [locked |-> t.locked, unlocked |-> t.unlocked, left |-> t.left,
              since |-> t.since, fed |-> t.fed]
  BY StreamParts
<1> DEFINE s == Lesser(t.since + 1, t.left)
<1>2. s \in Nat /\ s <= t.left
  BY <1>1 DEF Lesser
<1>3. Age(t) = [t EXCEPT !.since = s]
  BY <1>1 DEF Age
<1> HIDE DEF s
<1>4. Age(t) = [locked |-> t.locked, unlocked |-> t.unlocked, left |-> t.left,
                since |-> s, fed |-> t.fed]
  BY <1>1, <1>3
<1>5. StreamOK(Age(t))
  BY <1>1, <1>2, <1>4, StreamRecord
<1> QED
  BY <1>5 DEF StreamOK

LEMMA TickTypes == ASSUME RunOK, Tick PROVE Goes(Steps)
<1>1. at' = at /\ visit' = [visit EXCEPT !.terms = Age(@)]
  BY DEF Tick
<1>2. visit \in Visits /\ StreamOK(visit.terms) /\ at \in Steps
  BY DEF RunOK, Steps
<1>3. StreamOK(Age(visit.terms)) /\ Age(visit.terms) \in Stream
  BY <1>2, AgeTypes
<1>4. visit' \in Visits /\ visit'.terms = Age(visit.terms)
  BY <1>1, <1>2, <1>3 DEF Visits
<1> QED
  BY <1>1, <1>2, <1>3, <1>4 DEF Goes

LEMMA RunKept == ASSUME RunOK, [Next]_vars, SafeInv PROVE RunOK'
<1>1. /\ at \in Steps /\ faults \in 0..MaxFaults /\ visit \in Visits
      /\ StreamOK(visit.terms) /\ MaxFaults \in Nat
  BY FeedAssumption DEF RunOK, Steps
<1>2. UNCHANGED faults \/ Fault => faults' \in 0..MaxFaults
  BY <1>1 DEF Fault
<1>3. ASSUME Goes(Steps), UNCHANGED faults \/ Fault PROVE RunOK'
  BY <1>2, <1>3 DEF Goes, Steps, RunOK
<1>4. ASSUME UNCHANGED run PROVE RunOK'
  BY <1>4 DEF run, RunOK
<1>6. CASE StartRun
  <2>1. Go("collect", NoVisit) \/ Go("read", NoVisit)
    BY <1>6 DEF StartRun
  <2> QED
    BY <1>3, <1>6, <2>1, IdleTypes DEF StartRun, Steps
<1>7. CASE CollectStep
  <2>1. /\ Go("read", NoVisit) \/ Go("idle", NoVisit)
        /\ UNCHANGED faults \/ Fault
    BY <1>7, Zenon DEF CollectStep, Send
  <2> QED
    BY <1>3, <2>1, IdleTypes DEF Steps
<1>8. CASE ReadAccounts
  BY <1>3, <1>8, ReadAccountsTypes DEF ReadAccounts
<1>9. CASE ReadClock
  BY <1>3, <1>9, ReadClockTypes DEF ReadClock
<1>10. CASE SkipPool
  BY <1>1, <1>3, <1>10, HeldFits, FeedLegsTypes DEF SkipPool
<1>11. CASE EndRun \/ StopRun
  BY <1>3, <1>11, IdleTypes DEF EndRun, StopRun, Steps
<1>12. ASSUME NEW n \in Amounts, NEW unspent \in 0..(n - 1), SendPool(n, unspent)
       PROVE  RunOK'
  <2>1. FeedLegs(ToBacking) /\ (UNCHANGED faults \/ Fault)
    BY <1>12, Zenon DEF SendPool, Send
  <2> QED
    BY <1>1, <1>3, <2>1, HeldFits, FeedLegsTypes
<1>13. ASSUME NEW a \in Assets, SendLeg(a) \/ SkipLeg(a) PROVE RunOK'
  <2>1. Go("legs", LegDone(a)) /\ (UNCHANGED faults \/ Fault)
    BY <1>13, Zenon DEF SendLeg, Send, SkipLeg
  <2> QED
    BY <1>3, <2>1, LegsGoTypes
<1>14. CASE Tick
  BY <1>3, <1>14, TickTypes DEF Tick
<1>15. CASE Everyone
  BY <1>4, <1>15 DEF Everyone, DistributeByAnyone, RaydiumChangesRate, Trade, TaxedSwap,
    PlainTransfer, FeedBySigner, PoolFeedBySigner, SetStatus, run
<1>16. CASE UNCHANGED vars
  BY <1>4, <1>16 DEF vars, run
<1>17. CASE Keeper
  BY <1>6, <1>7, <1>8, <1>9, <1>10, <1>11, <1>12, <1>13, <1>17, Zenon DEF Keeper
<1> QED
  BY <1>11, <1>13, <1>14, <1>15, <1>16, <1>17, Zenon DEF Next

-----------------------------------------------------------------------------
(* What came to the feed by now would all be released over the window since it *)
(* came: Aged is what, times the window, would be released after more time.    *)
Ages == 0..Window
AgedBy(arr, after) == [age \in Ages |-> Lesser(age + after, Window) * arr[age]]
Aged(arr, after) == SumFunctionOnSet(AgedBy(arr, after), Ages)
Arrivals == [Ages -> Nat]

Out(t) == t.unlocked + t.fed

(* Until the end of its stream, and after it, an account will never have       *)
(* released more than that, if nothing else happens.                           *)
OnSchedule(t, arr) ==
  /\ \A after \in Nat :
        after <= t.left - t.since
          => t.left * (Window * Out(t)) + (Window * (t.since + after)) * t.locked
               <= t.left * Aged(arr, after)
  /\ \A after \in Nat :
        after >= t.left - t.since => Window * (Out(t) + t.locked) <= Aged(arr, after)

LEMMA AgedTypes == ASSUME NEW arr \in Arrivals, NEW after \in Nat
  PROVE  /\ \A age \in Ages : /\ AgedBy(arr, after)[age] \in Nat
                              /\ AgedBy(arr, after)[age] = Lesser(age + after, Window) * arr[age]
         /\ Aged(arr, after) \in Nat /\ IsFiniteSet(Ages)
<1>1. Window \in Nat /\ IsFiniteSet(Ages)
  BY ConstantFacts, FS_Interval DEF Ages
<1>2. ASSUME NEW age \in Ages
      PROVE  /\ AgedBy(arr, after)[age] \in Nat
             /\ AgedBy(arr, after)[age] = Lesser(age + after, Window) * arr[age]
  <2>1. Lesser(age + after, Window) \in Nat /\ arr[age] \in Nat
    BY <1>1 DEF Lesser, Ages, Arrivals
  <2>2. Lesser(age + after, Window) * arr[age] \in Nat
    BY <2>1, ProductIsNat
  <2> QED
    BY <2>2 DEF AgedBy
<1>3. Aged(arr, after) \in Nat
  BY <1>1, <1>2, SumIsNat DEF Aged
<1> QED
  BY <1>1, <1>2, <1>3

(* More arrivals never break a schedule.                                       *)
LEMMA AgedGrows ==
  ASSUME NEW arr \in Arrivals, NEW more \in Arrivals, NEW after \in Nat,
         \A age \in Ages : arr[age] <= more[age]
  PROVE  Aged(arr, after) <= Aged(more, after)
<1>1. \A age \in Ages : AgedBy(arr, after)[age] <= AgedBy(more, after)[age]
  <2> SUFFICES ASSUME NEW age \in Ages
               PROVE  AgedBy(arr, after)[age] <= AgedBy(more, after)[age]
    OBVIOUS
  <2> DEFINE k == Lesser(age + after, Window)
  <2>1. k \in Nat /\ arr[age] \in Nat /\ more[age] \in Nat /\ arr[age] <= more[age]
    BY ConstantFacts DEF Lesser, Ages, Arrivals
  <2>2. AgedBy(arr, after)[age] = k * arr[age] /\ AgedBy(more, after)[age] = k * more[age]
    BY AgedTypes
  <2> HIDE DEF k
  <2>3. arr[age] * k <= more[age] * k
    BY <2>1, ProductMonotone
  <2> QED
    BY <2>1, <2>2, <2>3, ProductCommutes
<1>2. \A age \in Ages : AgedBy(arr, after)[age] \in Int /\ AgedBy(more, after)[age] \in Int
  BY AgedTypes
<1> QED
  BY <1>1, <1>2, AgedTypes, SumMonotone, Zenon DEF Aged

(* A tick makes everything that came one older.                                *)
LEMMA AgedByTick ==
  ASSUME NEW older, \A age \in Ages : older[age] =
            (IF age = 0 THEN 0
             ELSE IF age < Window THEN arrived[age - 1]
             ELSE arrived[age - 1] + arrived[age]),
         arrived \in Arrivals
  PROVE  /\ \A after \in Nat : Aged(older, after) = Aged(arrived, after + 1)
         /\ SumFunctionOnSet(older, Ages) = SumFunctionOnSet(arrived, Ages)
<1>1. Window \in Nat \ {0} /\ \A age \in Ages : arrived[age] \in Nat
  BY ConstantFacts DEF Arrivals
<1>2. /\ older[0] = 0 /\ older[Window] = arrived[Window - 1] + arrived[Window]
      /\ \A x \in 1..(Window - 1) : older[x] = arrived[x - 1]
  BY <1>1 DEF Ages
<1>3. SumFunctionOnSet(older, Ages) = SumFunctionOnSet(arrived, Ages)
  <2>1. \A x \in 0..Window : arrived[x] \in Int
    BY <1>1 DEF Ages
  <2> QED
    BY <1>1, <1>2, <2>1, ShiftedSum DEF Ages
<1>4. ASSUME NEW after \in Nat PROVE Aged(older, after) = Aged(arrived, after + 1)
  <2> DEFINE g == AgedBy(older, after)
             h == AgedBy(arrived, after + 1)
  <2>1. /\ \A x \in Ages : g[x] = Lesser(x + after, Window) * older[x]
        /\ \A x \in Ages : h[x] = Lesser(x + (after + 1), Window) * arrived[x]
    BY DEF AgedBy
  <2>2. \A x \in 0..Window : h[x] \in Int
    <3>1. PICK next \in Nat : next = after + 1
      OBVIOUS
    <3>2. \A x \in Ages : AgedBy(arrived, next)[x] \in Nat
      BY AgedTypes
    <3>3. \A x \in Ages : h[x] \in Nat
      BY <3>1, <3>2
    <3> QED
      BY <3>3 DEF Ages
  <2> HIDE DEF g, h
  <2>3. g[0] = 0
    <3>1. Lesser(0 + after, Window) \in Int /\ 0 \in Ages
      BY <1>1 DEF Lesser, Ages
    <3> QED
      BY <1>2, <2>1, <3>1
  <2>4. \A x \in 1..(Window - 1) : g[x] = h[x - 1]
    <3> SUFFICES ASSUME NEW x \in 1..(Window - 1) PROVE g[x] = h[x - 1]
      OBVIOUS
    <3>1. x \in Ages /\ x - 1 \in Ages /\ (x - 1) + (after + 1) = x + after
      BY <1>1 DEF Ages
    <3>2. h[x - 1] = Lesser((x - 1) + (after + 1), Window) * arrived[x - 1]
      BY <2>1, <3>1
    <3> QED
      BY <1>2, <2>1, <3>1, <3>2
  <2>5. g[Window] = h[Window - 1] + h[Window]
    <3>1. Window \in Ages /\ Window - 1 \in Ages
      BY <1>1 DEF Ages
    <3>2. /\ Lesser(Window + after, Window) = Window
          /\ Lesser(Window + (after + 1), Window) = Window
          /\ Lesser((Window - 1) + (after + 1), Window) = Window
      BY <1>1 DEF Lesser
    <3>3. h[Window - 1] = Lesser((Window - 1) + (after + 1), Window) * arrived[Window - 1]
      BY <2>1, <3>1
    <3>4. /\ g[Window] = Window * older[Window] /\ h[Window] = Window * arrived[Window]
          /\ h[Window - 1] = Window * arrived[Window - 1]
      BY <2>1, <3>1, <3>2, <3>3
    <3>5. arrived[Window - 1] \in Int /\ arrived[Window] \in Int
      BY <1>1, <3>1
    <3> DEFINE a == arrived[Window - 1]
               b == arrived[Window]
    <3>6. Window * (a + b) = Window * a + Window * b
      <4> HIDE DEF a, b
      <4> QED BY <1>1, <3>5 DEF a, b
    <3> QED
      BY <1>2, <3>4, <3>6
  <2>6. SumFunctionOnSet(g, 0..Window) = SumFunctionOnSet(h, 0..Window)
    BY <1>1, <2>2, <2>3, <2>4, <2>5, ShiftedSum
  <2> QED
    BY <2>6 DEF Aged, Ages, g, h
<1> QED
  BY <1>3, <1>4

LEMMA ScheduleParts == ASSUME NEW t, StreamOK(t)
  PROVE  /\ t.locked \in Nat /\ Out(t) \in Nat /\ t.left \in Nat /\ t.since \in Nat
         /\ t.since <= t.left /\ Window \in Nat \ {0}
BY StreamParts, ConstantFacts DEF Out

LEMMA ProductGrows == ASSUME NEW x \in Nat, NEW y \in Nat, NEW k \in Nat, x <= y
  PROVE  k * x <= k * y /\ k * x \in Nat /\ k * y \in Nat
BY ProductMonotone, ProductCommutes, ProductIsNat

LEMMA ArrivalsKeepSchedule ==
  ASSUME NEW t, StreamOK(t), NEW arr \in Arrivals, NEW more \in Arrivals,
         \A age \in Ages : arr[age] <= more[age], OnSchedule(t, arr)
  PROVE  OnSchedule(t, more)
<1>1. \A after \in Nat : /\ Aged(arr, after) <= Aged(more, after)
                         /\ Aged(arr, after) \in Nat /\ Aged(more, after) \in Nat
  BY AgedGrows, AgedTypes
<1>2. ASSUME NEW after \in Nat, after <= t.left - t.since
      PROVE  t.left * (Window * Out(t)) + (Window * (t.since + after)) * t.locked
               <= t.left * Aged(more, after)
  <2> DEFINE due == t.left * (Window * Out(t)) + (Window * (t.since + after)) * t.locked
             a == Aged(arr, after)
             b == Aged(more, after)
  <2>1. due <= t.left * a
    BY <1>2 DEF OnSchedule
  <2>2. due \in Nat
    <3>1. /\ t.left \in Nat /\ Window * Out(t) \in Nat
          /\ Window * (t.since + after) \in Nat /\ t.locked \in Nat
      BY ScheduleParts, ProductIsNat
    <3> QED
      BY <3>1, ProductIsNat
  <2>3. a \in Nat /\ b \in Nat /\ a <= b /\ t.left \in Nat
    BY <1>1, ScheduleParts
  <2> HIDE DEF due, a, b
  <2>4. due <= t.left * b
    BY <2>1, <2>2, <2>3, ProductGrows
  <2> QED
    BY <2>4 DEF due, b
<1>3. ASSUME NEW after \in Nat, after >= t.left - t.since
      PROVE  Window * (Out(t) + t.locked) <= Aged(more, after)
  <2>1. Window * (Out(t) + t.locked) <= Aged(arr, after)
    BY <1>3 DEF OnSchedule
  <2>2. Window * (Out(t) + t.locked) \in Nat
    BY ScheduleParts, ProductIsNat
  <2> QED
    BY <1>1, <2>1, <2>2
<1> QED
  BY <1>2, <1>3 DEF OnSchedule

(* Spending what was released, or giving it back, is not seen by the schedule. *)
LEMMA SpendingKeepsSchedule ==
  ASSUME NEW t, NEW x, NEW arr, OnSchedule(t, arr), x.locked = t.locked, Out(x) = Out(t),
         x.left = t.left, x.since = t.since
  PROVE  OnSchedule(x, arr)
BY Zenon DEF OnSchedule

LEMMA TickKeepsSchedule ==
  ASSUME NEW t, StreamOK(t), NEW older, arrived \in Arrivals, OnSchedule(t, arrived),
         \A after \in Nat : Aged(older, after) = Aged(arrived, after + 1)
  PROVE  OnSchedule(Age(t), older)
<1> DEFINE x == Age(t)
           s == t.since
           e == t.left
<1>1. /\ x.locked = t.locked /\ Out(x) = Out(t) /\ x.left = e
      /\ x.since = Lesser(s + 1, e)
  BY DEF Age, Out, StreamOK, Stream
<1>2. s \in Nat /\ e \in Nat /\ s <= e
  BY ScheduleParts
<1> HIDE DEF x
<1>3. CASE s < e
  <2>1. x.since = s + 1
    BY <1>1, <1>2, <1>3 DEF Lesser
  <2>2. ASSUME NEW after \in Nat, after <= x.left - x.since
        PROVE  x.left * (Window * Out(x)) + (Window * (x.since + after)) * x.locked
                 <= x.left * Aged(older, after)
    <3>1. PICK next \in Nat : next = after + 1
      OBVIOUS
    <3>2. next <= t.left - t.since /\ x.since + after = t.since + next
      BY <1>1, <1>2, <2>1, <2>2, <3>1
    <3>3. t.left * (Window * Out(t)) + (Window * (t.since + next)) * t.locked
            <= t.left * Aged(arrived, next)
      BY <3>2 DEF OnSchedule
    <3>4. Aged(older, after) = Aged(arrived, next)
      BY <3>1
    <3> QED
      BY <1>1, <3>2, <3>3, <3>4, Zenon
  <2>3. ASSUME NEW after \in Nat, after >= x.left - x.since
        PROVE  Window * (Out(x) + x.locked) <= Aged(older, after)
    <3>1. PICK next \in Nat : next = after + 1
      OBVIOUS
    <3>2. next >= t.left - t.since
      BY <1>1, <1>2, <2>1, <2>3, <3>1
    <3>3. Window * (Out(t) + t.locked) <= Aged(arrived, next)
      BY <3>2 DEF OnSchedule
    <3>4. Aged(older, after) = Aged(arrived, next)
      BY <3>1
    <3> QED
      BY <1>1, <3>3, <3>4, Zenon
  <2> QED
    BY <2>2, <2>3, Zenon DEF OnSchedule, x
<1>4. CASE s = e
  <2>1. x.since = e
    BY <1>1, <1>2, <1>4 DEF Lesser
  <2>2. ASSUME NEW after \in Nat PROVE Window * (Out(x) + x.locked) <= Aged(older, after)
    <3>1. PICK next \in Nat : next = after + 1
      OBVIOUS
    <3>2. next >= t.left - t.since
      BY <1>2, <1>4
    <3>3. Window * (Out(t) + t.locked) <= Aged(arrived, next)
      BY <3>2 DEF OnSchedule
    <3>4. Aged(older, after) = Aged(arrived, next)
      BY <3>1
    <3> QED
      BY <1>1, <3>3, <3>4, Zenon
  <2>3. ASSUME NEW after \in Nat, after <= x.left - x.since
        PROVE  x.left * (Window * Out(x)) + (Window * (x.since + after)) * x.locked
                 <= x.left * Aged(older, after)
    <3> DEFINE u == Out(x)
               l == x.locked
               a == Aged(older, after)
    <3>1. after = 0
      BY <1>1, <1>2, <2>1, <2>3
    <3>2. Window * (u + l) <= a
      BY <2>2
    <3>3. u \in Nat /\ l \in Nat /\ a \in Nat /\ e \in Nat /\ Window \in Nat
      <4>1. after + 1 \in Nat /\ Aged(older, after) = Aged(arrived, after + 1)
        OBVIOUS
      <4>2. PICK next \in Nat : next = after + 1
        OBVIOUS
      <4>3. Aged(arrived, next) \in Nat
        BY AgedTypes
      <4> QED
        BY <1>1, <4>1, <4>2, <4>3, ScheduleParts
    <3>4. x.left = e /\ x.since + after = e
      BY <1>1, <1>2, <2>1, <3>1
    <3> HIDE DEF u, l, a, e
    <3>5. e * (Window * u) + (Window * e) * l = e * (Window * (u + l))
      BY <3>3
    <3>6. Window * (u + l) \in Nat
      BY <3>3, ProductIsNat
    <3>7. e * (Window * (u + l)) <= e * a
      BY <3>2, <3>3, <3>6, ProductGrows
    <3>8. e * (Window * u) + (Window * e) * l <= e * a
      BY <3>5, <3>7
    <3> QED
      BY <3>4, <3>8 DEF u, l, a
  <2> QED
    BY <2>2, <2>3, Zenon DEF OnSchedule, x
<1> QED
  BY <1>2, <1>3, <1>4

(* A release takes no more than its part of what is locked, so the schedule of *)
(* what stays locked meets the old one.                                        *)
LEMMA ReleaseArithmetic ==
  ASSUME NEW W \in Nat, NEW s \in Nat, NEW k \in Nat, NEW m \in Nat, NEW locked \in Nat,
         NEW out \in Nat, NEW x \in Nat, NEW a \in Nat, x <= locked, k + m > 0,
         x * (s + (k + m)) <= s * locked,
         (s + (k + m)) * (W * out) + (W * (s + k)) * locked <= (s + (k + m)) * a
  PROVE  (k + m) * (W * (out + x)) + (W * k) * (locked - x) <= (k + m) * a
<1> DEFINE e == s + (k + m)
           d == k + m
           due == d * (W * (out + x)) + (W * k) * (locked - x)
<1>1. W * (m * (x * e)) <= W * (m * (s * locked))
  <2>1. x * e \in Nat /\ s * locked \in Nat
    BY ProductIsNat
  <2> HIDE DEF e
  <2>2. m * (x * e) <= m * (s * locked) /\ m * (x * e) \in Nat /\ m * (s * locked) \in Nat
    BY <2>1, ProductGrows DEF e
  <2> QED
    BY <2>2, ProductGrows
<1>2. e * due = d * (e * (W * out)) + W * (m * (x * e)) + W * (k * (e * locked))
  OBVIOUS
<1>3. d * (e * (W * out)) + W * (m * (s * locked)) + W * (k * (e * locked))
        = d * (e * (W * out) + (W * (s + k)) * locked)
  OBVIOUS
<1>4. d * (e * (W * out) + (W * (s + k)) * locked) <= d * (e * a)
  <2>1. /\ e * (W * out) + (W * (s + k)) * locked \in Nat /\ e * a \in Nat /\ d \in Nat
        /\ e * (W * out) + (W * (s + k)) * locked <= e * a
    BY ProductIsNat
  <2> HIDE DEF e, d
  <2> QED
    BY <2>1, ProductGrows
<1>5. due \in Nat /\ e \in Nat \ {0} /\ d * a \in Nat /\ e * (d * a) = d * (e * a)
  <2>1. /\ W * (out + x) \in Nat /\ W * k \in Nat /\ locked - x \in Nat /\ d \in Nat
    BY ProductIsNat
  <2>2. due \in Nat /\ d * a \in Nat
    BY <2>1, ProductIsNat
  <2> QED
    BY <2>2
<1>6. e * due <= e * (d * a)
  <2> DEFINE p == d * (e * (W * out))
             q == W * (k * (e * locked))
             y == W * (m * (x * e))
             z == W * (m * (s * locked))
  <2>1. p \in Int /\ q \in Int /\ y \in Int /\ z \in Int
    OBVIOUS
  <2>2. y <= z /\ e * due = p + y + q /\ p + z + q <= e * (d * a)
    BY <1>1, <1>2, <1>3, <1>4, <1>5
  <2>3. e * due \in Int /\ e * (d * a) \in Int
    OBVIOUS
  <2> HIDE DEF p, q, y, z, e, due, d
  <2> QED
    BY <2>1, <2>2, <2>3
<1> HIDE DEF e, due
<1>7. due * e <= (d * a) * e
  BY <1>5, <1>6, ProductCommutes
<1> HIDE DEF d
<1>8. due <= d * a
  BY <1>5, <1>7, ProductCancels
<1> QED
  BY <1>8 DEF due, d

(* The record release makes, and how much of what is locked it takes.          *)
LEMMA ReleaseTakes == ASSUME NEW t, StreamOK(t)
  PROVE  /\ Released(t) \in Nat /\ Released(t) <= t.locked
         /\ t.since < t.left => Released(t) * t.left <= t.since * t.locked
         /\ t.since = t.left => Released(t) = t.locked
         /\ Release(t) = [locked |-> t.locked - Released(t),
                          unlocked |-> t.unlocked + Released(t),
                          left |-> t.left - t.since, since |-> 0, fed |-> t.fed]
<1>1. /\ t.locked \in Nat /\ t.unlocked \in Nat /\ t.fed \in Nat
      /\ t.left \in 0..Window /\ t.since \in Nat /\ t.since <= t.left /\ t.left \in Nat
  BY StreamParts
<1>2. /\ Released(t) \in Nat /\ Released(t) <= t.locked
      /\ t.since < t.left => Released(t) * t.left <= t.since * t.locked
      /\ t.since = t.left => Released(t) = t.locked
  <2>1. CASE t.since >= t.left
    BY <1>1, <2>1 DEF Released
  <2>2. CASE ~(t.since >= t.left)
    <3>1. t.left \in Nat \ {0} /\ Released(t) = MulDivFloor(t.since, t.locked, t.left)
      BY <1>1, <2>2 DEF Released
    <3>2. /\ Released(t) \in Nat
          /\ Released(t) * t.left <= t.since * t.locked
      BY <1>1, <3>1, FloorFacts
    <3>3. Released(t) <= t.locked /\ t.since # t.left
      BY <1>1, <2>2, <3>1, FloorAtMost
    <3> QED
      BY <3>2, <3>3, Zenon
  <2> QED
    BY <2>1, <2>2, Zenon
<1> DEFINE x == Released(t)
<1>4. Release(t) = [t EXCEPT !.locked = @ - x, !.unlocked = @ + x,
                             !.left = @ - t.since, !.since = 0]
  BY Zenon DEF Release
<1>5. t \in Stream
  BY DEF StreamOK
<1>6. x \in Nat
  BY <1>2
<1> HIDE DEF x
<1>7. Release(t) = [locked |-> t.locked - x, unlocked |-> t.unlocked + x,
                    left |-> t.left - t.since, since |-> 0, fed |-> t.fed]
  BY <1>4, <1>5, <1>6, ReleaseRecord
<1> QED
  BY <1>2, <1>7 DEF x

LEMMA ReleaseKeepsSchedule ==
  ASSUME NEW t, StreamOK(t), NEW arr \in Arrivals, OnSchedule(t, arr)
  PROVE  OnSchedule(Release(t), arr)
<1> DEFINE x == Released(t)
           r == Release(t)
           d == t.left - t.since
<1>1. /\ t.locked \in Nat /\ t.unlocked \in Nat /\ t.fed \in Nat
      /\ t.left \in Nat /\ t.since \in Nat /\ t.since <= t.left
      /\ Window \in Nat \ {0}
  BY StreamParts, ConstantFacts
<1>2. /\ x \in Nat /\ x <= t.locked
      /\ t.since < t.left => x * t.left <= t.since * t.locked
      /\ t.since = t.left => x = t.locked
      /\ r = [locked |-> t.locked - x, unlocked |-> t.unlocked + x,
              left |-> t.left - t.since, since |-> 0, fed |-> t.fed]
  BY ReleaseTakes
<1>3. /\ r.locked = t.locked - x /\ Out(r) = Out(t) + x /\ r.left = d /\ r.since = 0
      /\ Out(r) + r.locked = Out(t) + t.locked /\ r.left - r.since = d
      /\ r.locked \in Nat /\ Out(r) \in Nat /\ Out(t) \in Nat /\ d \in Nat
  <2> HIDE DEF x, r
  <2> QED
    BY <1>1, <1>2 DEF Out
<1> HIDE DEF x, r
<1>4. ASSUME NEW after \in Nat, after >= r.left - r.since
      PROVE  Window * (Out(r) + r.locked) <= Aged(arr, after)
  <2>1. after >= t.left - t.since
    BY <1>3, <1>4
  <2>2. Window * (Out(t) + t.locked) <= Aged(arr, after)
    BY <2>1 DEF OnSchedule
  <2> QED
    BY <1>3, <2>2
<1>5. ASSUME NEW after \in Nat, after <= r.left - r.since
      PROVE  r.left * (Window * Out(r)) + (Window * (r.since + after)) * r.locked
               <= r.left * Aged(arr, after)
  <2> DEFINE a == Aged(arr, after)
             out == Out(t)
             locked == t.locked
             s == t.since
             e == t.left
  <2>1. a \in Nat
    BY AgedTypes
  <2>2. e * (Window * out) + (Window * (s + after)) * locked <= e * a
    BY <1>3, <1>5 DEF OnSchedule
  <2>3. PICK m \in Nat : m = d - after
    BY <1>3, <1>5
  <2>4. CASE s < e
    <3>1. e = s + (after + m) /\ after + m > 0 /\ after + m = d
      BY <1>1, <1>3, <2>3, <2>4
    <3>2. x * e <= s * locked /\ locked \in Nat /\ out \in Nat /\ s \in Nat /\ e \in Nat
          /\ x <= locked
      BY <1>1, <1>2, <1>3, <2>4
    <3> HIDE DEF a, out, locked, s, e, d
    <3>3. /\ x * (s + (after + m)) <= s * locked
          /\ (s + (after + m)) * (Window * out) + (Window * (s + after)) * locked
               <= (s + (after + m)) * a
      BY <2>2, <3>1, <3>2, Zenon
    <3>4. (after + m) * (Window * (out + x)) + (Window * after) * (locked - x)
            <= (after + m) * a
      BY <1>1, <1>2, <2>1, <3>1, <3>2, <3>3, ReleaseArithmetic
    <3>5. d * (Window * Out(r)) + (Window * after) * r.locked <= d * a
      <4>1. Out(r) = out + x /\ r.locked = locked - x
        BY <1>3 DEF out, locked
      <4> QED
        BY <3>1, <3>4, <4>1, Zenon
    <3>6. r.left = d /\ r.since + after = after
      BY <1>3
    <3> QED
      BY <3>5, <3>6 DEF a
  <2>5. CASE s = e
    <3>1. d = 0 /\ after = 0 /\ r.left = 0 /\ r.since + after = 0
      BY <1>1, <1>3, <1>5, <2>5
    <3>2. Window * Out(r) \in Nat /\ Window * 0 = 0 /\ r.locked \in Nat
      BY <1>1, <1>3, ProductIsNat
    <3>3. 0 * (Window * Out(r)) = 0 /\ 0 * r.locked = 0 /\ 0 * a = 0
      <4> HIDE DEF a
      <4> QED BY <2>1, <3>2
    <3>4. r.left * (Window * Out(r)) + (Window * (r.since + after)) * r.locked = 0
      BY <3>1, <3>2, <3>3
    <3>5. r.left * a = 0
      BY <3>1, <3>3
    <3> QED
      BY <3>4, <3>5
  <2> QED
    BY <1>1, <2>4, <2>5
<1> QED
  BY <1>4, <1>5, Zenon DEF OnSchedule, r

-----------------------------------------------------------------------------
(* What starts over when something arrives.  Aging a unit by k of the window   *)
(* brings it at least k parts of the way from where it is to the end.          *)
LEMMA AgingIsConcave ==
  ASSUME NEW age \in Ages, NEW k \in Ages, NEW n \in Nat
  PROVE  (Window - k) * (age * n) + (k * Window) * n <= Window * (Lesser(age + k, Window) * n)
<1>1. Window \in Nat \ {0} /\ age \in Nat /\ k \in Nat /\ age <= Window /\ k <= Window
  BY ConstantFacts DEF Ages
<1>2. CASE age + k <= Window
  <2>1. Lesser(age + k, Window) = age + k
    BY <1>2 DEF Lesser
  <2>2. Window * ((age + k) * n) = (Window - k) * (age * n) + (k * Window) * n + k * (age * n)
    BY <1>1
  <2>3. k * (age * n) \in Nat /\ (Window - k) * (age * n) + (k * Window) * n \in Int
    BY <1>1, ProductIsNat
  <2> DEFINE y == (Window - k) * (age * n) + (k * Window) * n
             z == k * (age * n)
             w == Window * ((age + k) * n)
  <2>4. w = y + z /\ z \in Nat /\ y \in Int
    BY <2>2, <2>3
  <2>5. Window * (Lesser(age + k, Window) * n) = w
    BY <2>1
  <2> HIDE DEF y, z, w
  <2>6. y <= w
    BY <2>4
  <2> QED
    BY <2>5, <2>6 DEF y
<1>3. CASE age + k > Window
  <2>1. Lesser(age + k, Window) = Window
    BY <1>1, <1>3 DEF Lesser
  <2>2. (Window - k) * (age * n) <= (Window - k) * (Window * n)
    <3>1. age * n <= Window * n /\ age * n \in Nat /\ Window * n \in Nat
          /\ Window - k \in Nat
      BY <1>1, ProductMonotone, ProductIsNat
    <3> QED
      BY <3>1, ProductGrows
  <2>3. (Window - k) * (Window * n) + (k * Window) * n = Window * (Window * n)
    BY <1>1
  <2> DEFINE y == (Window - k) * (age * n)
             z == (Window - k) * (Window * n)
             q == (k * Window) * n
             w == Window * (Window * n)
  <2>4. y \in Int /\ z \in Int /\ q \in Int /\ w \in Int
    BY <1>1
  <2>5. y <= z /\ z + q = w
    BY <2>2, <2>3
  <2> HIDE DEF y, z, q, w
  <2>6. y + q <= w
    BY <2>4, <2>5
  <2> QED
    BY <2>1, <2>6 DEF y, q, w
<1> QED
  BY <1>1, <1>2, <1>3

LEMMA SpreadOverWindow ==
  ASSUME NEW arr \in Arrivals, NEW k \in Ages
  PROVE  (Window - k) * Aged(arr, 0) + (k * Window) * SumFunctionOnSet(arr, Ages)
           <= Window * Aged(arr, k)
<1>1. Window \in Nat \ {0} /\ k \in Nat /\ Window - k \in Int /\ k * Window \in Int
  BY ConstantFacts, ProductIsNat DEF Ages
<1>2. PICK c, b, w : c = Window - k /\ b = k * Window /\ w = Window
  OBVIOUS
<1> DEFINE f == AgedBy(arr, 0)
           g == AgedBy(arr, k)
           cf == [age \in Ages |-> c * f[age]]
           ba == [age \in Ages |-> b * arr[age]]
           both == [age \in Ages |-> cf[age] + ba[age]]
           wg == [age \in Ages |-> w * g[age]]
<1>3. /\ \A age \in Ages : f[age] \in Nat /\ g[age] \in Nat /\ arr[age] \in Nat
      /\ IsFiniteSet(Ages)
  BY <1>1, AgedTypes DEF Arrivals
<1>4. c \in Int /\ b \in Int /\ w \in Int
  BY <1>1, <1>2
<1>5. \A age \in Ages : both[age] <= wg[age]
  <2> SUFFICES ASSUME NEW age \in Ages PROVE both[age] <= wg[age]
    OBVIOUS
  <2>1. f[age] = Lesser(age + 0, Window) * arr[age]
        /\ g[age] = Lesser(age + k, Window) * arr[age]
    BY <1>1, AgedTypes
  <2>2. Lesser(age + 0, Window) = age
    BY <1>1 DEF Lesser, Ages
  <2>3. (Window - k) * (age * arr[age]) + (k * Window) * arr[age]
          <= Window * (Lesser(age + k, Window) * arr[age])
    BY <1>3, AgingIsConcave
  <2>4. /\ both[age] = c * (age * arr[age]) + b * arr[age]
        /\ wg[age] = w * (Lesser(age + k, Window) * arr[age])
    <3>1. both[age] = c * f[age] + b * arr[age] /\ wg[age] = w * g[age]
      OBVIOUS
    <3> HIDE DEF both, wg, f, g
    <3> QED
      BY <2>1, <2>2, <3>1, Zenon
  <2> QED
    BY <1>2, <2>3, <2>4, Zenon
<1>6. \A age \in Ages : /\ cf[age] = c * f[age] /\ ba[age] = b * arr[age]
                        /\ both[age] = cf[age] + ba[age] /\ wg[age] = w * g[age]
  OBVIOUS
<1> HIDE DEF f, g, cf, ba, both, wg
<1>7. \A age \in Ages : /\ f[age] \in Int /\ g[age] \in Int /\ arr[age] \in Int
                        /\ cf[age] \in Int /\ ba[age] \in Int
                        /\ both[age] \in Int /\ wg[age] \in Int
  <2> SUFFICES ASSUME NEW age \in Ages
      PROVE /\ f[age] \in Int /\ g[age] \in Int /\ arr[age] \in Int
            /\ cf[age] \in Int /\ ba[age] \in Int
            /\ both[age] \in Int /\ wg[age] \in Int
    OBVIOUS
  <2>1. f[age] \in Int /\ g[age] \in Int /\ arr[age] \in Int
    BY <1>3
  <2>2. c * f[age] \in Int /\ b * arr[age] \in Int /\ w * g[age] \in Int
    BY <1>1, <1>4, <2>1
  <2>3. cf[age] \in Int /\ ba[age] \in Int /\ wg[age] \in Int
    BY <1>6, <2>2
  <2> QED
    BY <1>6, <2>1, <2>3
<1>8. SumFunctionOnSet(cf, Ages) = c * SumFunctionOnSet(f, Ages)
  BY <1>3, <1>4, <1>6, <1>7, SumOfMultiples
<1>9. SumFunctionOnSet(ba, Ages) = b * SumFunctionOnSet(arr, Ages)
  BY <1>3, <1>4, <1>6, <1>7, SumOfMultiples
<1>10. SumFunctionOnSet(wg, Ages) = w * SumFunctionOnSet(g, Ages)
  BY <1>4, <1>3, <1>6, <1>7, SumOfMultiples
<1>11. SumFunctionOnSet(both, Ages) = SumFunctionOnSet(cf, Ages) + SumFunctionOnSet(ba, Ages)
  BY <1>3, <1>6, <1>7, SumOfPairs
<1>12. SumFunctionOnSet(both, Ages) <= SumFunctionOnSet(wg, Ages)
  BY <1>3, <1>5, <1>7, SumMonotone
<1>13. c * SumFunctionOnSet(f, Ages) + b * SumFunctionOnSet(arr, Ages)
         <= w * SumFunctionOnSet(g, Ages)
  BY <1>8, <1>9, <1>10, <1>11, <1>12, Zenon
<1> QED
  BY <1>2, <1>13, Zenon DEF Aged, f, g

(* After the whole window everything that came is due.                         *)
LEMMA AllIsDue ==
  ASSUME NEW arr \in Arrivals, NEW after \in Nat, after >= Window
  PROVE  Aged(arr, after) = Window * SumFunctionOnSet(arr, Ages)
<1> DEFINE g == AgedBy(arr, after)
<1>1. Window \in Int /\ IsFiniteSet(Ages)
  BY ConstantFacts, AgedTypes
<1>2. \A age \in Ages : arr[age] \in Int /\ g[age] = Window * arr[age]
  <2> SUFFICES ASSUME NEW age \in Ages PROVE arr[age] \in Int /\ g[age] = Window * arr[age]
    OBVIOUS
  <2>1. g[age] = Lesser(age + after, Window) * arr[age] /\ arr[age] \in Int
    BY AgedTypes DEF Arrivals
  <2>2. Lesser(age + after, Window) = Window
    BY ConstantFacts DEF Lesser, Ages
  <2> QED
    BY <2>1, <2>2
<1> HIDE DEF g
<1> QED
  BY <1>1, <1>2, SumOfMultiples DEF Aged, g

(* By now nothing is out that is not due by now.                               *)
LEMMA DueByNow ==
  ASSUME NEW t, StreamOK(t), NEW arr \in Arrivals, OnSchedule(Release(t), arr)
  PROVE  Window * Out(Release(t)) <= Aged(arr, 0)
<1> DEFINE r == Release(t)
           a == Aged(arr, 0)
<1>1. StreamOK(r) /\ r.since = 0
  BY ReleaseMoves, ReleaseTakes
<1>2. /\ r.locked \in Nat /\ Out(r) \in Nat /\ r.left \in Nat
      /\ Window \in Nat \ {0} /\ a \in Nat
  BY <1>1, ScheduleParts, AgedTypes
<1>3. CASE r.left = 0
  <2>1. 0 >= r.left - r.since
    BY <1>1, <1>3
  <2>2. Window * (Out(r) + r.locked) <= a
    BY <2>1 DEF OnSchedule
  <2> HIDE DEF r, a
  <2>3. /\ Window * Out(r) <= Window * (Out(r) + r.locked)
        /\ Window * Out(r) \in Nat /\ Window * (Out(r) + r.locked) \in Nat
    BY <1>2, ProductGrows
  <2> QED
    BY <1>2, <2>2, <2>3 DEF r, a
<1>4. CASE r.left # 0
  <2>1. 0 <= r.left - r.since
    BY <1>1, <1>2
  <2>2. r.left * (Window * Out(r)) + (Window * (r.since + 0)) * r.locked <= r.left * a
    BY <2>1 DEF OnSchedule
  <2> DEFINE w == Window * Out(r)
             e == r.left
             z == (Window * (r.since + 0)) * r.locked
  <2>3. w \in Nat /\ e \in Nat \ {0} /\ z = 0
    <3>1. Window * 0 = 0 /\ 0 * r.locked = 0
      <4> HIDE DEF r
      <4> QED BY <1>2
    <3>2. w \in Nat
      BY <1>2, ProductIsNat
    <3> QED
      BY <1>1, <1>2, <1>4, <3>1, <3>2
  <2>4. e * w + z <= e * a
    BY <2>2
  <2> HIDE DEF w, e, z, a, r
  <2>5. e * w \in Int /\ e * a \in Int
    BY <1>2, <2>3
  <2>6. w * e <= a * e
    BY <1>2, <2>3, <2>4, <2>5, ProductCommutes
  <2>7. w <= a
    BY <1>2, <2>3, <2>6, ProductCancels
  <2> QED
    BY <2>7 DEF w, a, r
<1> QED
  BY <1>3, <1>4

(* sync keeps the schedule: what arrived and what is still locked start over   *)
(* at a time when no more is out than is due.                                  *)
LEMMA SyncKeepsSchedule ==
  ASSUME NEW t, StreamOK(t), NEW balance \in Nat, t.locked + t.unlocked <= balance,
         NEW arr \in Arrivals, SumFunctionOnSet(arr, Ages) = balance + t.fed,
         OnSchedule(t, arr)
  PROVE  OnSchedule(Sync(t, balance), arr)
<1> DEFINE r == Release(t)
           x == Sync(t, balance)
<1>1. /\ StreamOK(r) /\ r.fed = t.fed /\ r.since = 0
      /\ r.locked + r.unlocked = t.locked + t.unlocked
      /\ OnSchedule(r, arr)
  BY ReleaseMoves, ReleaseTakes, ReleaseKeepsSchedule
<1>2. Window * Out(r) <= Aged(arr, 0)
  BY <1>1, DueByNow
<1> HIDE DEF r
<1>3. /\ r.locked \in Nat /\ r.unlocked \in Nat /\ r.fed \in Nat
      /\ r.left \in Nat /\ r.since \in Nat /\ Window \in Nat \ {0}
      /\ r = [locked |-> r.locked, unlocked |-> r.unlocked, left |-> r.left,
              since |-> r.since, fed |-> r.fed]
  BY <1>1, StreamParts, ConstantFacts
<1>4. x = Track(r, balance)
  BY DEF Sync, r
<1> HIDE DEF x
<1>5. CASE balance = r.locked + r.unlocked
  <2>1. x = r
    BY <1>3, <1>4, <1>5 DEF Track
  <2> QED
    BY <1>1, <2>1 DEF x
<1>6. CASE balance > r.locked + r.unlocked
  <2> DEFINE more == r.locked + (balance - (r.locked + r.unlocked))
             out == Out(r)
             sum == SumFunctionOnSet(arr, Ages)
  <2>1. x = [r EXCEPT !.locked = more, !.left = Window]
    BY <1>3, <1>4, <1>6 DEF Track
  <2>2. x = [locked |-> more, unlocked |-> r.unlocked, left |-> Window,
             since |-> r.since, fed |-> r.fed]
    BY <1>3, <2>1
  <2>3. /\ x.locked = more /\ Out(x) = out /\ x.left = Window /\ x.since = 0
        /\ more \in Nat /\ out \in Nat /\ sum = out + more
    <3>1. x.locked = more /\ Out(x) = out /\ x.left = Window /\ x.since = r.since
      BY <2>2 DEF Out
    <3>2. more \in Nat /\ out \in Nat /\ sum = out + more
      BY <1>1, <1>3, <1>6 DEF Out
    <3> QED
      BY <1>1, <3>1, <3>2
  <2> HIDE DEF more, out, sum
  <2>4. ASSUME NEW after \in Nat, after >= x.left - x.since
        PROVE  Window * (Out(x) + x.locked) <= Aged(arr, after)
    <3>1. after >= Window
      BY <1>3, <2>3, <2>4
    <3>2. Aged(arr, after) = Window * sum
      BY <3>1, AllIsDue DEF sum
    <3>3. Window * sum \in Nat /\ Out(x) + x.locked = sum
      BY <1>3, <2>3, ProductIsNat
    <3> QED
      BY <3>2, <3>3
  <2>5. ASSUME NEW after \in Nat, after <= x.left - x.since
        PROVE  x.left * (Window * Out(x)) + (Window * (x.since + after)) * x.locked
                 <= x.left * Aged(arr, after)
    <3> DEFINE a == Aged(arr, 0)
               b == Aged(arr, after)
    <3>1. after \in Ages /\ after <= Window
      BY <1>3, <2>3, <2>5 DEF Ages
    <3>2. (Window - after) * a + (after * Window) * sum <= Window * b
      BY <3>1, SpreadOverWindow DEF sum
    <3>3. a \in Nat /\ b \in Nat /\ Window * out <= a /\ Window * out \in Nat
      BY <1>2, <1>3, <2>3, AgedTypes, ProductIsNat DEF out
    <3> HIDE DEF a, b
    <3>4. (Window - after) * (Window * out) <= (Window - after) * a
      <4>1. Window - after \in Nat
        BY <1>3, <3>1
      <4> QED
        BY <3>3, <4>1, ProductGrows
    <3>5. (Window - after) * (Window * out) + (after * Window) * (out + more)
            = Window * (Window * out) + (Window * after) * more
      BY <1>3, <2>3
    <3>6. Window * (Window * out) + (Window * after) * more <= Window * b
      <4> DEFINE p == (Window - after) * (Window * out)
                 q == (Window - after) * a
                 y == (after * Window) * sum
                 z == Window * b
                 w == Window * (Window * out) + (Window * after) * more
      <4>1. p \in Int /\ q \in Int /\ y \in Int /\ z \in Int
        BY <1>3, <2>3, <3>3
      <4>2. q + y <= z /\ p <= q /\ p + y = w
        BY <2>3, <3>2, <3>4, <3>5
      <4> HIDE DEF p, q, y, z, w
      <4>3. w <= z
        BY <4>1, <4>2
      <4> QED
        BY <4>3 DEF w, z
    <3>7. x.since + after = after
      BY <2>3
    <3> QED
      BY <2>3, <3>6, <3>7, Zenon DEF b
  <2> QED
    BY <2>4, <2>5, Zenon DEF OnSchedule, x
<1> QED
  BY <1>1, <1>3, <1>5, <1>6

-----------------------------------------------------------------------------
(* The inductive invariant of the schedule, beside that of the amounts.        *)
Schedule ==
  /\ arrived \in Arrivals
  /\ SumFunctionOnSet(arrived, Ages) = received
  /\ OnSchedule(terms, arrived)

LEMMA ReceivedOnSchedule ==
  ASSUME SafeInv, Schedule, NEW n \in Nat, Receive(n)
  PROVE  /\ arrived' \in Arrivals
         /\ SumFunctionOnSet(arrived', Ages) = received + n
         /\ received' = received + n
         /\ OnSchedule(terms, arrived')
<1>1. /\ arrived' = [arrived EXCEPT ![0] = @ + n] /\ received' = received + n
      /\ 0 \in Ages /\ arrived \in [Ages -> Nat]
  BY ConstantFacts DEF Receive, Schedule, Ages, Arrivals
<1>2. PICK now : now = arrived'
  OBVIOUS
<1>3. /\ now \in Arrivals /\ now[0] = arrived[0] + n
      /\ \A age \in Ages \ {0} : now[age] = arrived[age]
  BY <1>1, <1>2 DEF Arrivals
<1>4. \A age \in Ages : /\ arrived[age] \in Nat /\ now[age] \in Nat
                        /\ arrived[age] <= now[age]
  BY <1>1, <1>3 DEF Arrivals
<1>5. IsFiniteSet(Ages) /\ arrived \in Arrivals
  BY FS_Interval, ConstantFacts DEF Ages, Schedule
<1>6. SumFunctionOnSet(now, Ages) = SumFunctionOnSet(arrived, Ages) - arrived[0] + now[0]
  <2>1. PICK was : was = arrived
    OBVIOUS
  <2>2. /\ \A age \in Ages : was[age] \in Int /\ now[age] \in Int
        /\ \A age \in Ages \ {0} : was[age] = now[age]
    BY <1>3, <1>4, <2>1
  <2>3. SumFunctionOnSet(now, Ages) = SumFunctionOnSet(was, Ages) - was[0] + now[0]
    BY <1>1, <1>5, <2>2, SumChangedAt
  <2> QED
    BY <2>1, <2>3
<1>7. SumFunctionOnSet(now, Ages) = received + n
  <2>1. /\ SumFunctionOnSet(arrived, Ages) = received /\ received \in Nat
        /\ arrived[0] \in Nat
    BY <1>1, <1>4, InvParts DEF Schedule
  <2> QED
    BY <1>3, <1>6, <2>1
<1>8. OnSchedule(terms, now)
  <2>1. StreamOK(terms) /\ OnSchedule(terms, arrived)
    BY InvParts DEF Schedule
  <2> QED
    BY <1>3, <1>4, <1>5, <2>1, ArrivalsKeepSchedule
<1> QED
  BY <1>1, <1>2, <1>3, <1>7, <1>8

LEMMA ArrivalScheduled ==
  ASSUME SafeInv, Schedule, NEW n \in Nat, Receive(n), terms' = Sync(terms, feed + n)
  PROVE  Schedule'
<1>1. /\ arrived' \in Arrivals /\ SumFunctionOnSet(arrived', Ages) = received + n
      /\ received' = received + n /\ OnSchedule(terms, arrived')
  BY ReceivedOnSchedule
<1>2. /\ StreamOK(terms) /\ feed + n \in Nat /\ terms.locked + terms.unlocked <= feed + n
      /\ received + n = (feed + n) + terms.fed
  BY InvParts
<1>3. PICK now : now = arrived'
  OBVIOUS
<1>4. now \in Arrivals /\ SumFunctionOnSet(now, Ages) = (feed + n) + terms.fed
      /\ OnSchedule(terms, now)
  BY <1>1, <1>2, <1>3
<1>5. PICK balance \in Nat : balance = feed + n
  BY <1>2
<1>6. OnSchedule(Sync(terms, balance), now)
  BY <1>2, <1>4, <1>5, SyncKeepsSchedule
<1>7. OnSchedule(terms', arrived')
  BY <1>3, <1>5, <1>6
<1> QED
  BY <1>1, <1>7 DEF Schedule, Ages, Arrivals

LEMMA SyncedOnSchedule == ASSUME SafeInv, Schedule
  PROVE  OnSchedule(Sync(terms, feed), arrived) /\ StreamOK(Sync(terms, feed))
<1>1. /\ StreamOK(terms) /\ feed \in Nat /\ terms.locked + terms.unlocked <= feed
      /\ received = feed + terms.fed
  BY InvParts
<1>2. /\ arrived \in Arrivals /\ SumFunctionOnSet(arrived, Ages) = feed + terms.fed
      /\ OnSchedule(terms, arrived)
  BY <1>1 DEF Schedule
<1> QED
  BY <1>1, <1>2, SyncKeepsSchedule, SyncTypes

LEMMA BasketFeedScheduled == ASSUME SafeInv, Schedule, NEW n, CanFeed(n), BasketFeed(n)
  PROVE  Schedule'
<1> DEFINE s == Sync(terms, feed)
<1>1. StreamOK(s) /\ OnSchedule(s, arrived)
  BY SyncedOnSchedule
<1>2. n \in Nat /\ terms' = Spend(s, n) /\ arrived' = arrived /\ received' = received
  BY DEF CanFeed, BasketFeed, history
<1> HIDE DEF s
<1>3. s \in Stream /\ s.unlocked \in Nat /\ s.fed \in Nat
  BY <1>1, StreamParts DEF StreamOK
<1>4. terms' = [locked |-> s.locked, unlocked |-> s.unlocked - n, left |-> s.left,
               since |-> s.since, fed |-> s.fed + n]
  BY <1>2, <1>3, SpendRecord
<1>5. /\ terms'.locked = s.locked /\ Out(terms') = Out(s) /\ terms'.left = s.left
      /\ terms'.since = s.since
  BY <1>2, <1>3, <1>4 DEF Out
<1>6. OnSchedule(terms', arrived)
  BY <1>1, <1>5, SpendingKeepsSchedule
<1> QED
  BY <1>2, <1>6 DEF Schedule, Ages, Arrivals

LEMMA PoolFeedScheduled ==
  ASSUME SafeInv, Schedule, NEW n \in Nat, NEW unspent \in Nat, PoolFeed(n, unspent)
  PROVE  Schedule'
<1> DEFINE s == Sync(terms, feed)
<1>1. StreamOK(s) /\ OnSchedule(s, arrived)
  BY SyncedOnSchedule
<1>2. /\ terms' = GiveBack(Spend(s, n), unspent)
      /\ arrived' = arrived /\ received' = received
  BY DEF PoolFeed, history
<1> HIDE DEF s
<1>3. s \in Stream /\ s.unlocked \in Nat /\ s.fed \in Nat
  BY <1>1, StreamParts DEF StreamOK
<1>4. terms' = [locked |-> s.locked, unlocked |-> (s.unlocked - n) + unspent, left |-> s.left,
               since |-> s.since, fed |-> (s.fed + n) - unspent]
  BY <1>2, <1>3, GiveBackRecord
<1>5. /\ terms'.locked = s.locked /\ Out(terms') = Out(s) /\ terms'.left = s.left
      /\ terms'.since = s.since
  BY <1>3, <1>4 DEF Out
<1>6. OnSchedule(terms', arrived)
  BY <1>1, <1>5, SpendingKeepsSchedule
<1> QED
  BY <1>2, <1>6 DEF Schedule, Ages, Arrivals

LEMMA TickScheduled == ASSUME SafeInv, Schedule, Tick PROVE Schedule'
<1>1. terms' = Age(terms) /\ arrived' = Older /\ received' = received
  BY DEF Tick
<1>2. /\ StreamOK(terms) /\ arrived \in Arrivals /\ OnSchedule(terms, arrived)
      /\ SumFunctionOnSet(arrived, Ages) = received
  BY InvParts DEF Schedule
<1>3. PICK older : older = Older
  OBVIOUS
<1>4. \A age \in Ages : older[age] =
        (IF age = 0 THEN 0
         ELSE IF age < Window THEN arrived[age - 1]
         ELSE arrived[age - 1] + arrived[age])
  BY <1>3 DEF Older, Ages
<1>5. /\ \A after \in Nat : Aged(older, after) = Aged(arrived, after + 1)
      /\ SumFunctionOnSet(older, Ages) = received
  BY <1>2, <1>4, AgedByTick
<1>6. OnSchedule(Age(terms), older)
  BY <1>2, <1>5, TickKeepsSchedule
<1>7. older \in Arrivals
  <2>1. ASSUME NEW age \in Ages
        PROVE  (IF age = 0 THEN 0
                ELSE IF age < Window THEN arrived[age - 1]
                ELSE arrived[age - 1] + arrived[age]) \in Nat
    <3>1. Window \in Nat \ {0} /\ age \in 0..Window /\ arrived \in [0..Window -> Nat]
      BY <1>2, ConstantFacts DEF Ages, Arrivals
    <3>2. CASE age # 0
      <4>1. age - 1 \in 0..Window
        BY <3>1, <3>2
      <4>2. arrived[age - 1] \in Nat /\ arrived[age] \in Nat
        BY <3>1, <4>1
      <4> QED
        BY <3>2, <4>2
    <3> QED
      BY <3>2
  <2>2. \A age \in Ages : older[age] \in Nat
    BY <1>4, <2>1
  <2> QED
    BY <1>3, <2>2 DEF Older, Ages, Arrivals
<1>8. /\ arrived' \in Arrivals /\ SumFunctionOnSet(arrived', Ages) = received'
      /\ OnSchedule(terms', arrived')
  BY <1>1, <1>3, <1>5, <1>6, <1>7, Zenon
<1> QED
  BY <1>8 DEF Schedule, Ages, Arrivals

LEMMA InitScheduled == ASSUME Init PROVE Schedule
<1>1. /\ terms = NewTerms /\ received = 0 /\ arrived = [age \in Ages |-> 0]
  BY DEF Init, Ages
<1>2. /\ terms.locked = 0 /\ Out(terms) = 0 /\ terms.left = 0 /\ terms.since = 0
  BY <1>1 DEF NewTerms, Out
<1>3. arrived \in Arrivals /\ IsFiniteSet(Ages) /\ \A age \in Ages : arrived[age] = 0
  BY <1>1, FS_Interval, ConstantFacts DEF Ages, Arrivals
<1>4. SumFunctionOnSet(arrived, Ages) = received
  BY <1>1, <1>3, SumOfZeros
<1>5. ASSUME NEW after \in Nat
      PROVE  /\ terms.left * (Window * Out(terms))
                  + (Window * (terms.since + after)) * terms.locked
                  <= terms.left * Aged(arrived, after)
             /\ Window * (Out(terms) + terms.locked) <= Aged(arrived, after)
  <2> DEFINE a == Aged(arrived, after)
  <2>1. a \in Nat /\ Window \in Nat /\ Window * (0 + after) \in Nat
    BY <1>3, AgedTypes, ConstantFacts, ProductIsNat
  <2> HIDE DEF a
  <2>2. 0 * (Window * 0) + (Window * (0 + after)) * 0 <= 0 * a /\ Window * (0 + 0) <= a
    BY <2>1
  <2> QED
    BY <1>2, <2>2, Zenon DEF a
<1> QED
  BY <1>3, <1>4, <1>5, Zenon DEF Schedule, OnSchedule

LEMMA ScheduleKept == ASSUME SafeInv, Schedule, [Next]_vars PROVE Schedule'
<1>1. ASSUME UNCHANGED <<terms, arrived, received>> PROVE Schedule'
  BY <1>1 DEF Schedule
<1>2. ASSUME UNCHANGED chain PROVE Schedule'
  BY <1>1, <1>2 DEF chain, stream, history
<1>3. ASSUME DistributeV2 PROVE Schedule'
  <2> DEFINE ssr == (staging * SsrShare + remainder) \div Bps
             holders == HolderPart(staging - ssr)
  <2>1. ssr \in 0..staging
    BY InvParts, SsrPart
  <2>2. Receive(holders) /\ terms' = Sync(terms, feed + holders)
    BY <1>3, Zenon DEF DistributeV2
  <2> HIDE DEF ssr
  <2>3. holders \in Nat
    <3>1. staging - ssr \in Nat /\ HolderShare \in Nat /\ Bps \in Nat \ {0}
      BY <2>1, InvParts, FeedAssumption
    <3> QED
      BY <3>1, FloorFacts DEF HolderPart
  <2> HIDE DEF holders
  <2> QED
    BY <2>2, <2>3, ArrivalScheduled
<1>4. CASE CollectStep
  <2>1. UNCHANGED chain \/ DistributeV2
    BY <1>4 DEF CollectStep, Send
  <2> QED
    BY <1>2, <1>3, <2>1
<1>5. ASSUME NEW n \in Amounts, NEW unspent \in 0..(n - 1),
             SendPool(n, unspent) \/ PoolFeedBySigner(n, unspent)
      PROVE  Schedule'
  <2>1. UNCHANGED chain \/ PoolFeed(n, unspent)
    BY <1>5 DEF SendPool, Send, PoolFeedBySigner
  <2>2. n \in Nat /\ unspent \in Nat
    BY DEF Amounts
  <2> QED
    BY <1>2, <2>1, <2>2, PoolFeedScheduled
<1>6. ASSUME NEW a \in Assets, SendLeg(a) PROVE Schedule'
  <2>1. UNCHANGED chain \/ (CanFeed(visit.legs[a]) /\ BasketFeed(visit.legs[a]))
    BY <1>6 DEF SendLeg, Send
  <2> QED
    BY <1>2, <2>1, BasketFeedScheduled
<1>7. ASSUME NEW n \in Amounts, TaxedSwap(n) PROVE Schedule'
  <2> DEFINE holders == HolderPart(MulDivFloor(n, Bps - SsrShare, Bps))
  <2>1. n \in Nat /\ Bps - SsrShare \in Nat /\ Bps \in Nat \ {0} /\ HolderShare \in Nat
    BY FeedAssumption DEF Amounts
  <2>2. holders \in Nat
    BY <2>1, FloorFacts DEF HolderPart
  <2>3. Receive(holders) /\ terms' = Sync(terms, feed + holders)
    BY <1>7, Zenon DEF TaxedSwap
  <2> HIDE DEF holders
  <2> QED
    BY <2>2, <2>3, ArrivalScheduled
<1>8. ASSUME NEW n \in Amounts, PlainTransfer(n) PROVE Schedule'
  <2>1. n \in Nat /\ Receive(n) /\ terms' = terms
    BY <1>8 DEF PlainTransfer, Amounts
  <2>2. /\ arrived' \in Arrivals /\ SumFunctionOnSet(arrived', Ages) = received'
        /\ OnSchedule(terms', arrived')
    BY <2>1, ReceivedOnSchedule
  <2> QED
    BY <2>2 DEF Schedule, Ages, Arrivals
<1>9. ASSUME NEW n \in Amounts, FeedBySigner(n) PROVE Schedule'
  BY <1>9, BasketFeedScheduled DEF FeedBySigner
<1>10. CASE Tick
  BY <1>10, TickScheduled
<1>11. CASE Keeper
  <2>1. ASSUME StartRun \/ ReadAccounts \/ ReadClock \/ SkipPool \/ EndRun PROVE Schedule'
    BY <1>2, <2>1 DEF StartRun, ReadAccounts, ReadClock, SkipPool, EndRun
  <2> QED
    BY <1>4, <1>5, <1>6, <1>11, <2>1, Zenon DEF Keeper
<1>12. CASE Everyone
  <2>1. ASSUME RaydiumChangesRate \/ \E n \in Amounts : Trade(n) PROVE Schedule'
    BY <1>1, <2>1 DEF RaydiumChangesRate, Trade, stream, history
  <2>2. ASSUME NEW from, NEW to, SetStatus(from, to) PROVE Schedule'
    BY <1>1, <2>2 DEF SetStatus, stream, history
  <2> QED
    BY <1>3, <1>5, <1>7, <1>8, <1>9, <1>12, <2>1, <2>2, Zenon
    DEF Everyone, DistributeByAnyone
<1>13. CASE UNCHANGED vars
  BY <1>2, <1>13 DEF vars
<1>14. ASSUME StopRun \/ \E a \in Assets : SkipLeg(a) PROVE Schedule'
  BY <1>2, <1>14 DEF StopRun, SkipLeg
<1> QED
  BY <1>10, <1>11, <1>12, <1>13, <1>14, Zenon DEF Next

LEMMA InitRuns == ASSUME Init PROVE RunOK
BY NoVisitTypes, FeedAssumption DEF Init, RunOK

FullInv == SafeInv /\ RunOK /\ Schedule

LEMMA FullInvariance == Spec => []FullInv
<1>1. Init => FullInv
  BY InitEstablishes, InitRuns, InitScheduled DEF FullInv
<1>2. FullInv /\ [Next]_vars => FullInv'
  BY NextKeeps, RunKept, ScheduleKept DEF FullInv
<1> QED
  BY <1>1, <1>2, PTL DEF Spec

(* What is out now is due now: a release at this moment only adds to it.       *)
LEMMA ScheduleIsKept == FullInv => NeverAheadOfStream
<1> SUFFICES ASSUME FullInv PROVE NeverAheadOfStream
  OBVIOUS
<1> DEFINE due == [age \in 0..Window |-> age * arrived[age]]
           r == Release(terms)
<1>1. /\ StreamOK(terms) /\ arrived \in Arrivals /\ OnSchedule(terms, arrived)
  BY InvParts DEF FullInv, Schedule
<1>2. Window * Out(r) <= Aged(arrived, 0)
  BY <1>1, ReleaseKeepsSchedule, DueByNow
<1>3. Window * Out(terms) <= Window * Out(r) /\ Window * Out(terms) \in Nat
      /\ Window * Out(r) \in Nat
  <2>1. StreamOK(r) /\ r.fed = terms.fed /\ r.unlocked >= terms.unlocked
    BY <1>1, ReleaseMoves
  <2> HIDE DEF r
  <2>2. /\ Out(terms) \in Nat /\ Out(r) \in Nat /\ Window \in Nat
        /\ Out(terms) <= Out(r)
    BY <1>1, <2>1, StreamParts, ConstantFacts DEF Out
  <2> QED
    BY <2>2, ProductGrows
<1>4. SumFunction(due) = Aged(arrived, 0)
  <2>1. SumFunction(due) = SumFunctionOnSet(due, Ages)
    BY SumOverDomain DEF Ages
  <2>2. \A age \in Ages : due[age] = AgedBy(arrived, 0)[age]
    <3> SUFFICES ASSUME NEW age \in Ages PROVE due[age] = AgedBy(arrived, 0)[age]
      OBVIOUS
    <3>1. age \in 0..Window /\ Lesser(age + 0, Window) = age
      BY ConstantFacts DEF Ages, Lesser
    <3>2. AgedBy(arrived, 0)[age] = Lesser(age + 0, Window) * arrived[age]
      BY DEF AgedBy
    <3> QED
      BY <3>1, <3>2
  <2>3. IsFiniteSet(Ages)
    BY FS_Interval, ConstantFacts DEF Ages
  <2> HIDE DEF due
  <2>4. SumFunctionOnSet(due, Ages) = SumFunctionOnSet(AgedBy(arrived, 0), Ages)
    BY <2>2, <2>3, SumOfAgreeing
  <2> QED
    BY <2>1, <2>4 DEF Aged
<1>5. Aged(arrived, 0) \in Nat
  BY <1>1, AgedTypes
<1> HIDE DEF r, due
<1>6. Window * Out(terms) <= SumFunction(due)
  BY <1>2, <1>3, <1>4, <1>5
<1> QED
  BY <1>6 DEF NeverAheadOfStream, Out, due

(* Every amount the program and the keeper's run compute with stays within its *)
(* type: what one reads from the chain, decides and holds is never below zero. *)
THEOREM FeedTypeCorrect == Spec => []TypeOK
<1>1. FullInv => TypeOK
  <2> SUFFICES ASSUME FullInv PROVE TypeOK
    OBVIOUS
  <2>1. ChainOK /\ arrived \in [0..Window -> Nat]
    BY DEF FullInv, SafeInv, Schedule, Arrivals, Ages
  <2>2. KeeperOK
    BY DEF FullInv, RunOK, KeeperOK, Visits
  <2> QED
    BY <2>1, <2>2 DEF TypeOK
<1> QED
  BY <1>1, FullInvariance, PTL

(* The holders' USDC is never released faster than over the window since it    *)
(* came: re-spreading what is locked at every arrival, however often, partial  *)
(* releases, returns and feeds never put the stream ahead of its schedule.     *)
THEOREM StreamNeverAhead == Spec => []NeverAheadOfStream
BY FullInvariance, ScheduleIsKept, PTL
=============================================================================
