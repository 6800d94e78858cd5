--------------------------- MODULE FeeMath_proofs ---------------------------
(* What the arithmetic of FeeMath guarantees for all inputs; then the laws of  *)
(* the sums that the ledgers of the other modules are built from: what         *)
(* SumFunctionOnSet of the community modules computes for every finite set;    *)
(* and, from both, what Apportionment gives a manager's recipients.            *)
EXTENDS Apportionment, FiniteSetTheorems, WellFoundedInduction, TLAPS

(* Arithmetic facts stated once: the solver is given products one at a time.   *)
LEMMA ProductIsNat == ASSUME NEW x \in Nat, NEW y \in Nat
  PROVE  x * y \in Nat
BY SMT

LEMMA ProductCommutes == ASSUME NEW x \in Int, NEW y \in Int
  PROVE  x * y = y * x
BY SMT

LEMMA ProductDistributes == ASSUME NEW x \in Int, NEW y \in Int, NEW k \in Int
  PROVE  /\ (x + y) * k = x * k + y * k
         /\ (x - y) * k = x * k - y * k
BY SMT

LEMMA ProductMonotone == ASSUME NEW x \in Nat, NEW y \in Nat, NEW k \in Nat, x <= y
  PROVE  x * k <= y * k
BY SMT

LEMMA ProductCancels ==
  ASSUME NEW x \in Nat, NEW y \in Nat, NEW k \in Nat \ {0}, x * k <= y * k
  PROVE  x <= y
BY SMT

LEMMA DivisionFacts == ASSUME NEW n \in Nat, NEW d \in Nat \ {0}
  PROVE  /\ n \div d \in Nat
         /\ (n \div d) * d <= n
         /\ n < (n \div d) * d + d
BY SMT

-----------------------------------------------------------------------------
(* mul_div_floor and mul_div_ceil are the two integers around a * b / c.       *)
LEMMA FloorFacts == ASSUME NEW a \in Nat, NEW b \in Nat, NEW c \in Nat \ {0}
  PROVE  /\ MulDivFloor(a, b, c) \in Nat
         /\ MulDivFloor(a, b, c) * c <= a * b
         /\ a * b < MulDivFloor(a, b, c) * c + c
<1>1. a * b \in Nat
  BY ProductIsNat
<1> QED
  BY <1>1, DivisionFacts, Zenon DEF MulDivFloor

LEMMA CeilFacts == ASSUME NEW a \in Nat, NEW b \in Nat, NEW c \in Nat \ {0}
  PROVE  /\ MulDivCeil(a, b, c) \in Nat
         /\ a * b <= MulDivCeil(a, b, c) * c
         /\ MulDivCeil(a, b, c) * c < a * b + c
<1> DEFINE n == a * b + (c - 1)
<1>1. a * b \in Nat
  BY ProductIsNat
<1>2. n \in Nat
  BY <1>1
<1>3. /\ n \div c \in Nat
      /\ (n \div c) * c <= n
      /\ n < (n \div c) * c + c
  BY <1>2, DivisionFacts
<1>4. MulDivCeil(a, b, c) = n \div c
  BY DEF MulDivCeil
<1>5. (n \div c) * c \in Nat
  BY <1>3, ProductIsNat
<1> HIDE DEF n
<1>6. n = a * b + (c - 1)
  BY DEF n
<1> QED
  <2> DEFINE q == n \div c
             qc == (n \div c) * c
             ab == a * b
  <2>1. qc \in Nat /\ ab \in Nat /\ n = ab + (c - 1) /\ qc <= n /\ n < qc + c
    BY <1>1, <1>3, <1>5, <1>6
  <2> HIDE DEF qc, ab
  <2>2. ab <= qc /\ qc < ab + c
    BY <2>1, <1>2
  <2> QED
    BY <2>2, <1>3, <1>4 DEF qc, ab

(* Nobody withdraws more of an asset than the vault holds.                     *)
LEMMA FloorAtMost ==
  ASSUME NEW a \in Nat, NEW b \in Nat, NEW c \in Nat \ {0}, a <= c
  PROVE  MulDivFloor(a, b, c) <= b
<1> DEFINE f == MulDivFloor(a, b, c)
<1>1. f \in Nat /\ f * c <= a * b
  BY FloorFacts
<1>2. a * b <= c * b
  BY ProductMonotone
<1>3. c * b = b * c
  BY ProductCommutes
<1>4. f * c \in Nat /\ a * b \in Nat /\ b * c \in Nat
  BY <1>1, ProductIsNat
<1>5. f * c <= b * c
  BY <1>1, <1>2, <1>3, <1>4
<1> QED
  BY <1>1, <1>5, ProductCancels

(* A withdrawal by every share takes everything.                               *)
LEMMA FloorOfWhole == ASSUME NEW b \in Nat, NEW c \in Nat \ {0}
  PROVE  MulDivFloor(c, b, c) = b
<1> DEFINE f == MulDivFloor(c, b, c)
<1>1. f \in Nat /\ f <= b
  BY FloorFacts, FloorAtMost
<1>2. c * b < f * c + c
  BY FloorFacts
<1>3. SUFFICES ASSUME f + 1 <= b PROVE FALSE
  BY <1>1
<1>4. (f + 1) * c <= b * c
  BY <1>1, <1>3, ProductMonotone
<1>5. (f + 1) * c = f * c + c
  BY <1>1
<1>6. c * b = b * c
  BY ProductCommutes
<1>7. f * c \in Nat /\ b * c \in Nat
  BY <1>1, ProductIsNat
<1> QED
  BY <1>2, <1>4, <1>5, <1>6, <1>7

(* A withdrawal of n of s shares, rounded down, leaves the others their part   *)
(* of the vault and less than a unit more.                                     *)
LEMMA WithdrawalAtFairPrice ==
  ASSUME NEW v \in Nat, NEW s \in Nat \ {0}, NEW n \in Nat, n <= s
  PROVE  LET kept == (v - MulDivFloor(n, v, s)) * s IN
         v * (s - n) <= kept /\ kept < v * (s - n) + s
<1> DEFINE f == MulDivFloor(n, v, s)
<1>1. f \in Nat /\ f * s <= n * v /\ n * v < f * s + s
  BY FloorFacts
<1> HIDE DEF f
<1>2. (v - f) * s = v * s - f * s
  BY <1>1, ProductDistributes
<1>3. v * (s - n) = v * s - n * v
  BY ProductDistributes, ProductCommutes, SMT
<1>4. v * s \in Nat /\ f * s \in Nat /\ n * v \in Nat
  BY <1>1, ProductIsNat
<1>5. v * (s - n) <= (v - f) * s /\ (v - f) * s < v * (s - n) + s
  <2> DEFINE vs == v * s
             fs == f * s
             nv == n * v
  <2>1. vs \in Nat /\ fs \in Nat /\ nv \in Nat /\ fs <= nv /\ nv < fs + s
    BY <1>1, <1>4
  <2>2. (v - f) * s = vs - fs /\ v * (s - n) = vs - nv
    BY <1>2, <1>3
  <2> HIDE DEF vs, fs, nv
  <2>3. vs - nv <= vs - fs /\ vs - fs < (vs - nv) + s
    BY <2>1
  <2> QED
    BY <2>2, <2>3
<1> QED
  BY <1>5 DEF f

(* A deposit for n new shares, rounded up, brings their part and less than a   *)
(* unit more.                                                                  *)
LEMMA DepositAtFairPrice ==
  ASSUME NEW v \in Nat, NEW s \in Nat \ {0}, NEW n \in Nat
  PROVE  LET kept == (v + MulDivCeil(n, v, s)) * s IN
         v * (s + n) <= kept /\ kept < v * (s + n) + s
<1> DEFINE f == MulDivCeil(n, v, s)
<1>1. f \in Nat /\ n * v <= f * s /\ f * s < n * v + s
  BY CeilFacts
<1> HIDE DEF f
<1>2. (v + f) * s = v * s + f * s
  BY <1>1, ProductDistributes
<1>3. v * (s + n) = v * s + n * v
  BY ProductDistributes, ProductCommutes, SMT
<1>4. v * s \in Nat /\ f * s \in Nat /\ n * v \in Nat
  BY <1>1, ProductIsNat
<1>5. v * (s + n) <= (v + f) * s /\ (v + f) * s < v * (s + n) + s
  <2> DEFINE vs == v * s
             fs == f * s
             nv == n * v
  <2>1. vs \in Nat /\ fs \in Nat /\ nv \in Nat /\ nv <= fs /\ fs < nv + s
    BY <1>1, <1>4
  <2>2. (v + f) * s = vs + fs /\ v * (s + n) = vs + nv
    BY <1>2, <1>3
  <2> HIDE DEF vs, fs, nv
  <2>3. vs + nv <= vs + fs /\ vs + fs < (vs + nv) + s
    BY <2>1
  <2> QED
    BY <2>2, <2>3
<1> QED
  BY <1>5 DEF f

(* A fee of at most half leaves something of two shares or more, though it is  *)
(* rounded up.                                                                 *)
LEMMA HalfFeeLeavesSome ==
  ASSUME NEW n \in Nat, n >= 2, NEW r \in Nat, NEW d \in Nat \ {0}, 2 * r <= d
  PROVE  MulDivCeil(n, r, d) < n
<1> DEFINE q == MulDivCeil(n, r, d)
           x == n * r
<1>1. q \in Nat /\ q * d < x + d
  BY CeilFacts
<1>2. x \in Nat /\ 2 * x = (2 * r) * n /\ (2 * r) * n <= d * n
  <2>1. 2 * r \in Nat
    OBVIOUS
  <2>2. (2 * r) * n <= d * n
    BY <2>1, ProductMonotone
  <2>3. x \in Nat
    BY ProductIsNat
  <2>4. 2 * x = (2 * r) * n
    BY SMT
  <2> QED
    BY <2>2, <2>3, <2>4
<1> HIDE DEF q, x
<1>3. SUFFICES ASSUME n <= q PROVE FALSE
  BY <1>1 DEF q
<1>4. n * d <= q * d /\ n * d \in Nat /\ d * n = n * d /\ 2 * d <= n * d
  BY <1>1, <1>3, ProductMonotone, ProductIsNat, ProductCommutes
<1> DEFINE nd == n * d
           qd == q * d
<1>5. nd \in Nat /\ qd \in Nat /\ nd <= qd /\ qd < x + d /\ 2 * x <= nd /\ 2 * d <= nd
  BY <1>1, <1>2, <1>4, ProductIsNat
<1> HIDE DEF nd, qd
<1> QED
  BY <1>2, <1>5

(* What is rounded up of a larger amount is no smaller.                        *)
LEMMA CeilMonotone ==
  ASSUME NEW a \in Nat, NEW b \in Nat, a <= b, NEW r \in Nat, NEW d \in Nat \ {0}
  PROVE  MulDivCeil(a, r, d) <= MulDivCeil(b, r, d)
<1> DEFINE p == MulDivCeil(a, r, d)
           q == MulDivCeil(b, r, d)
<1>1. p \in Nat /\ q \in Nat /\ p * d < a * r + d /\ b * r <= q * d
  BY CeilFacts
<1>2. a * r \in Nat /\ b * r \in Nat /\ a * r <= b * r
  BY ProductIsNat, ProductMonotone
<1> HIDE DEF p, q
<1> SUFFICES ASSUME q + 1 <= p PROVE FALSE
  BY <1>1 DEF p, q
<1>3. (q + 1) * d <= p * d /\ (q + 1) * d = q * d + d
  BY <1>1, ProductMonotone, ProductDistributes, SMT
<1> DEFINE ar == a * r
           br == b * r
           pd == p * d
           qd == q * d
<1>4. /\ ar \in Nat /\ br \in Nat /\ pd \in Nat /\ qd \in Nat
      /\ ar <= br /\ pd < ar + d /\ br <= qd /\ qd + d <= pd
  BY <1>1, <1>2, <1>3, ProductIsNat
<1> HIDE DEF ar, br, pd, qd
<1> QED
  BY <1>4

-----------------------------------------------------------------------------
(* split_configured_bps: the total charged is the larger of the configured     *)
(* rate and the protocol's minimum, and the protocol gets at least its minimum.*)
LEMMA ConfiguredSplit == ASSUME NEW configured \in Nat, NEW minimum \in Nat
  PROVE  /\ SplitConfiguredBps(configured, minimum) \in [protocol : Nat, manager : Nat]
         /\ SplitConfiguredBps(configured, minimum).protocol >= minimum
         /\ EffectiveBps(configured, minimum) \in Nat
         /\ EffectiveBps(configured, minimum) =
              IF configured >= minimum THEN configured ELSE minimum
<1> DEFINE half == configured \div 2
<1>1. half \in Nat /\ half <= configured
  BY SMT
<1> QED
  BY <1>1, SMT DEF SplitConfiguredBps, EffectiveBps, Split

(* split_redemption_bps never charges more than is configured.                 *)
LEMMA RedemptionSplit == ASSUME NEW configured \in Nat, NEW minimum \in Nat
  PROVE  /\ SplitRedemptionBps(configured, minimum) \in [protocol : Nat, manager : Nat]
         /\ SplitRedemptionBps(configured, minimum).protocol
              + SplitRedemptionBps(configured, minimum).manager = configured
<1> DEFINE u == SplitConfiguredBps(configured, minimum).protocol
<1>1. u \in Nat
  BY ConfiguredSplit
<1> HIDE DEF u
<1>2. CASE configured = 0
  BY <1>2 DEF SplitRedemptionBps, Split
<1>3. CASE configured # 0
  <2> DEFINE p == IF u <= configured THEN u ELSE configured
  <2>1. SplitRedemptionBps(configured, minimum) = Split(p, configured - p)
    BY <1>3 DEF SplitRedemptionBps, u
  <2>2. p \in Nat /\ configured - p \in Nat /\ p + (configured - p) = configured
    BY <1>1
  <2> HIDE DEF p
  <2> QED
    BY <2>1, <2>2 DEF Split
<1> QED
  BY <1>2, <1>3

(* split_by_weight (and split_total_fee) hands out the amount exactly, and     *)
(* never takes more from a counter than the counter holds.                     *)
LEMMA WeightSplit ==
  ASSUME NEW amount \in Nat, NEW p \in Nat, NEW m \in Nat
  PROVE  LET s == SplitByWeight(amount, p, m) IN
         /\ s \in [protocol : Nat, manager : Nat]
         /\ s.protocol + s.manager = IF p + m = 0 THEN 0 ELSE amount
         /\ s.protocol + s.manager <= amount
         /\ amount <= p + m => s.protocol <= p /\ s.manager <= m
<1>1. CASE p + m = 0
  BY <1>1 DEF SplitByWeight, Split
<1>2. CASE p + m # 0
  <2> DEFINE t == p + m
             f == MulDivFloor(amount, m, t)
  <2>1. t \in Nat \ {0} /\ m <= t /\ p <= t
    BY <1>2
  <2>2. f \in Nat /\ f * t <= amount * m /\ amount * m < f * t + t
    BY <2>1, FloorFacts
  <2>3. f <= amount
    <3>1. MulDivFloor(m, amount, t) <= amount
      BY <2>1, FloorAtMost
    <3>2. m * amount = amount * m
      BY ProductCommutes
    <3>3. MulDivFloor(m, amount, t) = f
      BY <3>2, Zenon DEF MulDivFloor
    <3> QED
      BY <3>1, <3>3
  <2>4. SplitByWeight(amount, p, m) = Split(amount - f, f)
    BY <1>2 DEF SplitByWeight
  <2>5. ASSUME amount <= t
        PROVE  f <= m /\ amount - f <= p
    <3>1. f <= m
      BY <2>1, <2>5, FloorAtMost
    <3>a. f \in Nat /\ amount - f \in Nat
      BY <2>2, <2>3
    <3>2. SUFFICES ASSUME p + 1 <= amount - f PROVE FALSE
      <4> HIDE DEF f, t
      <4> QED
        BY <3>1, <3>a
    <3>3. (amount - f) * t = amount * t - f * t
      BY <2>1, <2>2, ProductDistributes
    <3>4. amount * t = p * amount + m * amount
      BY ProductDistributes, ProductCommutes, SMT
    <3>5. (p + 1) * t <= (amount - f) * t
      <4> HIDE DEF f, t
      <4>1. p + 1 \in Nat /\ amount - f \in Nat /\ t \in Nat
        BY <2>1, <3>a
      <4> QED
        BY <4>1, <3>2, ProductMonotone
    <3>6. (p + 1) * t = p * t + t
      BY <2>1
    <3>7. p * amount <= p * t
      BY <2>1, <2>5, ProductMonotone, ProductCommutes
    <3>8. m * amount = amount * m
      BY ProductCommutes
    <3>9. /\ p * t \in Nat /\ f * t \in Nat /\ amount * t \in Nat
          /\ p * amount \in Nat /\ amount * m \in Nat
      BY <2>1, <2>2, ProductIsNat
    <3> HIDE DEF f, t
    <3> QED
      BY <2>1, <2>2, <3>3, <3>4, <3>5, <3>6, <3>7, <3>8, <3>9
  <2>6. amount - f \in Nat /\ (amount - f) + f = amount
    BY <2>2, <2>3
  <2> HIDE DEF f
  <2> QED
    BY <1>2, <2>2, <2>4, <2>5, <2>6 DEF Split
<1> QED
  BY <1>1, <1>2

(* split_total_fee attributes no more than the fee.                            *)
Fees == [protocol : Nat, manager : Nat]

LEMMA TotalFeeSplit == ASSUME NEW fee \in Nat, NEW rates \in Fees
  PROVE  /\ SplitTotalFee(fee, rates) \in Fees
         /\ SplitTotalFee(fee, rates).protocol + SplitTotalFee(fee, rates).manager <= fee
<1>1. rates.protocol \in Nat /\ rates.manager \in Nat
  BY DEF Fees
<1> DEFINE s == SplitByWeight(fee, rates.protocol, rates.manager)
<1>2. s \in [protocol : Nat, manager : Nat] /\ s.protocol + s.manager <= fee
  BY <1>1, WeightSplit
<1>3. s = SplitTotalFee(fee, rates)
  BY DEF SplitTotalFee
<1> HIDE DEF s
<1> QED
  BY <1>2, <1>3 DEF Fees

-----------------------------------------------------------------------------
(* Sums.  What a fold computes is known by induction on the set.  The library's *)
(* induction theorems take the property as an operator; here it is given as    *)
(* the set of the subsets that have it, and the smallest subset without it is  *)
(* what the well-founded order of finite subsets provides.                     *)

(* A set of subsets that holds a set whenever it holds all smaller ones holds  *)
(* every finite set: induction for a property given as a set.                  *)
LEMMA SetInduction ==
  ASSUME NEW S, IsFiniteSet(S), NEW Good,
         \A T \in SUBSET S : (\A U \in SUBSET T : U # T => U \in Good) => T \in Good
  PROVE  S \in Good
<1> DEFINE Bad == {T \in SUBSET S : T \notin Good}
<1>1. SUFFICES ASSUME Bad # {} PROVE FALSE
  BY <1>1
<1>2. Bad \subseteq FiniteSubsetsOf(S)
  BY FS_FiniteSubsetsOfFinite
<1>3. IsWellFoundedOn(StrictSubsetOrdering(S), FiniteSubsetsOf(S))
  BY FS_StrictSubsetOrderingWellFounded
<1>4. \E T \in Bad : \A U \in Bad : ~ (<<U, T>> \in StrictSubsetOrdering(S))
  <2> HIDE DEF Bad
  <2> QED BY <1>1, <1>2, <1>3, WFMin
<1>5. PICK T \in Bad : \A U \in Bad : <<U, T>> \notin StrictSubsetOrdering(S)
  BY <1>4
<1>6. \A U \in SUBSET T : U # T => U \in Good
  BY <1>5 DEF StrictSubsetOrdering
<1> QED
  BY <1>5, <1>6

Some(S) == CHOOSE x \in S : TRUE

(* iter is the function that SumFunctionOnSet evaluates over the subsets of S. *)
IsSum(iter, f, S) ==
  iter = [s \in SUBSET S |->
            IF s = {} THEN 0 ELSE f[Some(s)] + iter[s \ {Some(s)}]]

LEMMA SumIsChosen == ASSUME NEW f, NEW S
  PROVE  SumFunctionOnSet(f, S) = (CHOOSE iter : IsSum(iter, f, S))[S]
BY DEF SumFunctionOnSet, FoldFunctionOnSet, MapThenFoldSet, IsSum, Some

LEMMA SomeIsMember == ASSUME NEW S, S # {}
  PROVE  Some(S) \in S
BY DEF Some

(* Two such functions agree wherever both are defined.                         *)
LEMMA SumIsUnique ==
  ASSUME NEW f, NEW S, NEW T, NEW g, NEW h, IsSum(g, f, S), IsSum(h, f, T),
         NEW U \in SUBSET S, U \in SUBSET T, IsFiniteSet(U)
  PROVE  g[U] = h[U]
<1> DEFINE Good == {V \in SUBSET U : g[V] = h[V]}
<1>1. ASSUME NEW V \in SUBSET U, \A W \in SUBSET V : W # V => W \in Good
      PROVE  V \in Good
  <2>1. /\ g[V] = IF V = {} THEN 0 ELSE f[Some(V)] + g[V \ {Some(V)}]
        /\ h[V] = IF V = {} THEN 0 ELSE f[Some(V)] + h[V \ {Some(V)}]
    BY DEF IsSum
  <2>2. CASE V = {}
    BY <2>1, <2>2
  <2>3. CASE V # {}
    <3>1. V \ {Some(V)} \in Good
      BY <1>1, <2>3, SomeIsMember
    <3> QED
      BY <2>1, <2>3, <3>1
  <2> QED
    BY <2>2, <2>3
<1>2. U \in Good
  <2> HIDE DEF Good
  <2> QED BY <1>1, SetInduction
<1> QED
  BY <1>2

LEMMA SumExists == ASSUME NEW f, NEW S, IsFiniteSet(S)
  PROVE  \E iter : IsSum(iter, f, S)
<1> DEFINE Good == {T \in SUBSET S : \E iter : IsSum(iter, f, T)}
<1>1. ASSUME NEW T \in SUBSET S, \A U \in SUBSET T : U # T => U \in Good
      PROVE  T \in Good
  <2> DEFINE h(U) == CHOOSE iter : IsSum(iter, f, U)
             first == IF T = {} THEN 0
                      ELSE f[Some(T)] + h(T \ {Some(T)})[T \ {Some(T)}]
             g == [U \in SUBSET T |-> IF U = T THEN first ELSE h(U)[U]]
  <2>1. ASSUME NEW U \in SUBSET T, U # T PROVE IsSum(h(U), f, U)
    <3>1. \E iter : IsSum(iter, f, U)
      BY <1>1, <2>1
    <3> QED
      BY <3>1
  <2>2. ASSUME NEW U \in SUBSET T
        PROVE  g[U] = IF U = {} THEN 0 ELSE f[Some(U)] + g[U \ {Some(U)}]
    <3> DEFINE rest == U \ {Some(U)}
    <3>1. CASE U = {}
      <4>1. CASE T = {}
        BY <3>1, <4>1
      <4>2. CASE T # {}
        <5>1. IsSum(h(U), f, U)
          BY <2>1, <3>1, <4>2
        <5>2. h(U)[U] = 0
          BY <5>1, <3>1 DEF IsSum
        <5> QED
          BY <5>2, <3>1, <4>2
      <4> QED
        BY <4>1, <4>2
    <3>2. CASE U # {}
      <4>1. /\ rest \in SUBSET U /\ rest # U
            /\ rest \in SUBSET T /\ rest # T
        BY <3>2, SomeIsMember
      <4>2. g[rest] = h(rest)[rest]
        BY <4>1
      <4>3. CASE U = T
        BY <3>2, <4>2, <4>3
      <4>4. CASE U # T
        <5>1. IsSum(h(U), f, U) /\ IsSum(h(rest), f, rest)
          BY <2>1, <4>1, <4>4
        <5>2. h(U)[U] = f[Some(U)] + h(U)[rest]
          <6> HIDE DEF h
          <6> QED BY <5>1, <3>2 DEF IsSum
        <5>3. IsFiniteSet(rest)
          BY <4>1, FS_Subset
        <5>4. h(U)[rest] = h(rest)[rest]
          <6> HIDE DEF h, rest
          <6> QED BY <5>1, <5>3, <4>1, SumIsUnique
        <5> QED
          BY <3>2, <4>2, <4>4, <5>2, <5>4
      <4> QED
        BY <4>3, <4>4
    <3> QED
      BY <3>1, <3>2
  <2>3. IsSum(g, f, T)
    <3> HIDE DEF h, first
    <3>1. g = [U \in SUBSET T |->
                 IF U = {} THEN 0 ELSE f[Some(U)] + g[U \ {Some(U)}]]
      BY <2>2
    <3> QED
      BY <3>1 DEF IsSum
  <2> QED
    BY <2>3
<1>2. S \in Good
  <2> HIDE DEF Good
  <2> QED BY <1>1, SetInduction
<1> QED
  BY <1>2

(* The two equations that define a sum.                                        *)
LEMMA SumOfNothing == ASSUME NEW f
  PROVE  SumFunctionOnSet(f, {}) = 0
<1>1. IsSum(CHOOSE iter : IsSum(iter, f, {}), f, {})
  BY SumExists, FS_EmptySet
<1> QED
  BY <1>1, SumIsChosen DEF IsSum

LEMMA SumOfSome == ASSUME NEW f, NEW S, IsFiniteSet(S), S # {}
  PROVE  SumFunctionOnSet(f, S) = f[Some(S)] + SumFunctionOnSet(f, S \ {Some(S)})
<1> DEFINE rest == S \ {Some(S)}
           g(T) == CHOOSE iter : IsSum(iter, f, T)
<1>1. IsFiniteSet(rest) /\ rest \in SUBSET S
  BY FS_Subset
<1>2. IsSum(g(S), f, S) /\ IsSum(g(rest), f, rest)
  BY <1>1, SumExists
<1>3. g(S)[S] = f[Some(S)] + g(S)[rest]
  <2> HIDE DEF g
  <2> QED BY <1>2 DEF IsSum
<1>4. g(S)[rest] = g(rest)[rest]
  <2> HIDE DEF g, rest
  <2> QED BY <1>1, <1>2, SumIsUnique
<1> QED
  BY <1>3, <1>4, SumIsChosen

-----------------------------------------------------------------------------
(* Each law goes by induction on the set that is summed over.                  *)
LEMMA SumOfAgreeing ==
  ASSUME NEW S, IsFiniteSet(S), NEW f, NEW g, \A x \in S : f[x] = g[x]
  PROVE  SumFunctionOnSet(f, S) = SumFunctionOnSet(g, S)
<1> DEFINE Good == {T \in SUBSET S : SumFunctionOnSet(f, T) = SumFunctionOnSet(g, T)}
<1>1. ASSUME NEW T \in SUBSET S, \A U \in SUBSET T : U # T => U \in Good
      PROVE  T \in Good
  <2>1. CASE T = {}
    BY <2>1, SumOfNothing
  <2>2. CASE T # {}
    <3>1. Some(T) \in T /\ IsFiniteSet(T)
      BY <2>2, SomeIsMember, FS_Subset
    <3>2. T \ {Some(T)} \in Good
      BY <1>1, <3>1
    <3> QED
      BY <3>1, <3>2, <2>2, SumOfSome
  <2> QED
    BY <2>1, <2>2
<1>2. S \in Good
  <2> HIDE DEF Good
  <2> QED BY <1>1, SetInduction
<1> QED
  BY <1>2

LEMMA SumIsInt ==
  ASSUME NEW S, IsFiniteSet(S), NEW f, \A x \in S : f[x] \in Int
  PROVE  SumFunctionOnSet(f, S) \in Int
<1> DEFINE Good == {T \in SUBSET S : SumFunctionOnSet(f, T) \in Int}
<1>1. ASSUME NEW T \in SUBSET S, \A U \in SUBSET T : U # T => U \in Good
      PROVE  T \in Good
  <2>1. CASE T = {}
    BY <2>1, SumOfNothing
  <2>2. CASE T # {}
    <3>1. Some(T) \in T /\ IsFiniteSet(T)
      BY <2>2, SomeIsMember, FS_Subset
    <3>2. T \ {Some(T)} \in Good
      BY <1>1, <3>1
    <3>3. SumFunctionOnSet(f, T) = f[Some(T)] + SumFunctionOnSet(f, T \ {Some(T)})
      BY <3>1, <2>2, SumOfSome
    <3> QED
      BY <3>1, <3>2, <3>3
  <2> QED
    BY <2>1, <2>2
<1>2. S \in Good
  <2> HIDE DEF Good
  <2> QED BY <1>1, SetInduction
<1> QED
  BY <1>2

(* Any member may be taken out, not only the one the sum takes first.          *)
LEMMA SumWithout ==
  ASSUME NEW S, IsFiniteSet(S), NEW f, \A x \in S : f[x] \in Int, NEW a \in S
  PROVE  SumFunctionOnSet(f, S) = f[a] + SumFunctionOnSet(f, S \ {a})
<1> DEFINE Good == {T \in SUBSET S : \A x \in T :
              SumFunctionOnSet(f, T) = f[x] + SumFunctionOnSet(f, T \ {x})}
<1>1. ASSUME NEW T \in SUBSET S, \A U \in SUBSET T : U # T => U \in Good
      PROVE  T \in Good
  <2> SUFFICES ASSUME NEW x \in T
               PROVE  SumFunctionOnSet(f, T) = f[x] + SumFunctionOnSet(f, T \ {x})
    OBVIOUS
  <2>1. IsFiniteSet(T)
    BY FS_Subset
  <2>2. PICK y \in T :
          SumFunctionOnSet(f, T) = f[y] + SumFunctionOnSet(f, T \ {y})
    BY <2>1, SumOfSome, SomeIsMember
  <2>3. CASE x = y
    <3>1. f[x] = f[y] /\ SumFunctionOnSet(f, T \ {x}) = SumFunctionOnSet(f, T \ {y})
      BY <2>3
    <3> QED
      BY <2>2, <3>1
  <2>4. CASE x # y
    <3>1. T \ {y} \in Good /\ T \ {x} \in Good
      BY <1>1, <2>1
    <3>2. /\ SumFunctionOnSet(f, T \ {y}) = f[x] + SumFunctionOnSet(f, (T \ {y}) \ {x})
          /\ SumFunctionOnSet(f, T \ {x}) = f[y] + SumFunctionOnSet(f, (T \ {x}) \ {y})
      BY <3>1, <2>1, <2>4
    <3>3. (T \ {y}) \ {x} = (T \ {x}) \ {y}
      OBVIOUS
    <3>4. IsFiniteSet((T \ {x}) \ {y}) /\ \A z \in (T \ {x}) \ {y} : f[z] \in Int
      BY <2>1, FS_Subset
    <3>5. SumFunctionOnSet(f, (T \ {x}) \ {y}) \in Int
      BY <3>4, SumIsInt
    <3>6. f[x] \in Int /\ f[y] \in Int
      BY <2>1
    <3> DEFINE rest == SumFunctionOnSet(f, (T \ {x}) \ {y})
               less == SumFunctionOnSet(f, T \ {x})
               more == SumFunctionOnSet(f, T \ {y})
               all  == SumFunctionOnSet(f, T)
    <3>7. /\ all = f[y] + more /\ more = f[x] + rest
          /\ less = f[y] + rest /\ rest \in Int
      BY <2>2, <3>2, <3>3, <3>5
    <3> HIDE DEF rest, less, more, all
    <3>8. all = f[x] + less
      BY <3>6, <3>7
    <3> QED
      BY <3>8 DEF all, less
  <2> QED
    BY <2>3, <2>4
<1>2. S \in Good
  <2> HIDE DEF Good
  <2> QED BY <1>1, SetInduction
<1> QED
  BY <1>2

(* A sum of sums, and of multiples.                                            *)
LEMMA SumOfPairs ==
  ASSUME NEW S, IsFiniteSet(S), NEW f, NEW g, NEW h,
         \A x \in S : f[x] \in Int /\ g[x] \in Int /\ h[x] = f[x] + g[x]
  PROVE  SumFunctionOnSet(h, S) = SumFunctionOnSet(f, S) + SumFunctionOnSet(g, S)
<1> DEFINE Good == {T \in SUBSET S : SumFunctionOnSet(h, T)
                       = SumFunctionOnSet(f, T) + SumFunctionOnSet(g, T)}
<1>1. ASSUME NEW T \in SUBSET S, \A U \in SUBSET T : U # T => U \in Good
      PROVE  T \in Good
  <2>1. CASE T = {}
    <3>1. SumFunctionOnSet(h, T) = 0 /\ SumFunctionOnSet(f, T) = 0 /\ SumFunctionOnSet(g, T) = 0
      BY <2>1, SumOfNothing
    <3> QED
      BY <3>1
  <2>2. CASE T # {}
    <3> DEFINE y == Some(T)
               rest == T \ {y}
    <3>1. y \in T /\ IsFiniteSet(T) /\ IsFiniteSet(rest)
      BY <2>2, SomeIsMember, FS_Subset
    <3>2. rest \in Good
      BY <1>1, <3>1
    <3>3. /\ SumFunctionOnSet(h, T) = h[y] + SumFunctionOnSet(h, rest)
          /\ SumFunctionOnSet(f, T) = f[y] + SumFunctionOnSet(f, rest)
          /\ SumFunctionOnSet(g, T) = g[y] + SumFunctionOnSet(g, rest)
      BY <3>1, <2>2, SumOfSome
    <3>4. SumFunctionOnSet(f, rest) \in Int /\ SumFunctionOnSet(g, rest) \in Int
      BY <3>1, SumIsInt
    <3>5. f[y] \in Int /\ g[y] \in Int /\ h[y] = f[y] + g[y]
      BY <3>1
    <3>6. SumFunctionOnSet(h, rest) = SumFunctionOnSet(f, rest) + SumFunctionOnSet(g, rest)
      BY <3>2
    <3> HIDE DEF y, rest
    <3>7. SumFunctionOnSet(h, T) = SumFunctionOnSet(f, T) + SumFunctionOnSet(g, T)
      BY <3>3, <3>4, <3>5, <3>6
    <3> QED
      BY <3>7
  <2> QED
    BY <2>1, <2>2
<1>2. S \in Good
  <2> HIDE DEF Good
  <2> QED BY <1>1, SetInduction
<1> QED
  BY <1>2

LEMMA SumMonotone ==
  ASSUME NEW S, IsFiniteSet(S), NEW f, NEW g,
         \A x \in S : f[x] \in Int /\ g[x] \in Int /\ f[x] <= g[x]
  PROVE  SumFunctionOnSet(f, S) <= SumFunctionOnSet(g, S)
<1> DEFINE Good == {T \in SUBSET S : SumFunctionOnSet(f, T) <= SumFunctionOnSet(g, T)}
<1>1. ASSUME NEW T \in SUBSET S, \A U \in SUBSET T : U # T => U \in Good
      PROVE  T \in Good
  <2>1. CASE T = {}
    <3>1. SumFunctionOnSet(f, T) = 0 /\ SumFunctionOnSet(g, T) = 0
      BY <2>1, SumOfNothing
    <3> QED
      BY <3>1
  <2>2. CASE T # {}
    <3> DEFINE y == Some(T)
               rest == T \ {y}
    <3>1. y \in T /\ IsFiniteSet(T) /\ IsFiniteSet(rest)
      BY <2>2, SomeIsMember, FS_Subset
    <3>2. rest \in Good
      BY <1>1, <3>1
    <3>3. /\ SumFunctionOnSet(f, T) = f[y] + SumFunctionOnSet(f, rest)
          /\ SumFunctionOnSet(g, T) = g[y] + SumFunctionOnSet(g, rest)
      BY <3>1, <2>2, SumOfSome
    <3>4. SumFunctionOnSet(f, rest) \in Int /\ SumFunctionOnSet(g, rest) \in Int
      BY <3>1, SumIsInt
    <3>5. f[y] \in Int /\ g[y] \in Int /\ f[y] <= g[y]
      BY <3>1
    <3>6. SumFunctionOnSet(f, rest) <= SumFunctionOnSet(g, rest)
      BY <3>2
    <3> HIDE DEF y, rest
    <3>7. SumFunctionOnSet(f, T) <= SumFunctionOnSet(g, T)
      BY <3>3, <3>4, <3>5, <3>6
    <3> QED
      BY <3>7
  <2> QED
    BY <2>1, <2>2
<1>2. S \in Good
  <2> HIDE DEF Good
  <2> QED BY <1>1, SetInduction
<1> QED
  BY <1>2

LEMMA SumOfZeros ==
  ASSUME NEW S, IsFiniteSet(S), NEW f, \A x \in S : f[x] = 0
  PROVE  SumFunctionOnSet(f, S) = 0
<1> DEFINE Good == {T \in SUBSET S : SumFunctionOnSet(f, T) = 0}
<1>1. ASSUME NEW T \in SUBSET S, \A U \in SUBSET T : U # T => U \in Good
      PROVE  T \in Good
  <2>1. CASE T = {}
    BY <2>1, SumOfNothing
  <2>2. CASE T # {}
    <3>1. Some(T) \in T /\ IsFiniteSet(T)
      BY <2>2, SomeIsMember, FS_Subset
    <3>2. T \ {Some(T)} \in Good
      BY <1>1, <3>1
    <3>3. SumFunctionOnSet(f, T) = f[Some(T)] + SumFunctionOnSet(f, T \ {Some(T)})
      BY <3>1, <2>2, SumOfSome
    <3> QED
      BY <3>1, <3>2, <3>3
  <2> QED
    BY <2>1, <2>2
<1>2. S \in Good
  <2> HIDE DEF Good
  <2> QED BY <1>1, SetInduction
<1> QED
  BY <1>2

LEMMA SumOfMultiples ==
  ASSUME NEW S, IsFiniteSet(S), NEW f, NEW h, NEW k \in Int,
         \A x \in S : f[x] \in Int /\ h[x] = k * f[x]
  PROVE  SumFunctionOnSet(h, S) = k * SumFunctionOnSet(f, S)
<1> DEFINE Good == {T \in SUBSET S : SumFunctionOnSet(h, T) = k * SumFunctionOnSet(f, T)}
<1>1. ASSUME NEW T \in SUBSET S, \A U \in SUBSET T : U # T => U \in Good
      PROVE  T \in Good
  <2>1. CASE T = {}
    <3>1. SumFunctionOnSet(h, T) = 0 /\ SumFunctionOnSet(f, T) = 0
      BY <2>1, SumOfNothing
    <3> QED
      BY <3>1
  <2>2. CASE T # {}
    <3> DEFINE y == Some(T)
               rest == T \ {y}
    <3>1. y \in T /\ IsFiniteSet(T) /\ IsFiniteSet(rest)
      BY <2>2, SomeIsMember, FS_Subset
    <3>2. rest \in Good
      BY <1>1, <3>1
    <3>3. /\ SumFunctionOnSet(h, T) = h[y] + SumFunctionOnSet(h, rest)
          /\ SumFunctionOnSet(f, T) = f[y] + SumFunctionOnSet(f, rest)
      BY <3>1, <2>2, SumOfSome
    <3>4. SumFunctionOnSet(f, rest) \in Int
      BY <3>1, SumIsInt
    <3>5. f[y] \in Int /\ h[y] = k * f[y]
      BY <3>1
    <3>6. SumFunctionOnSet(h, rest) = k * SumFunctionOnSet(f, rest)
      BY <3>2
    <3> HIDE DEF y, rest
    <3>7. \A m, n \in Int : k * (m + n) = k * m + k * n
      OBVIOUS
    <3>8. SumFunctionOnSet(h, T) = k * SumFunctionOnSet(f, T)
      BY <3>3, <3>4, <3>5, <3>6, <3>7
    <3> QED
      BY <3>8
  <2> QED
    BY <2>1, <2>2
<1>2. S \in Good
  <2> HIDE DEF Good
  <2> QED BY <1>1, SetInduction
<1> QED
  BY <1>2

(* What follows needs no induction of its own.                                 *)
LEMMA SumIsNat ==
  ASSUME NEW S, IsFiniteSet(S), NEW f, \A x \in S : f[x] \in Nat
  PROVE  /\ SumFunctionOnSet(f, S) \in Nat
         /\ \A a \in S : f[a] <= SumFunctionOnSet(f, S)
<1> DEFINE none == [x \in S |-> 0]
<1>1. ASSUME NEW T \in SUBSET S PROVE SumFunctionOnSet(f, T) \in Nat
  <2>1. IsFiniteSet(T)
    BY FS_Subset
  <2>2. SumFunctionOnSet(none, T) = 0
    BY <2>1, SumOfZeros
  <2>3. \A x \in T : none[x] \in Int /\ f[x] \in Int /\ none[x] <= f[x]
    OBVIOUS
  <2>4. SumFunctionOnSet(none, T) <= SumFunctionOnSet(f, T)
    <3> HIDE DEF none
    <3> QED BY <2>1, <2>3, SumMonotone
  <2>5. SumFunctionOnSet(f, T) \in Int
    BY <2>1, <2>3, SumIsInt
  <2> QED
    BY <2>2, <2>4, <2>5
<1>2. ASSUME NEW a \in S PROVE f[a] <= SumFunctionOnSet(f, S)
  <2>1. SumFunctionOnSet(f, S) = f[a] + SumFunctionOnSet(f, S \ {a})
    BY SumWithout
  <2>2. SumFunctionOnSet(f, S \ {a}) \in Nat
    BY <1>1
  <2> QED
    BY <2>1, <2>2
<1> QED
  BY <1>1, <1>2

LEMMA SumChangedAt ==
  ASSUME NEW S, IsFiniteSet(S), NEW f, NEW g, NEW a \in S,
         \A x \in S : f[x] \in Int /\ g[x] \in Int,
         \A x \in S \ {a} : f[x] = g[x]
  PROVE  SumFunctionOnSet(g, S) = SumFunctionOnSet(f, S) - f[a] + g[a]
<1> DEFINE rest == S \ {a}
<1>1. IsFiniteSet(rest)
  BY FS_Subset
<1>2. SumFunctionOnSet(f, rest) = SumFunctionOnSet(g, rest)
  BY <1>1, SumOfAgreeing
<1>3. /\ SumFunctionOnSet(f, S) = f[a] + SumFunctionOnSet(f, rest)
      /\ SumFunctionOnSet(g, S) = g[a] + SumFunctionOnSet(g, rest)
  BY SumWithout
<1>4. SumFunctionOnSet(f, rest) \in Int
  BY <1>1, SumIsInt
<1>5. f[a] \in Int /\ g[a] \in Int
  OBVIOUS
<1> HIDE DEF rest
<1> QED
  BY <1>2, <1>3, <1>4, <1>5

(* The same laws for the sum over a whole function.                            *)
LEMMA SumOverDomain == ASSUME NEW f, NEW S, DOMAIN f = S
  PROVE  SumFunction(f) = SumFunctionOnSet(f, S)
BY DEF SumFunction

(* Terms that are zero may be left out.                                        *)
LEMMA SumOfSubset ==
  ASSUME NEW S, IsFiniteSet(S), NEW f, \A x \in S : f[x] \in Int,
         NEW K \in SUBSET S, \A x \in S \ K : f[x] = 0
  PROVE  SumFunctionOnSet(f, S) = SumFunctionOnSet(f, K)
<1> DEFINE Good == {T \in SUBSET S :
                      SumFunctionOnSet(f, T) = SumFunctionOnSet(f, T \cap K)}
<1>1. ASSUME NEW T \in SUBSET S, \A U \in SUBSET T : U # T => U \in Good
      PROVE  T \in Good
  <2>1. CASE T = {}
    <3>1. T \cap K = T
      BY <2>1
    <3> QED
      BY <3>1
  <2>2. CASE T # {}
    <3>1. IsFiniteSet(T)
      BY FS_Subset
    <3>2. PICK y \in T :
            SumFunctionOnSet(f, T) = f[y] + SumFunctionOnSet(f, T \ {y})
      BY <3>1, <2>2, SumOfSome, SomeIsMember
    <3>3. SumFunctionOnSet(f, T \ {y}) = SumFunctionOnSet(f, (T \ {y}) \cap K)
      BY <1>1
    <3>4. CASE y \in K
      <4>1. (T \ {y}) \cap K = (T \cap K) \ {y} /\ y \in T \cap K
        BY <3>4
      <4>2. IsFiniteSet(T \cap K) /\ \A x \in T \cap K : f[x] \in Int
        BY <3>1, FS_Subset
      <4>3. SumFunctionOnSet(f, T \cap K)
              = f[y] + SumFunctionOnSet(f, (T \cap K) \ {y})
        BY <4>1, <4>2, SumWithout
      <4>4. SumFunctionOnSet(f, T) = SumFunctionOnSet(f, T \cap K)
        BY <3>2, <3>3, <4>1, <4>3
      <4> QED
        BY <4>4
    <3>5. CASE y \notin K
      <4>1. (T \ {y}) \cap K = T \cap K /\ f[y] = 0
        BY <3>5
      <4>2. IsFiniteSet(T \ {y}) /\ \A x \in T \ {y} : f[x] \in Int
        BY <3>1, FS_Subset
      <4>3. SumFunctionOnSet(f, T \ {y}) \in Int
        BY <4>2, SumIsInt
      <4>4. SumFunctionOnSet(f, T) = SumFunctionOnSet(f, T \ {y})
        BY <3>2, <4>1, <4>3
      <4> QED
        BY <3>3, <4>1, <4>4
    <3> QED
      BY <3>4, <3>5
  <2> QED
    BY <2>1, <2>2
<1>2. S \in Good
  <2> HIDE DEF Good
  <2> QED BY <1>1, SetInduction
<1>3. S \cap K = K
  OBVIOUS
<1> QED
  BY <1>2, <1>3

(* The terms may be numbered, or renamed, in any way that keeps them apart.    *)
LEMMA SumRenamed ==
  ASSUME NEW S, IsFiniteSet(S), NEW names, NEW name \in Bijection(S, names),
         NEW f, NEW g, \A x \in S : f[name[x]] \in Int /\ g[x] = f[name[x]]
  PROVE  SumFunctionOnSet(g, S) = SumFunctionOnSet(f, names)
<1>0. /\ name \in [S -> names] /\ \A x, y \in S : name[x] = name[y] => x = y
      /\ \A n \in names : \E x \in S : name[x] = n
  BY DEF Bijection, Injection, Surjection, IsInjective
<1> DEFINE named(T) == {name[x] : x \in T}
           Good == {T \in SUBSET S :
                      SumFunctionOnSet(g, T) = SumFunctionOnSet(f, named(T))}
<1>1. ASSUME NEW T \in SUBSET S, \A U \in SUBSET T : U # T => U \in Good
      PROVE  T \in Good
  <2>1. CASE T = {}
    <3>1. named(T) = {}
      BY <2>1
    <3> QED
      BY <2>1, <3>1, SumOfNothing
  <2>2. CASE T # {}
    <3>1. IsFiniteSet(T) /\ IsFiniteSet(named(T))
      <4>1. IsFiniteSet(T)
        BY FS_Subset
      <4>2. [x \in T |-> name[x]] \in Surjection(T, named(T))
        BY DEF Surjection
      <4> QED
        BY <4>1, <4>2, FS_Surjection
    <3>2. PICK y \in T :
            SumFunctionOnSet(g, T) = g[y] + SumFunctionOnSet(g, T \ {y})
      BY <3>1, <2>2, SumOfSome, SomeIsMember
    <3>3. SumFunctionOnSet(g, T \ {y}) = SumFunctionOnSet(f, named(T \ {y}))
      BY <1>1
    <3>4. named(T \ {y}) = named(T) \ {name[y]} /\ name[y] \in named(T)
      BY <1>0
    <3>5. SumFunctionOnSet(f, named(T))
            = f[name[y]] + SumFunctionOnSet(f, named(T) \ {name[y]})
      <4>1. \A z \in named(T) : f[z] \in Int
        OBVIOUS
      <4> HIDE DEF named
      <4> QED BY <3>1, <3>4, <4>1, SumWithout
    <3>6. SumFunctionOnSet(g, T) = SumFunctionOnSet(f, named(T))
      <4>1. g[y] = f[name[y]]
        OBVIOUS
      <4> HIDE DEF named
      <4> QED BY <3>2, <3>3, <3>4, <3>5, <4>1
    <3> QED
      BY <3>6
  <2> QED
    BY <2>1, <2>2
<1>2. S \in Good
  <2> HIDE DEF Good
  <2> QED BY <1>1, SetInduction
<1>3. named(S) = names
  BY <1>0
<1> QED
  BY <1>2, <1>3

(* The sum over two disjoint sets.                                             *)
LEMMA SumOfUnion ==
  ASSUME NEW S, NEW T, IsFiniteSet(S), IsFiniteSet(T), S \cap T = {},
         NEW f, \A x \in S \cup T : f[x] \in Int
  PROVE  SumFunctionOnSet(f, S \cup T)
           = SumFunctionOnSet(f, S) + SumFunctionOnSet(f, T)
<1> DEFINE all == S \cup T
           g == [x \in all |-> IF x \in S THEN f[x] ELSE 0]
           h == [x \in all |-> IF x \in S THEN 0 ELSE f[x]]
<1>1. IsFiniteSet(all)
  BY FS_Union
<1>2. \A x \in all : g[x] \in Int /\ h[x] \in Int /\ f[x] = g[x] + h[x]
  OBVIOUS
<1>3. SumFunctionOnSet(f, all) = SumFunctionOnSet(g, all) + SumFunctionOnSet(h, all)
  <2> HIDE DEF g, h, all
  <2> QED BY <1>1, <1>2, SumOfPairs
<1>4. /\ S \in SUBSET all /\ T \in SUBSET all
      /\ \A x \in all \ S : g[x] = 0
      /\ \A x \in all \ T : h[x] = 0
      /\ \A x \in S : g[x] = f[x]
      /\ \A x \in T : h[x] = f[x]
  OBVIOUS
<1> HIDE DEF g, h, all
<1>5. SumFunctionOnSet(g, all) = SumFunctionOnSet(g, S)
  BY <1>1, <1>2, <1>4, SumOfSubset
<1>6. SumFunctionOnSet(h, all) = SumFunctionOnSet(h, T)
  BY <1>1, <1>2, <1>4, SumOfSubset
<1>7. SumFunctionOnSet(g, S) = SumFunctionOnSet(f, S)
  BY <1>4, SumOfAgreeing
<1>8. SumFunctionOnSet(h, T) = SumFunctionOnSet(f, T)
  BY <1>4, SumOfAgreeing
<1> QED
  BY <1>3, <1>5, <1>6, <1>7, <1>8 DEF all

(* Shifting the terms of a sum by one, the last two into one.                  *)
LEMMA ShiftedSum ==
  ASSUME NEW n \in Nat \ {0}, NEW h, NEW g, \A x \in 0..n : h[x] \in Int,
         g[0] = 0, \A x \in 1..(n - 1) : g[x] = h[x - 1], g[n] = h[n - 1] + h[n]
  PROVE  SumFunctionOnSet(g, 0..n) = SumFunctionOnSet(h, 0..n)
<1> DEFINE S == 0..(n - 1)
           name == [x \in S |-> x + 1]
           p == [x \in S |-> g[x + 1]]
<1>1. IsFiniteSet(S) /\ IsFiniteSet(0..n) /\ IsFiniteSet(1..n)
  BY FS_Interval
<1>2. /\ \A x \in S : p[x] = g[x + 1] /\ name[x] = x + 1
      /\ \A x \in 0..n : g[x] \in Int
  OBVIOUS
<1>3. SumFunctionOnSet(g, 0..n) = SumFunctionOnSet(g, 1..n)
  <2>1. 1..n \in SUBSET (0..n) /\ \A x \in (0..n) \ (1..n) : g[x] = 0
    OBVIOUS
  <2> QED
    BY <1>1, <1>2, <2>1, SumOfSubset
<1>4. SumFunctionOnSet(p, S) = SumFunctionOnSet(g, 1..n)
  <2>1. name \in Bijection(S, 1..n)
    <3>1. name \in [S -> 1..n]
      OBVIOUS
    <3>2. \A x \in S, y \in S : name[x] = name[y] => x = y
      OBVIOUS
    <3>3. \A y \in 1..n : \E x \in S : name[x] = y
      <4> SUFFICES ASSUME NEW y \in 1..n PROVE \E x \in S : name[x] = y
        OBVIOUS
      <4>1. y - 1 \in S /\ name[y - 1] = y
        OBVIOUS
      <4> QED
        BY <4>1
    <3> HIDE DEF name
    <3> QED
      BY <3>1, <3>2, <3>3, Zenon DEF Bijection, Injection, Surjection, IsInjective
  <2>2. \A x \in S : g[name[x]] \in Int /\ p[x] = g[name[x]]
    OBVIOUS
  <2> HIDE DEF name, p, S
  <2> QED
    BY <1>1, <2>1, <2>2, SumRenamed
<1>5. SumFunctionOnSet(p, S) = SumFunctionOnSet(h, S) - h[n - 1] + p[n - 1]
  <2>1. \A x \in S : h[x] \in Int /\ p[x] \in Int
    BY <1>2
  <2>2. PICK last : last = n - 1
    OBVIOUS
  <2>3. last \in S /\ \A x \in S \ {last} : h[x] = p[x]
    BY <2>2
  <2>4. PICK f, q, K : f = h /\ q = p /\ K = S
    OBVIOUS
  <2> HIDE DEF p, S
  <2>5. /\ IsFiniteSet(K) /\ last \in K /\ \A x \in K \ {last} : f[x] = q[x]
        /\ \A x \in K : f[x] \in Int /\ q[x] \in Int
    BY <1>1, <2>1, <2>3, <2>4
  <2>6. SumFunctionOnSet(q, K) = SumFunctionOnSet(f, K) - f[last] + q[last]
    BY <2>5, SumChangedAt
  <2> QED
    BY <2>2, <2>4, <2>6
<1>6. SumFunctionOnSet(h, 0..n) = h[n] + SumFunctionOnSet(h, S)
  <2>1. (0..n) \ {n} = S /\ n \in 0..n
    OBVIOUS
  <2> HIDE DEF S
  <2> QED
    BY <1>1, <2>1, SumWithout
<1>7. p[n - 1] = h[n - 1] + h[n] /\ h[n - 1] \in Int /\ h[n] \in Int
      /\ SumFunctionOnSet(h, S) \in Int
  <2>1. \A x \in S : h[x] \in Int
    OBVIOUS
  <2>2. SumFunctionOnSet(h, S) \in Int
    <3> HIDE DEF S
    <3> QED BY <1>1, <2>1, SumIsInt
  <2> QED
    BY <2>2
<1> HIDE DEF S, p
<1> QED
  BY <1>3, <1>4, <1>5, <1>6, <1>7

(* A term of one for every member counts the members.                          *)
LEMMA SumOfOnes ==
  ASSUME NEW S, IsFiniteSet(S), NEW f, \A x \in S : f[x] = 1
  PROVE  SumFunctionOnSet(f, S) = Cardinality(S)
<1> DEFINE Good == {T \in SUBSET S : SumFunctionOnSet(f, T) = Cardinality(T)}
<1>1. ASSUME NEW T \in SUBSET S, \A U \in SUBSET T : U # T => U \in Good
      PROVE  T \in Good
  <2>1. CASE T = {}
    BY <2>1, SumOfNothing, FS_EmptySet
  <2>2. CASE T # {}
    <3>1. Some(T) \in T /\ IsFiniteSet(T)
      BY <2>2, SomeIsMember, FS_Subset
    <3>2. T \ {Some(T)} \in Good
      BY <1>1, <3>1
    <3>3. SumFunctionOnSet(f, T) = f[Some(T)] + SumFunctionOnSet(f, T \ {Some(T)})
      BY <3>1, <2>2, SumOfSome
    <3>4. Cardinality(T \ {Some(T)}) = Cardinality(T) - 1 /\ Cardinality(T) \in Nat
      BY <3>1, FS_RemoveElement, FS_CardinalityType
    <3> QED
      BY <3>1, <3>2, <3>3, <3>4
  <2> QED
    BY <2>1, <2>2
<1>2. S \in Good
  <2> HIDE DEF Good
  <2> QED BY <1>1, SetInduction
<1> QED
  BY <1>2

-----------------------------------------------------------------------------
(* Apportionment: the order the leftover is handed out in ranks the slots 0,   *)
(* 1, 2 ... without a gap and without a tie.                                   *)
Rank(remainder) == [i \in DOMAIN remainder |-> Cardinality(Before(remainder, i))]

LEMMA EarlierRanksLower ==
  ASSUME NEW S \in SUBSET Int, IsFiniteSet(S), NEW r \in [S -> Nat],
         NEW i \in S, NEW j \in S, j \in Before(r, i)
  PROVE  Rank(r)[j] < Rank(r)[i]
<1>1. Before(r, j) \subseteq Before(r, i) /\ j \notin Before(r, j)
  <2>1. /\ DOMAIN r = S /\ S \subseteq Int /\ \A x \in S : r[x] \in Nat
        /\ r[j] > r[i] \/ (r[j] = r[i] /\ j < i)
    BY DEF Before
  <2>2. j \notin Before(r, j)
    BY <2>1 DEF Before
  <2>3. ASSUME NEW x \in Before(r, j) PROVE x \in Before(r, i)
    <3>1. x \in S /\ (r[x] > r[j] \/ (r[x] = r[j] /\ x < j))
      BY <2>1, <2>3 DEF Before
    <3>2. r[x] > r[i] \/ (r[x] = r[i] /\ x < i)
      BY <2>1, <3>1
    <3> QED
      BY <2>1, <3>1, <3>2 DEF Before
  <2> QED
    BY <2>2, <2>3
<1>2. Before(r, i) \subseteq S /\ IsFiniteSet(Before(r, i))
  <2>1. Before(r, i) \in SUBSET S
    BY DEF Before
  <2> QED
    BY <2>1, FS_Subset
<1>3. /\ Cardinality(Before(r, j)) <= Cardinality(Before(r, i))
      /\ Cardinality(Before(r, i)) = Cardinality(Before(r, j))
           => Before(r, i) = Before(r, j)
      /\ IsFiniteSet(Before(r, j))
  BY <1>1, <1>2, FS_Subset
<1>4. Cardinality(Before(r, i)) # Cardinality(Before(r, j))
  BY <1>1, <1>3
<1>5. Cardinality(Before(r, j)) \in Nat /\ Cardinality(Before(r, i)) \in Nat
  BY <1>2, <1>3, FS_CardinalityType
<1>6. Rank(r)[j] = Cardinality(Before(r, j)) /\ Rank(r)[i] = Cardinality(Before(r, i))
  BY DEF Rank
<1> QED
  BY <1>3, <1>4, <1>5, <1>6

LEMMA RankIsBijection ==
  ASSUME NEW S \in SUBSET Int, IsFiniteSet(S), NEW r \in [S -> Nat]
  PROVE  Rank(r) \in Bijection(S, 0 .. (Cardinality(S) - 1))
<1> DEFINE n == Cardinality(S)
           ranks == 0 .. (n - 1)
<1>1. n \in Nat
  BY FS_CardinalityType
<1>2. ASSUME NEW i \in S PROVE Rank(r)[i] \in ranks
  <2>1. Before(r, i) \in SUBSET (S \ {i})
    BY DEF Before
  <2>2. IsFiniteSet(S \ {i}) /\ Cardinality(S \ {i}) = n - 1
    BY FS_RemoveElement
  <2>3. IsFiniteSet(Before(r, i)) /\ Cardinality(Before(r, i)) <= n - 1
    BY <2>1, <2>2, FS_Subset
  <2>4. Cardinality(Before(r, i)) \in Nat
    BY <2>3, FS_CardinalityType
  <2>5. Rank(r)[i] = Cardinality(Before(r, i))
    BY DEF Rank
  <2> QED
    BY <1>1, <2>3, <2>4, <2>5
<1>3. Rank(r) \in [S -> ranks]
  BY <1>2 DEF Rank
<1>4. ASSUME NEW i \in S, NEW j \in S, i # j PROVE Rank(r)[i] # Rank(r)[j]
  <2>1. r[i] \in Nat /\ r[j] \in Nat /\ i \in Int /\ j \in Int /\ DOMAIN r = S
    OBVIOUS
  <2>2. j \in Before(r, i) \/ i \in Before(r, j)
    BY <1>4, <2>1 DEF Before
  <2>3. Rank(r)[i] < Rank(r)[j] \/ Rank(r)[j] < Rank(r)[i]
    BY <2>2, EarlierRanksLower
  <2>4. Rank(r)[i] \in Int /\ Rank(r)[j] \in Int
    BY <1>2
  <2> QED
    BY <2>3, <2>4
<1>5. Rank(r) \in Injection(S, ranks)
  BY <1>3, <1>4 DEF Injection, IsInjective
<1>6. IsFiniteSet(ranks) /\ Cardinality(ranks) = n
  BY <1>1, FS_Interval
<1>7. Rank(r) \in Surjection(S, ranks)
  <2> HIDE DEF ranks
  <2> QED BY <1>5, <1>6, FS_Injection
<1> QED
  BY <1>5, <1>7 DEF Bijection

(* As many slots come before the k-th place as there are places before it.     *)
LEMMA PlacesBefore ==
  ASSUME NEW S \in SUBSET Int, IsFiniteSet(S), NEW r \in [S -> Nat],
         NEW k \in 0 .. Cardinality(S)
  PROVE  SumFunctionOnSet([i \in S |-> IF Rank(r)[i] < k THEN 1 ELSE 0], S) = k
<1> DEFINE n == Cardinality(S)
           ranks == 0 .. (n - 1)
           first == 0 .. (k - 1)
           f == [x \in ranks |-> IF x < k THEN 1 ELSE 0]
           g == [i \in S |-> IF Rank(r)[i] < k THEN 1 ELSE 0]
<1>1. n \in Nat /\ k \in Nat /\ k <= n
  BY FS_CardinalityType
<1>2. Rank(r) \in Bijection(S, ranks)
  BY RankIsBijection
<1>3. \A i \in S : Rank(r)[i] \in ranks
  BY <1>2 DEF Bijection, Injection
<1>4. SumFunctionOnSet(g, S) = SumFunctionOnSet(f, ranks)
  <2>1. \A i \in S : f[Rank(r)[i]] \in Int /\ g[i] = f[Rank(r)[i]]
    BY <1>3
  <2>2. PICK slots, name, names, of, by :
               slots = S /\ name = Rank(r) /\ names = ranks /\ of = f /\ by = g
    OBVIOUS
  <2> HIDE DEF f, g, ranks
  <2>3. IsFiniteSet(slots) /\ name \in Bijection(slots, names)
    BY <1>2, <2>2
  <2>4. \A i \in slots : of[name[i]] \in Int /\ by[i] = of[name[i]]
    BY <2>1, <2>2
  <2>5. SumFunctionOnSet(by, slots) = SumFunctionOnSet(of, names)
    BY <2>3, <2>4, SumRenamed
  <2> QED
    BY <2>2, <2>5
<1>5. SumFunctionOnSet(f, ranks) = SumFunctionOnSet(f, first)
  <2>1. first \in SUBSET ranks /\ \A x \in ranks : f[x] \in Int
    BY <1>1
  <2>2. \A x \in ranks \ first : f[x] = 0
    BY <1>1
  <2>3. IsFiniteSet(ranks)
    BY <1>1, FS_Interval
  <2> HIDE DEF f, ranks, first
  <2> QED BY <2>1, <2>2, <2>3, SumOfSubset
<1>6. SumFunctionOnSet(f, first) = k
  <2>1. \A x \in first : f[x] = 1
    BY <1>1
  <2>2. IsFiniteSet(first) /\ Cardinality(first) = k
    <3>1. 0 \in Int /\ k - 1 \in Int /\ (IF 0 > k - 1 THEN 0 ELSE (k - 1) - 0 + 1) = k
      BY <1>1
    <3> QED
      BY <3>1, FS_Interval
  <2> HIDE DEF f, first
  <2> QED BY <2>1, <2>2, SumOfOnes
<1> QED
  BY <1>4, <1>5, <1>6

(* A division and its remainder make up the whole.                             *)
LEMMA DivisionWithRemainder == ASSUME NEW n \in Nat, NEW d \in Nat \ {0}
  PROVE  /\ n \div d \in Nat
         /\ n % d \in Nat /\ n % d < d
         /\ n = (n \div d) * d + (n % d)
BY SMT

(* fl and rem are the quotients and the remainders of total * weight by whole.  *)
Divided(S, total, weight, whole, fl, rem) ==
  \A i \in S : /\ weight[i] \in Nat /\ total * weight[i] \in Nat
              /\ fl[i] \in Nat /\ rem[i] \in Nat /\ rem[i] < whole
              /\ total * weight[i] = fl[i] * whole + rem[i]

(* The slots whose part is not a whole number of units.                        *)
SomeRemainder(S, rem) == {i \in S : rem[i] > 0}

(* What the slots' floors leave over is the sum of their remainders, so that   *)
(* there are enough slots with a remainder to take it, a unit each.            *)
LEMMA LeftoverOfSums ==
  ASSUME NEW S, IsFiniteSet(S), NEW total \in Nat, NEW whole \in Nat \ {0},
         NEW weight, NEW fl, NEW rem, Divided(S, total, weight, whole, fl, rem),
         SumFunctionOnSet(weight, S) = whole
  PROVE  LET left == total - SumFunctionOnSet(fl, S) IN
         /\ left \in Nat /\ left < Cardinality(S)
         /\ left <= Cardinality(SomeRemainder(S, rem))
<1>0. PICK left, some, num : /\ left = total - SumFunctionOnSet(fl, S)
                            /\ some = SomeRemainder(S, rem)
                            /\ num = [i \in S |-> total * weight[i]]
  OBVIOUS
<1>00. \A i \in S : /\ weight[i] \in Nat /\ num[i] = total * weight[i]
                    /\ num[i] \in Nat /\ fl[i] \in Nat /\ rem[i] \in Nat
                    /\ rem[i] < whole /\ num[i] = fl[i] * whole + rem[i]
  <2> SUFFICES ASSUME NEW i \in S
               PROVE  /\ weight[i] \in Nat /\ num[i] = total * weight[i]
                      /\ num[i] \in Nat /\ fl[i] \in Nat /\ rem[i] \in Nat
                      /\ rem[i] < whole /\ num[i] = fl[i] * whole + rem[i]
    OBVIOUS
  <2>1. num[i] = total * weight[i]
    BY <1>0
  <2>2. /\ weight[i] \in Nat /\ total * weight[i] \in Nat
        /\ fl[i] \in Nat /\ rem[i] \in Nat /\ rem[i] < whole
        /\ total * weight[i] = fl[i] * whole + rem[i]
    BY Zenon DEF Divided
  <2> QED
    BY <2>1, <2>2, Zenon
<1> DEFINE F == SumFunctionOnSet(fl, S)
           R == SumFunctionOnSet(rem, S)
           scaled == [i \in S |-> fl[i] * whole]
           c == Cardinality(some)
<1>1. F \in Nat /\ R \in Nat
  BY <1>00, SumIsNat
<1>2. SumFunctionOnSet(num, S) = total * whole
  <2>1. \A i \in S : weight[i] \in Int /\ num[i] = total * weight[i]
    BY <1>00
  <2>2. total \in Int
    OBVIOUS
  <2>3. SumFunctionOnSet(num, S) = total * SumFunctionOnSet(weight, S)
    BY <2>1, <2>2, SumOfMultiples
  <2> QED
    BY <2>3
<1>3. SumFunctionOnSet(scaled, S) = whole * F
  <2>1. \A i \in S : fl[i] \in Int /\ scaled[i] = whole * fl[i]
    BY <1>00, ProductCommutes
  <2>2. whole \in Int
    OBVIOUS
  <2> HIDE DEF scaled
  <2> QED
    BY <2>1, <2>2, SumOfMultiples
<1>4. SumFunctionOnSet(num, S) = SumFunctionOnSet(scaled, S) + R
  <2>1. \A i \in S : scaled[i] \in Int /\ rem[i] \in Int /\ num[i] = scaled[i] + rem[i]
    <3> SUFFICES ASSUME NEW i \in S
                 PROVE  scaled[i] \in Int /\ rem[i] \in Int /\ num[i] = scaled[i] + rem[i]
      OBVIOUS
    <3>1. scaled[i] = fl[i] * whole
      OBVIOUS
    <3>2. fl[i] * whole \in Nat
      BY <1>00, ProductIsNat
    <3> HIDE DEF scaled
    <3> QED
      BY <1>00, <3>1, <3>2
  <2> HIDE DEF scaled
  <2> QED
    BY <2>1, SumOfPairs
<1> HIDE DEF scaled
<1>5. total * whole = whole * F + R
  BY <1>2, <1>3, <1>4
<1>6. F <= total
  <2>1. /\ F * whole \in Nat /\ total * whole \in Nat /\ F * whole = whole * F
    BY <1>1, ProductIsNat, ProductCommutes
  <2>2. F * whole <= total * whole
    BY <1>1, <1>5, <2>1
  <2> HIDE DEF F
  <2> QED
    BY <1>1, <2>2, ProductCancels
<1>7. R = (total - F) * whole
  <2>1. (total - F) * whole = total * whole - F * whole /\ F * whole = whole * F
    BY <1>1, ProductDistributes, ProductCommutes
  <2>2. F * whole \in Nat /\ total * whole \in Nat
    BY <1>1, ProductIsNat
  <2> HIDE DEF F, R
  <2> QED
    BY <1>1, <1>5, <2>1, <2>2
<1>8. IsFiniteSet(some) /\ c \in Nat /\ c <= Cardinality(S) /\ Cardinality(S) \in Nat
  <2>1. some \in SUBSET S
    BY <1>0 DEF SomeRemainder
  <2> QED
    BY <2>1, FS_Subset, FS_CardinalityType
<1>9. R <= (whole - 1) * c
  <2> DEFINE ones == [i \in some |-> 1]
             most == [i \in some |-> whole - 1]
  <2>1. R = SumFunctionOnSet(rem, some)
    <3>1. /\ some \in SUBSET S /\ \A i \in S : rem[i] \in Int
          /\ \A i \in S \ some : rem[i] = 0
      BY <1>0, <1>00 DEF SomeRemainder
    <3> QED
      BY <3>1, SumOfSubset
  <2>2. SumFunctionOnSet(rem, some) <= SumFunctionOnSet(most, some)
    <3>1. \A i \in some : rem[i] \in Int /\ most[i] \in Int /\ rem[i] <= most[i]
      BY <1>0, <1>00 DEF SomeRemainder
    <3> HIDE DEF most
    <3> QED
      BY <1>8, <3>1, SumMonotone
  <2>3. SumFunctionOnSet(most, some) = (whole - 1) * SumFunctionOnSet(ones, some)
    <3>1. \A i \in some : ones[i] \in Int /\ most[i] = (whole - 1) * ones[i]
      OBVIOUS
    <3>2. whole - 1 \in Int
      OBVIOUS
    <3> HIDE DEF most, ones
    <3> QED
      BY <1>8, <3>1, <3>2, SumOfMultiples
  <2>4. SumFunctionOnSet(ones, some) = c
    <3>1. \A i \in some : ones[i] = 1
      OBVIOUS
    <3> HIDE DEF ones
    <3> QED
      BY <1>8, <3>1, SumOfOnes
  <2> HIDE DEF ones, most, R
  <2> QED
    BY <2>1, <2>2, <2>3, <2>4
<1>10. S # {}
  BY SumOfNothing
<1>11. Cardinality(S) > 0
  BY <1>8, <1>10, FS_EmptySet
<1>12. left \in Nat
  BY <1>0, <1>1, <1>6
<1> HIDE DEF R, c
<1>13. (whole - 1) * c = c * whole - c /\ c * whole \in Nat
  BY <1>8, ProductDistributes, ProductCommutes, ProductIsNat, SMT
<1>14. left * whole \in Nat /\ left * whole <= c * whole - c
  <2>1. R = left * whole
    BY <1>0, <1>7
  <2> HIDE DEF F
  <2> QED
    BY <1>9, <1>12, <1>13, <2>1, ProductIsNat
<1> HIDE DEF F
<1>15. left <= c
  <2>1. left * whole <= c * whole
    BY <1>8, <1>13, <1>14
  <2> QED
    BY <1>8, <1>12, <2>1, ProductCancels
<1>16. left # c \/ c = 0
  BY <1>8, <1>13, <1>14
<1>17. left < Cardinality(S)
  BY <1>8, <1>11, <1>12, <1>15, <1>16
<1> QED
  BY <1>0, <1>12, <1>15, <1>17 DEF c, F

(* Apportion divides each slot's numerator by whole.                           *)
LEMMA ApportionmentParts ==
  ASSUME NEW allocation, NEW S, DOMAIN allocation = S,
         \A i \in S : allocation[i] \in Nat, NEW total \in Nat, NEW whole \in Nat \ {0}
  PROVE  LET fl  == FloorShares(total, allocation, whole)
             rem == Remainders(total, allocation, whole)
         IN  /\ fl \in [S -> Nat] /\ rem \in [S -> Nat]
             /\ Divided(S, total, allocation, whole, fl, rem)
<1>0. PICK fl, rem : /\ fl = FloorShares(total, allocation, whole)
                     /\ rem = Remainders(total, allocation, whole)
  OBVIOUS
<1>1. fl = [i \in S |-> (total * allocation[i]) \div whole]
  BY <1>0 DEF FloorShares, Numerator
<1>2. rem = [i \in S |-> (total * allocation[i]) % whole]
  BY <1>0 DEF Remainders, Numerator
<1>3. ASSUME NEW i \in S
      PROVE  /\ allocation[i] \in Nat /\ total * allocation[i] \in Nat
             /\ fl[i] \in Nat /\ rem[i] \in Nat /\ rem[i] < whole
             /\ total * allocation[i] = fl[i] * whole + rem[i]
  <2> DEFINE n == total * allocation[i]
  <2>1. n \in Nat
    BY ProductIsNat
  <2>2. fl[i] = n \div whole /\ rem[i] = n % whole
    BY <1>1, <1>2
  <2> HIDE DEF n
  <2>3. /\ fl[i] \in Nat /\ rem[i] \in Nat /\ rem[i] < whole
        /\ n = fl[i] * whole + rem[i]
    BY <2>1, <2>2, DivisionWithRemainder
  <2> QED
    BY <2>1, <2>2, <2>3 DEF n
<1>4. fl \in [S -> Nat]
  BY <1>1, <1>3
<1>5. rem \in [S -> Nat]
  BY <1>2, <1>3
<1>6. Divided(S, total, allocation, whole, fl, rem)
  BY <1>3, Zenon DEF Divided
<1> QED
  BY <1>0, <1>4, <1>5, <1>6

(* A slot gets its floor and, while the leftover lasts, a unit more.           *)
LEMMA ApportionedSlot ==
  ASSUME NEW S, NEW allocation, DOMAIN allocation = S, NEW total, NEW whole, NEW i \in S
  PROVE  LET fl  == FloorShares(total, allocation, whole)
             rem == Remainders(total, allocation, whole)
         IN  Apportion(total, allocation, whole)[i]
               = IF Rank(rem)[i] < Leftover(total, allocation, whole)
                 THEN fl[i] + 1 ELSE fl[i]
<1>1. DOMAIN Remainders(total, allocation, whole) = S
  BY DEF Remainders
<1> QED
  BY <1>1 DEF Apportion, Rank

(* There are fewer units left over than slots, and than slots with a remainder *)
(* or as many.                                                                 *)
LEMMA ApportionedLeftover ==
  ASSUME NEW allocation, NEW S, DOMAIN allocation = S, IsFiniteSet(S),
         \A i \in S : allocation[i] \in Nat, NEW total \in Nat, NEW whole \in Nat \ {0},
         SumFunction(allocation) = whole
  PROVE  LET fl   == FloorShares(total, allocation, whole)
             rem  == Remainders(total, allocation, whole)
             left == Leftover(total, allocation, whole)
         IN  /\ left \in Nat /\ left < Cardinality(S)
             /\ left <= Cardinality(SomeRemainder(S, rem))
             /\ left = total - SumFunctionOnSet(fl, S)
<1>0. PICK fl, rem : /\ fl = FloorShares(total, allocation, whole)
                     /\ rem = Remainders(total, allocation, whole)
  OBVIOUS
<1>1. fl \in [S -> Nat] /\ Divided(S, total, allocation, whole, fl, rem)
  BY <1>0, ApportionmentParts
<1>2. DOMAIN fl = S
  BY <1>1
<1>3. /\ SumFunctionOnSet(allocation, S) = whole
      /\ Leftover(total, allocation, whole) = total - SumFunctionOnSet(fl, S)
  BY <1>0, <1>2, SumOverDomain DEF Leftover
<1>4. /\ total - SumFunctionOnSet(fl, S) \in Nat
      /\ total - SumFunctionOnSet(fl, S) < Cardinality(S)
      /\ total - SumFunctionOnSet(fl, S) <= Cardinality(SomeRemainder(S, rem))
  BY <1>1, <1>3, LeftoverOfSums
<1> QED
  BY <1>0, <1>3, <1>4

-----------------------------------------------------------------------------
(* apportion_to_recipients gives out the whole amount, no more and no less; a  *)
(* recipient gets its exact part rounded down or up, and exactly its part      *)
(* where that is a whole number of units; and no recipient gets less than one  *)
(* with a smaller allocation.                                                  *)
THEOREM ApportionmentIsExact ==
  ASSUME NEW S \in SUBSET Int, IsFiniteSet(S), NEW allocation, DOMAIN allocation = S,
         \A i \in S : allocation[i] \in Nat, NEW total \in Nat, NEW whole \in Nat \ {0},
         SumFunction(allocation) = whole
  PROVE  LET part == Apportion(total, allocation, whole) IN
         /\ part \in [S -> Nat]
         /\ SumFunction(part) = total
         /\ \A i \in S : part[i] = MulDivFloor(total, allocation[i], whole)
                           \/ part[i] = MulDivFloor(total, allocation[i], whole) + 1
         /\ \A i \in S : (total * allocation[i]) % whole = 0
                           => part[i] = MulDivFloor(total, allocation[i], whole)
         /\ \A i, j \in S : allocation[i] <= allocation[j] => part[i] <= part[j] + 1
         /\ \A i, j \in S : allocation[i] < allocation[j] => part[i] <= part[j]
<1>0. PICK part, fl, rem, left :
        /\ part = Apportion(total, allocation, whole)
        /\ fl   = FloorShares(total, allocation, whole)
        /\ rem  = Remainders(total, allocation, whole)
        /\ left = Leftover(total, allocation, whole)
  OBVIOUS
<1> DEFINE more == [i \in S |-> IF Rank(rem)[i] < left THEN 1 ELSE 0]
<1>1a. /\ fl \in [S -> Nat] /\ rem \in [S -> Nat]
       /\ Divided(S, total, allocation, whole, fl, rem)
  BY <1>0, ApportionmentParts
<1>1b. \A i \in S : rem[i] = (total * allocation[i]) % whole
  BY <1>0 DEF Remainders, Numerator
<1>1. /\ fl \in [S -> Nat] /\ rem \in [S -> Nat]
      /\ \A i \in S : total * allocation[i] \in Nat
      /\ \A i \in S : rem[i] < whole
      /\ \A i \in S : rem[i] = (total * allocation[i]) % whole
      /\ \A i \in S : total * allocation[i] = fl[i] * whole + rem[i]
  BY <1>1a, <1>1b, Zenon DEF Divided
<1>2. /\ left \in Nat /\ left < Cardinality(S)
      /\ left <= Cardinality(SomeRemainder(S, rem))
      /\ left = total - SumFunctionOnSet(fl, S)
  <2>1. LET floors    == FloorShares(total, allocation, whole)
            remainder == Remainders(total, allocation, whole)
            leftover  == Leftover(total, allocation, whole)
        IN  /\ leftover \in Nat /\ leftover < Cardinality(S)
            /\ leftover <= Cardinality(SomeRemainder(S, remainder))
            /\ leftover = total - SumFunctionOnSet(floors, S)
    BY ApportionedLeftover, ZenonT(60)
  <2> QED
    BY <1>0, <2>1
<1>3. \A i \in S : fl[i] = MulDivFloor(total, allocation[i], whole)
  BY <1>0 DEF FloorShares, Numerator, MulDivFloor
<1>4. DOMAIN part = S
  BY <1>0 DEF Apportion
<1>5. \A i \in S : part[i] = IF Rank(rem)[i] < left THEN fl[i] + 1 ELSE fl[i]
  BY <1>0, ApportionedSlot
<1>6. Cardinality(S) \in Nat
  BY FS_CardinalityType
<1>7. part \in [S -> Nat]
  <2>1. \A i \in S : part[i] \in Nat
    BY <1>1, <1>5
  <2>2. part = [i \in S |-> part[i]]
    BY <1>0, <1>4 DEF Apportion
  <2> QED
    BY <2>1, <2>2
<1>8. \A i \in S : Rank(rem)[i] \in Nat
  <2>1. Rank(rem) \in Bijection(S, 0 .. (Cardinality(S) - 1))
    BY <1>1, RankIsBijection
  <2>2. Rank(rem) \in [S -> 0 .. (Cardinality(S) - 1)]
    BY <2>1, Zenon DEF Bijection, Injection
  <2> QED
    BY <1>6, <2>2
<1>9. SumFunction(part) = total
  <2>1. SumFunctionOnSet(more, S) = left
    <3>1. left \in 0 .. Cardinality(S)
      BY <1>2, <1>6
    <3> QED
      BY <1>1, <3>1, PlacesBefore
  <2>2. SumFunctionOnSet(part, S)
          = SumFunctionOnSet(fl, S) + SumFunctionOnSet(more, S)
    <3>1. \A i \in S : fl[i] \in Int /\ more[i] \in Int /\ part[i] = fl[i] + more[i]
      BY <1>1, <1>5
    <3> HIDE DEF more
    <3> QED
      BY <3>1, SumOfPairs
  <2>3. SumFunctionOnSet(fl, S) \in Nat
    BY <1>1, SumIsNat
  <2>4. SumFunction(part) = SumFunctionOnSet(part, S)
    BY <1>4, SumOverDomain
  <2> HIDE DEF more
  <2> QED
    BY <1>2, <2>1, <2>2, <2>3, <2>4
<1>10. ASSUME NEW i \in S, rem[i] = 0 PROVE part[i] = fl[i]
  <2> DEFINE some == SomeRemainder(S, rem)
  <2>1. some \subseteq Before(rem, i) /\ Before(rem, i) \subseteq S
    BY <1>1, <1>10 DEF Before, SomeRemainder
  <2>2. IsFiniteSet(Before(rem, i))
    BY <2>1, FS_Subset
  <2> HIDE DEF some
  <2>3. Cardinality(some) <= Cardinality(Before(rem, i))
        /\ IsFiniteSet(some)
    BY <2>1, <2>2, FS_Subset
  <2>4. Cardinality(some) \in Nat /\ Cardinality(Before(rem, i)) \in Nat
    BY <2>2, <2>3, FS_CardinalityType
  <2>5. Rank(rem)[i] = Cardinality(Before(rem, i)) /\ left <= Cardinality(some)
    BY <1>1, <1>2 DEF Rank, some
  <2>6. ~(Rank(rem)[i] < left)
    BY <1>2, <2>3, <2>4, <2>5
  <2> QED
    BY <1>5, <2>6
<1>11. ASSUME NEW i \in S, NEW j \in S, allocation[i] <= allocation[j]
       PROVE  fl[i] <= fl[j]
  <2>1. total * allocation[i] <= total * allocation[j]
    BY <1>11, ProductMonotone, ProductCommutes
  <2> DEFINE x == total * allocation[i]
             y == total * allocation[j]
             u == fl[i] * whole
             v == fl[j] * whole
  <2>2. /\ x \in Nat /\ y \in Nat /\ u \in Nat /\ v \in Nat /\ x <= y
        /\ rem[i] \in Nat /\ rem[j] \in Nat /\ rem[j] < whole
        /\ x = u + rem[i] /\ y = v + rem[j] /\ fl[i] \in Nat /\ fl[j] \in Nat
    BY <1>1, <2>1, ProductIsNat
  <2>3. SUFFICES ASSUME fl[j] + 1 <= fl[i] PROVE FALSE
    BY <2>2
  <2>4. (fl[j] + 1) * whole <= fl[i] * whole
    BY <1>1, <2>2, <2>3, ProductMonotone
  <2>5. (fl[j] + 1) * whole = v + whole
    BY <2>2, ProductDistributes, SMT
  <2>6. v + whole <= u
    BY <2>4, <2>5
  <2> HIDE DEF x, y, u, v
  <2> QED
    BY <2>2, <2>6
<1>12. ASSUME NEW i \in S, NEW j \in S, allocation[i] < allocation[j]
       PROVE  part[i] <= part[j]
  <2>1. fl[i] <= fl[j] /\ fl[i] \in Nat /\ fl[j] \in Nat
    BY <1>1, <1>11, <1>12
  <2>2. CASE fl[i] < fl[j]
    BY <1>5, <2>1, <2>2
  <2>3. CASE fl[i] = fl[j]
    <3>1. rem[i] <= rem[j]
      <4>1. total * allocation[i] <= total * allocation[j]
        BY <1>12, ProductMonotone, ProductCommutes
      <4> DEFINE u == fl[i] * whole
      <4>2. u + rem[i] <= u + rem[j] /\ u \in Nat
        BY <1>1, <2>1, <2>3, <4>1, ProductIsNat
      <4> HIDE DEF u
      <4> QED
        BY <1>1, <4>2
    <3>2. CASE rem[i] = rem[j]
      <4>1. total = 0
        <5>1. total * allocation[i] = total * allocation[j]
          BY <1>1, <2>3, <3>2
        <5> QED
          BY <1>12, <5>1, SMT
      <4>2. rem[i] = 0 /\ rem[j] = 0
        <5>1. 0 * allocation[i] = 0 /\ 0 * allocation[j] = 0 /\ 0 % whole = 0
          BY SMT
        <5> QED
          BY <1>1, <4>1, <5>1
      <4> QED
        BY <1>10, <2>1, <2>3, <4>2
    <3>3. CASE rem[i] < rem[j]
      <4>1. j \in Before(rem, i)
        BY <1>1, <3>3 DEF Before
      <4>2. Rank(rem)[j] < Rank(rem)[i]
        BY <1>1, <4>1, EarlierRanksLower
      <4>3. Rank(rem)[i] \in Nat /\ Rank(rem)[j] \in Nat /\ left \in Nat
        BY <1>2, <1>8
      <4> QED
        BY <1>5, <2>1, <2>3, <4>2, <4>3
    <3> QED
      BY <1>1, <3>1, <3>2, <3>3
  <2> QED
    BY <2>1, <2>2, <2>3
<1>13. ASSUME NEW i \in S, NEW j \in S, allocation[i] <= allocation[j]
       PROVE  part[i] <= part[j] + 1
  <2>1. fl[i] <= fl[j] /\ fl[i] \in Nat /\ fl[j] \in Nat
    BY <1>1, <1>11, <1>13
  <2> QED
    BY <1>5, <2>1
<1>14. \A i \in S : (total * allocation[i]) % whole = 0 => part[i] = fl[i]
  BY <1>1, <1>10
<1> QED
  BY <1>0, <1>3, <1>5, <1>7, <1>9, <1>12, <1>13, <1>14
=============================================================================
