------------------------------- MODULE FeeMath -------------------------------
(* The arithmetic of programs/ssr_protocol/src/fee_math.rs and of the two      *)
(* division helpers of instructions/common.rs.  Every operator here is a pure  *)
(* function of natural numbers.  The program computes products in u128 and     *)
(* fails when a result leaves u64; that failure is a guard of the handlers     *)
(* that use these operators (see ReserveCore), not part of the operators.      *)
EXTENDS Integers

(* a * b / c rounded towards, or away from, zero; callers have c > 0.          *)
MulDivFloor(a, b, c) == (a * b) \div c
MulDivCeil(a, b, c)  == (a * b + (c - 1)) \div c

(* A pair (protocol, manager): of basis points, of shares or of USDC.          *)
Split(p, m) == [protocol |-> p, manager |-> m]

(* Effective rates from a configured rate and the protocol's minimum: the      *)
(* protocol takes half, at least the minimum; the manager what is left.        *)
SplitConfiguredBps(configured, minimum) ==
  LET half     == configured \div 2
      protocol == IF half >= minimum THEN half ELSE minimum
  IN  Split(protocol, IF configured >= protocol THEN configured - protocol ELSE 0)

EffectiveBps(configured, minimum) ==
  LET s == SplitConfiguredBps(configured, minimum) IN s.protocol + s.manager

(* Redemption rates: the same convention, capped at what is configured.        *)
SplitRedemptionBps(configured, minimum) ==
  IF configured = 0
  THEN Split(0, 0)
  ELSE LET uncapped == SplitConfiguredBps(configured, minimum).protocol
           protocol == IF uncapped <= configured THEN uncapped ELSE configured
       IN  Split(protocol, configured - protocol)

(* An amount divided by weights: the manager's part is floored, the protocol   *)
(* takes the exact remainder; nothing is split when both weights are zero.     *)
SplitByWeight(amount, protocolWeight, managerWeight) ==
  LET total == protocolWeight + managerWeight IN
  IF total = 0
  THEN Split(0, 0)
  ELSE LET manager == MulDivFloor(amount, managerWeight, total)
       IN  Split(amount - manager, manager)

(* fee_math::split_total_fee is the same computation with basis points as      *)
(* weights.                                                                    *)
SplitTotalFee(total, rates) == SplitByWeight(total, rates.protocol, rates.manager)
=============================================================================
