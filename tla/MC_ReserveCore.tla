--------------------------- MODULE MC_ReserveCore ---------------------------
(* ReserveCore on a small instance.  The rates are scaled with BpsDenominator  *)
(* so that every shape of the fee formulas occurs: no fee, a fee below and a   *)
(* fee above the protocol's minimum.                                           *)
EXTENDS ReserveCore, TLC

FreeRates  == [mint |-> 0, redemption |-> 0, annual |-> 0]
ChargedRates == [mint |-> 4, redemption |-> 3, annual |-> 4]
MCFeeConfigs == {FreeRates, ChargedRates}

AssetSymmetry == Permutations(Assets)
=============================================================================
