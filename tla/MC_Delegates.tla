---------------------------- MODULE MC_Delegates ----------------------------
(* Delegates on a small instance: a manager and three more wallets, so that a  *)
(* grant is handed on twice and comes back.                                    *)
EXTENDS Delegates, TLC

WalletSymmetry == Permutations(Wallets)
=============================================================================
