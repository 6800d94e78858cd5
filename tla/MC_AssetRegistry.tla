-------------------------- MODULE MC_AssetRegistry --------------------------
(* AssetRegistry on a small instance: four mints for a limit of three assets,  *)
(* so that the limit is reached and an asset can be replaced by another.       *)
EXTENDS AssetRegistry
=============================================================================
