--------------------------- MODULE MCMainnetSync ---------------------------
(***************************************************************************)
(* Model-checking instances of the mainnet synchronization.                *)
(***************************************************************************)
EXTENDS MainnetSync, TLC

RunSymmetry == Permutations(Runs \ {Earlier})
=============================================================================
