------------------------------ MODULE MCBridge ------------------------------
(* The bridge as TLC checks it.  Vaults are interchangeable; the symmetry  *)
(* is used where only safety is checked.                                   *)
EXTENDS Bridge, TLC

VaultSymmetry == Permutations(Vaults)
=============================================================================
