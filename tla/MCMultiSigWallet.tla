--------------------------- MODULE MCMultiSigWallet ---------------------------
(* Instances of MultiSigWallet for TLC. *)
EXTENDS MultiSigWallet, TLC

Symmetry == Permutations(Address)
=============================================================================
