------------------------------- MODULE MCStaking ------------------------------
(* Instances of Staking for TLC. *)
EXTENDS Staking, TLC

Symmetry == Permutations(Staker)
=============================================================================
