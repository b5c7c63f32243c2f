----------------------- MODULE MCRewardsDistribution ------------------------
(***************************************************************************)
(* Model checking of RewardsDistribution on a small supply.                *)
(***************************************************************************)
EXTENDS RewardsDistribution, TLC

Symmetry == Permutations(Validator)

=============================================================================
