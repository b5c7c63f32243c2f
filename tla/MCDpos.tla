------------------------------- MODULE MCDpos -------------------------------
(***************************************************************************)
(* Model checking of Dpos on small instances, and what comments and tests  *)
(* of the contract say that its error paths do not keep.                   *)
(***************************************************************************)
EXTENDS Dpos, TLC

Symmetry == Permutations(Delegator) \cup Permutations(Validator)

(***************************************************************************)
(* Behaviours are not followed past an error path that damages the ledger. *)
(***************************************************************************)
Undamaged == defects = {}

(***************************************************************************)
(* validators.go, on the Validator object: "TotalStake == sum of all       *)
(* delegated tokens to the validator".  A cancelUndelegate that is         *)
(* rejected for the maximum stake has already credited the delegation.     *)
(***************************************************************************)
TotalStakeIsSum ==
  \A v \in Validator :
    ValidatorStake(v) = SumFunctionOnSet([d \in Delegator |-> StakeOf(d, v)], Delegator)

(***************************************************************************)
(* state_get_and_decrement, on a missing state: "This should never         *)
(* happen".  redelegate stores a validator that points to a state it never *)
(* stored.                                                                 *)
(***************************************************************************)
StateNeverMissing ==
  \A v \in Validator : Exists(v) => Has(v, val[v].last)

(***************************************************************************)
(* registerValidatorWithoutChecks, on a delegation to a validator that is  *)
(* not registered: "This could happen only due some serious logic bug".    *)
(* Cancelling an undelegation of nothing makes a delegation of nothing,    *)
(* which does not keep its validator from being deleted.                   *)
(***************************************************************************)
NoOrphanDelegation ==
  \A d \in Delegator, v \in Validator : Delegated(d, v) => Exists(v)

(***************************************************************************)
(* forceEvictValidator: the "First call zeroes voting power immediately    *)
(* (validator stops producing blocks, stops earning rewards) even if       *)
(* delegator processing spills over multiple blocks".  A vote that is      *)
(* rewarded meanwhile restores the full voting power.                      *)
(***************************************************************************)
EvictedHasNoPower == \A v \in Validator : evicting[v] => factor[v] = 0

=============================================================================
