-------------------------- MODULE MCTransitionState --------------------------
(***************************************************************************)
(* Instances of TransitionState for TLC: an account that sends             *)
(* transactions, a contract, the precompiled contract.                     *)
(***************************************************************************)
EXTENDS TransitionState

CONSTANTS sender, callee, dpos

MCAmounts == {1}
MCFees    == {1}

Contract(slots) == [balance |-> 0, nonce |-> 1, code |-> TRUE, slots |-> slots]

\* At genesis the contract has its slots set, or does not exist.
MCGenesis ==
  {[db   |-> (sender :> [balance |-> 2, nonce |-> 0, code |-> FALSE, slots |-> {}])
             @@ (dpos :> [Contract({}) EXCEPT !.code = FALSE]) @@ (callee :> x),
    flat |-> [a \in Addr |-> [k \in Key |-> IF a = callee /\ x = Contract(Key) THEN 1 ELSE 0]]]
     : x \in {Contract(Key), Nil}}
=============================================================================
