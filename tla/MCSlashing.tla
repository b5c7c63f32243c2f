----------------------------- MODULE MCSlashing -----------------------------
(* Two validators that vote twice and an honest one; a copied signature and a *)
(* vote without a signer.                                                     *)
EXTENDS Slashing

CONSTANTS v1, v2, v3

Vote(h, blk, r, s, by) == [hash |-> h, block |-> blk, round |-> r, step |-> s, signer |-> by]

MCVotes ==
    { Vote(1, "A", 1, 3, v1), Vote(2, "B", 1, 3, v1), Vote(7, ZeroHash, 1, 3, v1),
      Vote(4, "A", 1, 5, v2), Vote(3, "B", 1, 5, v2),
      Vote(5, "A", 2, 5, v3), Vote(6, ZeroHash, 2, 5, v3),
      Vote(2, "B", 1, 3, v3), Vote(1, "A", 1, 3, Nobody) }

Full == [v \in Validators |-> 2]
NodeSymmetry == Permutations(Nodes)
MCPowers == {Full, [Full EXCEPT ![v1] = 0]}
=============================================================================
