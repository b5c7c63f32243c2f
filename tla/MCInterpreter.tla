---------------------------- MODULE MCInterpreter ----------------------------
(***************************************************************************)
(* The interpreter on small codes: any instruction alone, calls that nest, *)
(* a stack that reaches its limit, and a jump over the data of a PUSH that *)
(* looks like a JUMPDEST.                                                  *)
(***************************************************************************)
EXTENDS Interpreter

MCCodes == {<<AnyOp>>,
            <<I("STATICCALL")>>,
            <<I("CALL"), I("SELFDESTRUCT")>>,
            <<[op |-> "DUP", n |-> 1], [op |-> "DUP", n |-> 1]>>,
            <<I("JUMP"), [op |-> "PUSH", n |-> 2], I("JUMPDEST"), I("JUMPDEST"), I("JUMPDEST"), Invalid>>}

\* Nothing, a word, a piece of the second and third word; sizes past uint64 and past a word.
MCRegions == {<<0, 0>>, <<0, 32>>, <<40, 30>>, <<MaxU64, 8>>, <<MaxWord - 15, 48>>}
MCCallRegions ==
    {<<NoRegion, NoRegion>>, <<NoRegion, <<0, 32>>>>, <<<<0, 32>>, <<40, 30>>>>,
     <<NoRegion, <<MaxWord - 15, 48>>>>, <<<<MaxU64, 8>>, NoRegion>>}
MCWords == {0, MaxWord - 15}
MCTargets == {1, 3, 4, MaxWord - 15}
=============================================================================
