------------------------------- MODULE MCTrie -------------------------------
(* Four keys that share three, two and no nibbles; values that fit in a      *)
(* node, that fit in a parent only with their key, and that fit in neither.  *)
EXTENDS Trie

MCKeys == {<<0, 0>>, <<0, 1>>, <<0, 16>>, <<16, 0>>}
MCValues == {<<1, "a">>, <<3, "b">>, <<8, "c">>}
=============================================================================
