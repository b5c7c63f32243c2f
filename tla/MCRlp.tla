-------------------------------- MODULE MCRlp --------------------------------
(* Instances of Rlp: twelve byte values, of which 0 and 1 stand for          *)
(* themselves; sizes from 3 on have size bytes.                             *)
EXTENDS Rlp

\* The empty string, single bytes with and without a head, a leading zero, a string with one
\* size byte and one with two.
MCStrings == {<<>>, <<0>>, <<1>>, <<2>>, <<0, 1>>, [i \in 1..3 |-> 0],
              [i \in 1..13 |-> 3]}
MCUints == {0, 1, 2, 12}

\* All inputs of up to four bytes, those that begin like a string or list of three bytes, and
\* some with two size bytes.
MCInputs == UNION {[1..n -> Bytes] : n \in 0..4}
            \cup {<<tag + 1, 3, x, y, z>> : tag \in {LongString, LongList}, x, y, z \in Bytes}
            \cup {<<tag + 2, x, 3, 0, y, 1>> : tag \in {LongString, LongList}, x, y \in Bytes}
=============================================================================
