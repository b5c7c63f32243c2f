-------------------------------- MODULE Trie --------------------------------
(***************************************************************************)
(* The Merkle Patricia trie of ebla/trie: Writer (Put, Delete, Commit) and *)
(* Reader (ForEach) over a column of nodes, by hash, and a column of       *)
(* values, by key.                                                         *)
(*                                                                         *)
(* A hash is the encoding it is the hash of.  An encoding is a tree of     *)
(* strings and lists with the size its RLP has; a node whose encoding is   *)
(* shorter than a hash stands in its parent.  Keys are byte strings and    *)
(* are converted to nibbles and to the compact form as the code does.      *)
(***************************************************************************)
EXTENDS Integers, Sequences, FiniteSets, FiniteSetsExt, SequencesExt

CONSTANTS
    Keys,                       \* sequences of KeyLength bytes
    KeyLength,                  \* bytes of a key (32)
    Values,                     \* pairs of a size and a name
    ChildCnt,                   \* children of a full node (16)
    HashLength,                 \* bytes of a hash (32, scaled)
    MaxValueSizeToStoreInTrie,  \* (8, scaled)
    FullNodeLevelsToCache,
    MaxOps                      \* bound: operations

ASSUME TrieAssumption ==
    /\ Keys \subseteq [1..KeyLength -> 0..255]
    /\ \A v \in Values : v[1] \in Nat \ {0} /\ v[1] # HashLength
    /\ MaxValueSizeToStoreInTrie < HashLength

VARIABLES
    root,       \* the writer's tree
    nodes,      \* column of nodes: from hashes to storage encodings
    values,     \* column of values
    contents,   \* what was put and not deleted
    committed,  \* the root the last commit returned, and the contents then
    clean,      \* nothing was written since
    ops

vars == <<root, nodes, values, contents, committed, clean, ops>>

NoValue == <<0, "none">>
NoHash == [enc |-> "none"]
-----------------------------------------------------------------------------
(* Encodings of keys (encoding.go).                                        *)

Terminator == 16

hasTerm(s) == s # <<>> /\ Last(s) = Terminator

Body(s) == IF hasTerm(s) THEN Front(s) ELSE s

decodeNibbles(nibbles) ==
    [b \in 1..(Len(nibbles) \div 2) |-> nibbles[2 * b - 1] * 16 + nibbles[2 * b]]

keybytes_to_hex(key) ==
    [n \in 1..(2 * Len(key) + 1) |->
        IF n = 2 * Len(key) + 1 THEN Terminator
        ELSE IF n % 2 = 1 THEN key[(n + 1) \div 2] \div 16 ELSE key[n \div 2] % 16]

hex_to_keybytes(hex) == decodeNibbles(Body(hex))

hex_to_compact(hex) ==
    LET odd  == Len(Body(hex)) % 2
        flag == (IF hasTerm(hex) THEN 32 ELSE 0) + (IF odd = 1 THEN 16 + hex[1] ELSE 0)
    IN  <<flag>> \o decodeNibbles(SubSeq(Body(hex), odd + 1, Len(Body(hex))))

compact_to_hex(compact) ==
    LET hex == keybytes_to_hex(compact)
        cut == IF hex[1] < 2 THEN Front(hex) ELSE hex
    IN  SubSeq(cut, 3 - (hex[1] % 2), Len(cut))

prefixLen(a, b) ==
    Max({n \in 0..Min({Len(a), Len(b)}) : SubSeq(a, 1, n) = SubSeq(b, 1, n)})

Drop(s, n) == SubSeq(s, n + 1, Len(s))
Take(s, n) == SubSeq(s, 1, n)
-----------------------------------------------------------------------------
(* Nodes in memory (layout.go).  A value node without value (nil_val_node) *)
(* stands for one that is only in the column of values.                    *)

Nil == [type |-> "nil"]
node_hash(h) == [type |-> "hash", hash |-> h]
value_node(v, cached) == [type |-> "value", val |-> v, cached |-> cached]
nil_val_node == [type |-> "value", val |-> NoValue, cached |-> TRUE]
short_node(key, val, h) == [type |-> "short", key_part |-> key, val |-> val, hash |-> h]
full_node(children, h) == [type |-> "full", children |-> children, hash |-> h]

Nibbles == 0..(ChildCnt - 1)

(* Encodings: for the hash and for storage.                                *)

Ref(h) == [enc |-> "hash", of |-> h]
Str(v) == [enc |-> "string", str |-> v]
NoStr == [enc |-> "empty"]
EncShort(compact, content) == [enc |-> "short", key |-> compact, content |-> content]
EncFull(children) == [enc |-> "full", children |-> children]

\* A list of 0 to 55 bytes has one byte before it, a string too unless it is one small byte.
StrSize(n) == IF n = 1 THEN 1 ELSE n + 1

RECURSIVE ListSize(_)
ListSize(e) ==
    CASE e.enc = "hash"   -> StrSize(HashLength)
      [] e.enc = "string" -> StrSize(e.str[1])
      [] e.enc = "empty"  -> 1
      [] e.enc = "short"  -> 1 + StrSize(Len(e.key)) + ListSize(e.content)
      [] e.enc = "full"   -> 2 + MapThenSumSet(LAMBDA n : ListSize(e.children[n]), Nibbles)

\* hash_encoder.ListEnd: the hash of a list that is long enough, or of the root.
HashOfList(e, is_root) == IF ListSize(e) < HashLength /\ ~is_root THEN NoHash ELSE e
-----------------------------------------------------------------------------
(* Reader: nodes and values from the database.                             *)

resolve_val_n(key) == value_node(values[key], TRUE)

resolve_val_n_by_hex_k(hex) == resolve_val_n(hex_to_keybytes(hex))

\* dec_node, dec_short and dec_full.  A leaf has its value with it, or its own hash, or
\* nothing; what follows an extension is decoded without a hash.
RECURSIVE dec_node(_, _, _)
dec_node(e, prefix, h) ==
    CASE e.enc = "empty" -> Nil
      [] e.enc = "hash"  -> node_hash(e.of)
      [] e.enc = "full"  ->
             full_node([n \in Nibbles |-> dec_node(e.children[n], Append(prefix, n), NoHash)], h)
      [] e.enc = "short" ->
             LET key == compact_to_hex(e.key)
                 child == dec_node(e.content, prefix \o key, NoHash)
             IN  IF ~hasTerm(key)
                 THEN short_node(key, child,
                          IF child.type = "hash" /\ h = NoHash THEN EncShort(e.key, e.content) ELSE h)
                 ELSE CASE e.content.enc = "empty"  ->
                               short_node(key, resolve_val_n_by_hex_k(prefix \o key), h)
                        [] e.content.enc = "hash"   -> short_node(key, nil_val_node, e.content.of)
                        [] e.content.enc = "string" -> short_node(key, value_node(e.content.str, TRUE), h)

resolve(h, prefix) == dec_node(nodes[h], prefix, h)

\* for_each: the keys and values below a node.
RECURSIVE for_each(_, _)
for_each(n, prefix) ==
    CASE n.type = "hash"  -> for_each(resolve(n.hash, prefix), prefix)
      [] n.type = "full"  -> UNION {for_each(n.children[c], Append(prefix, c)) :
                                        c \in {c \in Nibbles : n.children[c] # Nil}}
      [] n.type = "short" ->
             LET key == prefix \o n.key_part
             IN  IF n.val.type # "value" THEN for_each(n.val, key)
                 ELSE {<<hex_to_keybytes(key),
                         IF n.val = nil_val_node THEN resolve_val_n_by_hex_k(key).val ELSE n.val.val>>}
-----------------------------------------------------------------------------
(* Writer: insertion and deletion change the tree in memory.               *)

\* Mutant: a change leaves the hash of the nodes above it.
ChangedNot(n) == n

\* n.hash = nil
Changed(n) == [n EXCEPT !.hash = NoHash]

\* A short node moves down below a junction, or up to take the place of a full node; its
\* value is loaded first, as its hash is no longer there to stand for it.
shift(n, prefix, pivot, suffix, up) ==
    LET val == IF n.val = nil_val_node
               THEN resolve_val_n_by_hex_k(Append(prefix, pivot) \o suffix) ELSE n.val
    IN  IF up THEN [n EXCEPT !.key_part = <<pivot>> \o suffix, !.val = val]
        ELSE IF suffix = <<>> THEN val
        ELSE [n EXCEPT !.key_part = suffix, !.val = val]

\* prefix is the part of the key above the node, key the part that is left.
RECURSIVE mpt_insert(_, _, _, _)
mpt_insert(n, prefix, key, value) ==
    CASE n.type = "nil"  -> short_node(key, value, NoHash)
      [] n.type = "hash" -> mpt_insert(resolve(n.hash, prefix), prefix, key, value)
      [] n.type = "full" ->
             [Changed(n) EXCEPT !.children[key[1]] =
                  mpt_insert(@, Append(prefix, key[1]), Tail(key), value)]
      [] n.type = "short" ->
             LET match == prefixLen(key, n.key_part)
                 upto  == prefix \o Take(key, match)
                 pivot == n.key_part[match + 1]
                 junction == full_node([c \in Nibbles |->
                     CASE c = pivot -> shift(Changed(n), upto, pivot, Drop(n.key_part, match + 1), FALSE)
                       [] c = key[match + 1] -> short_node(Drop(key, match + 1), value, NoHash)
                       [] OTHER -> Nil], NoHash)
             IN  CASE match = Len(key) -> [Changed(n) EXCEPT !.val = value]
                   [] match < Len(key) /\ match = Len(n.key_part) ->
                          [Changed(n) EXCEPT !.val = mpt_insert(@, upto, Drop(key, match), value)]
                   [] match = 0 -> junction
                   [] OTHER -> short_node(Take(key, match), junction, NoHash)

\* A short node takes over the key and value of a short node below it.
join(n, child) ==
    IF child.type = "short" THEN [n EXCEPT !.key_part = @ \o child.key_part, !.val = child.val]
    ELSE [n EXCEPT !.val = child]

\* The last child of a full node takes its place.
onlyChild(n, nibble, prefix) ==
    LET child == n.children[nibble]
        loaded == IF child.type = "hash" THEN resolve(child.hash, Append(prefix, nibble)) ELSE child
    IN  IF loaded.type = "short" THEN shift(Changed(loaded), prefix, nibble, loaded.key_part, TRUE)
        ELSE short_node(<<nibble>>, loaded, NoHash)

\* The node without the key, or what the search for a key that is not there leaves: short
\* nodes on its way have lost their hash, nodes it loaded are not kept.
RECURSIVE mpt_del(_, _, _)
mpt_del(n, prefix, key) ==
    CASE n.type = "nil"  -> [found |-> FALSE, node |-> n]
      [] n.type = "hash" ->
             LET r == mpt_del(resolve(n.hash, prefix), prefix, key)
             IN  IF r.found THEN r ELSE [found |-> FALSE, node |-> n]
      [] n.type = "short" ->
             LET match == prefixLen(key, n.key_part)
                 r == mpt_del(n.val, prefix \o n.key_part, Drop(key, match))
             IN  CASE match # Len(n.key_part) -> [found |-> FALSE, node |-> n]
                   [] match = Len(n.key_part) /\ match = Len(key) -> [found |-> TRUE, node |-> Nil]
                   [] OTHER -> [found |-> r.found,
                                node |-> IF r.found THEN join(Changed(n), r.node)
                                         ELSE [Changed(n) EXCEPT !.val = r.node]]
      [] n.type = "full" ->
             LET c == key[1]
                 r == mpt_del(n.children[c], Append(prefix, c), Tail(key))
                 others == {o \in Nibbles \ {c} : n.children[o] # Nil}
             IN  [found |-> r.found,
                  node |-> IF ~r.found THEN [n EXCEPT !.children[c] = r.node]
                           ELSE IF r.node = Nil /\ Cardinality(others) = 1
                           THEN onlyChild(n, CHOOSE o \in others : TRUE, prefix)
                           ELSE [Changed(n) EXCEPT !.children[c] = r.node]]
-----------------------------------------------------------------------------
(* Writer: commit.  For a node it gives the node to keep, its encodings,   *)
(* and what is put into the columns.  With off set the hash encoder is     *)
(* disabled (the hash of a node above is known).                           *)

Garbage == Str(<<1, "garbage">>)

\* Mutant: a value is stored in the node if it has not been stored before.
LeafContentFresh(h, n) ==
    IF h # NoHash THEN Ref(h)
    ELSE IF n.val.val[1] <= MaxValueSizeToStoreInTrie \/ ~n.val.cached THEN Str(n.val.val) ELSE NoStr

\* What a leaf is stored with: its hash if it has one, a small value, or nothing.
LeafContent(h, n) ==
    IF h # NoHash THEN Ref(h)
    ELSE IF n.val.val[1] <= MaxValueSizeToStoreInTrie THEN Str(n.val.val) ELSE NoStr

Kept(n, above) == IF FullNodeLevelsToCache <= above THEN node_hash(n.hash) ELSE n

RECURSIVE commit(_, _, _, _)
commit(n, off, above, prefix) ==
    LET is_root == prefix = <<>>
        Done(node, eh, es, ns, vs) == [node |-> node, enc_hash |-> eh, enc_storage |-> es, nodes |-> ns, values |-> vs]
    IN
    CASE n.type = "nil"  -> Done(n, NoStr, NoStr, {}, {})
      [] n.type = "hash" -> Done(n, Ref(n.hash), Ref(n.hash), {}, {})
      [] n.type = "short" ->
             LET known == n.hash # NoHash
                 disabled == IF known THEN ~off ELSE off
                 leaf == n.val.type = "value"
                 compact == hex_to_compact(n.key_part)
                 child == commit(n.val, disabled, above, prefix \o n.key_part)
                 list == EncShort(compact, IF leaf THEN Str(n.val.val) ELSE child.enc_hash)
                 h == IF disabled \/ known THEN n.hash ELSE HashOfList(list, is_root)
                 es == EncShort(compact, IF leaf THEN LeafContent(h, n) ELSE child.enc_storage)
             IN  Done([n EXCEPT !.hash = h, !.val = IF leaf THEN @ ELSE child.node],
                      IF known /\ off THEN Garbage ELSE IF h # NoHash THEN Ref(h) ELSE list,
                      es,
                      (IF leaf THEN {} ELSE child.nodes) \cup (IF is_root THEN {<<h, es>>} ELSE {}),
                      IF ~leaf THEN child.values
                      ELSE IF n.val.cached THEN {} ELSE {<<hex_to_keybytes(prefix \o n.key_part), n.val.val>>})
      [] n.type = "full" ->
             IF n.hash # NoHash THEN Done(Kept(n, above), Ref(n.hash), Ref(n.hash), {}, {})
             ELSE LET sub == [c \in Nibbles |-> commit(n.children[c], off, above + 1, Append(prefix, c))]
                      list == EncFull([c \in Nibbles |-> sub[c].enc_hash])
                      h == IF off THEN NoHash ELSE HashOfList(list, is_root)
                      new == full_node([c \in Nibbles |-> sub[c].node], h)
                      es == EncFull([c \in Nibbles |-> sub[c].enc_storage])
                      below == UNION {sub[c].nodes : c \in Nibbles}
                      vs == UNION {sub[c].values : c \in Nibbles}
                  IN  IF h = NoHash THEN Done(new, list, es, below, vs)
                      ELSE Done(Kept(new, above), Ref(h), IF is_root THEN es ELSE Ref(h),
                                below \cup {<<h, es>>}, vs)
-----------------------------------------------------------------------------
Init ==
    /\ root = Nil /\ nodes = <<>> /\ values = [k \in Keys |-> NoValue]
    /\ contents = [k \in Keys |-> NoValue]
    /\ committed = [root |-> NoHash, contents |-> contents]
    /\ clean = TRUE /\ ops = 0

Step == ops < MaxOps /\ ops' = ops + 1

Put(k, v) ==
    /\ Step
    /\ root' = mpt_insert(root, <<>>, keybytes_to_hex(k), value_node(v, FALSE))
    /\ contents' = [contents EXCEPT ![k] = v]
    /\ clean' = FALSE
    /\ UNCHANGED <<nodes, values, committed>>

\* Mutant: the value of a deleted key stays in its column.
DeleteKeeping(k) ==
    /\ Step
    /\ root' = mpt_del(root, <<>>, keybytes_to_hex(k)).node
    /\ contents' = [contents EXCEPT ![k] = NoValue]
    /\ clean' = FALSE
    /\ UNCHANGED <<nodes, values, committed>>

\* Delete of a key that is not there stops before the column of values.
Delete(k) ==
    LET r == mpt_del(root, <<>>, keybytes_to_hex(k)) IN
    /\ Step
    /\ root' = r.node
    /\ values' = IF r.found THEN [values EXCEPT ![k] = NoValue] ELSE values
    /\ contents' = [contents EXCEPT ![k] = NoValue]
    /\ clean' = FALSE
    /\ UNCHANGED <<nodes, committed>>

RootHash(n) == IF n = Nil THEN NoHash ELSE n.hash

\* Writes to a column, as pairs.
Written(column, puts) ==
    [x \in DOMAIN column \cup {p[1] : p \in puts} |->
        IF \E p \in puts : p[1] = x THEN (CHOOSE p \in puts : p[1] = x)[2] ELSE column[x]]

Commit ==
    /\ Step
    /\ clean' = TRUE
    /\ IF root = Nil \/ RootHash(root) # NoHash
       THEN /\ committed' = [root |-> RootHash(root), contents |-> contents]
            /\ UNCHANGED <<root, nodes, values>>
       ELSE LET r == commit(root, FALSE, 0, <<>>)
            IN  /\ root' = r.node
                /\ nodes' = Written(nodes, r.nodes)
                /\ values' = Written(values, r.values)
                /\ committed' = [root |-> RootHash(r.node), contents |-> contents]
    /\ UNCHANGED contents

\* Writer.Init on the last root, after a restart or for the next change of an account.
Open ==
    /\ Step
    /\ clean
    /\ root' = IF committed.root = NoHash THEN Nil ELSE node_hash(committed.root)
    /\ UNCHANGED <<nodes, values, contents, committed, clean>>

Next ==
    \/ \E k \in Keys, v \in Values : Put(k, v)
    \/ \E k \in Keys : Delete(k)
    \/ Commit
    \/ Open

Spec == Init /\ [][Next]_vars
-----------------------------------------------------------------------------
(* The trie of a set of keys and values, by its definition.                *)

RECURSIVE Canonical(_)
Canonical(S) ==
    LET InParent(e) == IF ListSize(e) < HashLength THEN e ELSE Ref(e)
        common == Max({n \in 0..(2 * KeyLength + 1) : \A p, q \in S :
                          n <= Len(p[1]) /\ Take(p[1], n) = Take(q[1], n)})
        key == (CHOOSE p \in S : TRUE)[1]
        Below(n) == {<<Drop(p[1], n), p[2]>> : p \in S}
    IN  IF Cardinality(S) = 1
        THEN EncShort(hex_to_compact(key), Str((CHOOSE p \in S : TRUE)[2]))
        ELSE IF common > 0
        THEN EncShort(hex_to_compact(Take(key, common)), InParent(Canonical(Below(common))))
        ELSE EncFull([c \in Nibbles |->
                LET mine == {p \in S : p[1][1] = c}
                IN  IF mine = {} THEN NoStr
                    ELSE InParent(Canonical({<<Tail(p[1]), p[2]>> : p \in mine}))])

Pairs(m) == {<<k, m[k]>> : k \in {k \in Keys : m[k] # NoValue}}

HexPairs(m) == {<<keybytes_to_hex(p[1]), p[2]>> : p \in Pairs(m)}

\* The root depends on the contents alone, however they came about (by which writes, with
\* which commits and reopenings between them, from nodes kept, loaded or embedded): it is
\* the root of the trie as defined.  Every node of the network must agree on it.
RootCanonical ==
    committed.root = IF Pairs(committed.contents) = {} THEN NoHash
                     ELSE Canonical(HexPairs(committed.contents))

\* No short node has a short node below it, and no full node less than two children:
\* mpt_insert and mpt_del rely on that shape.
RECURSIVE Shaped(_)
Shaped(n) ==
    CASE n.type = "short" -> n.val.type \in {"value", "hash"} \/ (n.val.type = "full" /\ Shaped(n.val))
      [] n.type = "full"  ->
             /\ Cardinality({c \in Nibbles : n.children[c] # Nil}) >= 2
             /\ \A c \in Nibbles : Shaped(n.children[c])
      [] OTHER -> TRUE

\* The writer's tree, changes that are not committed included, has the contents put and not
\* deleted.  After a commit the database alone gives them back: every node and value that
\* the committed trie needs is in its column (Reader.resolve and resolve_val_n find it), and
\* the column of values holds nothing else.
ReadsBack ==
    /\ Shaped(root)
    /\ (IF root = Nil THEN {} ELSE for_each(root, <<>>)) = Pairs(contents)
    /\ clean =>
         /\ values = contents
         /\ committed.root # NoHash => for_each(node_hash(committed.root), <<>>) = Pairs(contents)

\* A node once stored under a hash never changes: older blocks read it by that hash, so
\* the storage encoding must depend on nothing the hash does not.
NodesStable == [][\A h \in DOMAIN nodes : h \in DOMAIN nodes' /\ nodes'[h] = nodes[h]]_vars
=============================================================================
