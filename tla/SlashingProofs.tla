---------------------------- MODULE SlashingProofs ----------------------------
(***************************************************************************)
(* Proofs about the slashing contract, for every set of nodes, validators  *)
(* and votes, every delay and jail time.                                   *)
(***************************************************************************)
EXTENDS Slashing, FiniteSums

-----------------------------------------------------------------------------
(* The loop of the cleanup.                                                *)

\* The recursive definition of the loop has a solution.
LEMMA LoopDefined ==
  ASSUME NEW list \in Seq(Validators), NEW jail, NEW b
  PROVE  \E kept :
           /\ \A i \in 0..Len(list) : kept[i] =
                 IF i = 0 THEN <<>>
                 ELSE IF jail[list[i]] > b THEN Append(kept[i - 1], list[i]) ELSE kept[i - 1]
           /\ StillJailed(list, jail, b) = kept[Len(list)]
<1> DEFINE Item(g, i) == IF i = 0 THEN <<>>
                         ELSE IF jail[list[i]] > b THEN Append(g[i - 1], list[i]) ELSE g[i - 1]
           Eq(g, n) == \A i \in 0..n : g[i] = Item(g, i)
           Bad == {n \in Nat : ~ \E g : Eq(g, n)}
<1> HIDE DEF Bad
<1>1. Bad = {}
  <2> SUFFICES ASSUME Bad # {} PROVE FALSE
    OBVIOUS
  <2>1. PICK n \in Bad : \A m \in Bad : n <= m
    BY LeastNatural DEF Bad
  <2>2. n \in Nat /\ ~ \E g : Eq(g, n)
    BY <2>1 DEF Bad
  <2>3. CASE n = 0
    <3> DEFINE g == [i \in 0..0 |-> <<>>]
    <3>1. Eq(g, 0)
      OBVIOUS
    <3> QED BY <3>1, <2>2, <2>3
  <2>4. CASE n # 0
    <3>1. n - 1 \in Nat /\ n - 1 \notin Bad
      BY <2>1, <2>2, <2>4
    <3>2. PICK g : Eq(g, n - 1)
      BY <3>1 DEF Bad
    <3> DEFINE h == [i \in 0..n |-> IF i = n THEN Item(g, n) ELSE g[i]]
    <3>3. ASSUME NEW i \in 0..n PROVE h[i] = Item(h, i)
      <4>1. CASE i = 0
        BY <4>1, <3>2, <2>4, <3>1
      <4>2. CASE i # 0
        <5>1. h[i - 1] = g[i - 1]
          BY <4>2, <2>2
        <5>2. CASE i = n
          BY <5>1, <5>2, <4>2
        <5>3. CASE i # n
          BY <5>1, <5>3, <4>2, <3>2, <2>2
        <5> QED BY <5>2, <5>3
      <4> QED BY <4>1, <4>2
    <3>4. Eq(h, n)
      BY <3>3
    <3> QED BY <3>4, <2>2
  <2> QED BY <2>3, <2>4
<1>2. Len(list) \in Nat
  OBVIOUS
<1>3. PICK g : Eq(g, Len(list))
  BY <1>1, <1>2 DEF Bad
<1> DEFINE f == [i \in 0..Len(list) |-> g[i]]
           kept == CHOOSE k : k = [i \in 0..Len(list) |-> Item(k, i)]
<1>4. f = [i \in 0..Len(list) |-> Item(f, i)]
  <2>1. \A i \in 0..Len(list) : f[i] = Item(f, i)
    BY <1>3, <1>2
  <2> QED BY <2>1
<1>5. kept = [i \in 0..Len(list) |-> Item(kept, i)]
  <2> HIDE DEF f
  <2> QED BY <1>4, Zenon
<1>6. StillJailed(list, jail, b) = kept[Len(list)]
  BY Zenon DEF StillJailed
<1> HIDE DEF kept
<1>7. \A i \in 0..Len(list) : kept[i] = Item(kept, i)
  BY <1>5, Zenon
<1> QED BY <1>6, <1>7

\* The cleanup takes validators from the list and adds none; no validator comes twice.
LEMMA StillJailedSublist ==
  ASSUME NEW list \in Seq(Validators), NEW jail, NEW b,
         \A i, j \in 1..Len(list) : list[i] = list[j] => i = j
  PROVE  LET s == StillJailed(list, jail, b)
         IN  /\ s \in Seq(Validators)
             /\ \A i, j \in 1..Len(s) : s[i] = s[j] => i = j
             /\ \A i \in 1..Len(s) : \E k \in 1..Len(list) : s[i] = list[k]
<1>1. PICK kept :
           /\ \A i \in 0..Len(list) : kept[i] =
                 IF i = 0 THEN <<>>
                 ELSE IF jail[list[i]] > b THEN Append(kept[i - 1], list[i]) ELSE kept[i - 1]
           /\ StillJailed(list, jail, b) = kept[Len(list)]
  BY LoopDefined
<1> DEFINE Ok(n) == /\ kept[n] \in Seq(Validators)
                    /\ \A i, j \in 1..Len(kept[n]) : kept[n][i] = kept[n][j] => i = j
                    /\ \A i \in 1..Len(kept[n]) : \E k \in 1..n : kept[n][i] = list[k]
           Bad == {n \in 0..Len(list) : ~Ok(n)}
<1>2. Len(list) \in Nat
  OBVIOUS
<1>3. Bad = {}
  <2> SUFFICES ASSUME Bad # {} PROVE FALSE
    OBVIOUS
  <2>0. Bad \in SUBSET Nat
    BY <1>2
  <2> HIDE DEF Ok, Bad
  <2>1. PICK n \in Bad : \A m \in Bad : n <= m
    BY <2>0, LeastNatural
  <2>a. n \in 0..Len(list) /\ ~Ok(n)
    BY <2>1 DEF Bad
  <2>2. CASE n = 0
    <3>1. kept[0] = <<>>
      BY <1>1, <1>2
    <3>2. Ok(0)
      BY <3>1 DEF Ok
    <3> QED BY <2>2, <2>a, <3>2
  <2>3. CASE n # 0
    <3>1. n - 1 \in 0..Len(list) /\ Ok(n - 1)
      BY <2>1, <2>a, <2>3, <1>2 DEF Bad
    <3>2. CASE kept[n] = kept[n - 1]
      <4>1. \A k \in 1..(n - 1) : k \in 1..n
        BY <2>a, <1>2
      <4>2. Ok(n)
        BY <3>1, <3>2, <4>1 DEF Ok
      <4> QED BY <4>2, <2>a
    <3>3. CASE kept[n] = Append(kept[n - 1], list[n])
      <4> DEFINE s == kept[n - 1]
                 t == kept[n]
      <4>1. list[n] \in Validators /\ n \in 1..Len(list)
        BY <2>a, <2>3, <1>2
      <4>2. /\ s \in Seq(Validators) /\ t \in Seq(Validators) /\ Len(t) = Len(s) + 1
            /\ \A i \in 1..Len(s) : t[i] = s[i]
            /\ t[Len(s) + 1] = list[n]
        BY <3>1, <3>3, <4>1 DEF Ok
      <4>3. \A i \in 1..Len(s) : s[i] # list[n] /\ \E k \in 1..n : s[i] = list[k]
        <5> TAKE i \in 1..Len(s)
        <5>1. PICK k \in 1..(n - 1) : s[i] = list[k]
          BY <3>1 DEF Ok
        <5> QED BY <5>1, <4>1, <1>2
      <4>4. \A i, j \in 1..Len(s) : s[i] = s[j] => i = j
        BY <3>1 DEF Ok
      <4> HIDE DEF s, t
      <4>0. \A i \in 1..Len(t) : i \in 1..Len(s) \/ i = Len(s) + 1
        <5>1. Len(s) \in Nat
          BY <4>2
        <5> QED BY <5>1, <4>2
      <4>5. \A i, j \in 1..Len(t) : t[i] = t[j] => i = j
        BY <4>0, <4>2, <4>3, <4>4
      <4>6. \A i \in 1..Len(t) : \E k \in 1..n : t[i] = list[k]
        <5>1. n \in 1..n
          BY <4>1
        <5> QED BY <4>0, <4>2, <4>3, <5>1
      <4>7. Ok(n)
        BY <4>2, <4>5, <4>6 DEF Ok, t
      <4> QED BY <4>7, <2>a
    <3> QED BY <3>2, <3>3, <1>1, <2>3, <2>a
  <2> QED BY <2>2, <2>3
<1>4. Ok(Len(list))
  <2>1. Len(list) \in 0..Len(list)
    BY <1>2
  <2> HIDE DEF Ok
  <2> QED BY <2>1, <1>3
<1> QED BY <1>1, <1>4
-----------------------------------------------------------------------------
(* The inductive invariant.                                                *)

\* What every stored version of the contract satisfies: its type, a list without
\* repetitions, and nothing against an honest validator.
GoodStore(s) ==
    /\ s \in StoreType
    /\ \A i, j \in 1..Len(s.listed) : s.listed[i] = s.listed[j] => i = j
    /\ \A v \in Honest : s.jail[v] = 0 /\ \A i \in 1..Len(s.listed) : s.listed[i] # v

\* What two nodes must agree on: all but the list.
SameFacts(s, t) == s.jail = t.jail /\ s.proofs = t.proofs

StoresGood ==
    /\ \A n \in Nodes : GoodStore(cache[n]) /\ GoodStore(dirty[n])
    /\ \A n \in Nodes : \A b \in 0..(number - 1) : GoodStore(chain[n][b])

StoresAgree ==
    /\ \A m, n \in Nodes : SameFacts(cache[m], cache[n]) /\ SameFacts(dirty[m], dirty[n])
    /\ \A m, n \in Nodes : \A b \in 0..(number - 1) : SameFacts(chain[m][b], chain[n][b])

\* An accepted proof is known in what every node reads and in what it will commit.
AcceptedKnown ==
    \A k \in ProofKeys :
        /\ accepted[k] <= 1
        /\ accepted[k] = 1 => \A n \in Nodes : k \in cache[n].proofs /\ k \in dirty[n].proofs

IInv == TypeOK /\ StoresGood /\ StoresAgree /\ AcceptedKnown

\* The block a delayed reader looks at is committed.
LEMMA DelayedIsCommitted ==
  ASSUME NEW b \in Nat
  PROVE  DelayedBlock(b) \in 0..b
BY SlashingAssumption DEF DelayedBlock

\* The genesis state, with nobody in jail and no proof stored, satisfies the inductive invariant.
LEMMA InitIInv == Init => IInv
<1> SUFFICES ASSUME Init PROVE IInv
  OBVIOUS
<1> USE SlashingAssumption DEF Init
<1>0. EmptyStore \in StoreType /\ GoodStore(EmptyStore)
  BY DEF EmptyStore, StoreType, GoodStore
<1>1. TypeOK
  <2>1. number \in 1..(MaxBlock + 1) /\ calls \in 0..MaxCalls /\ 0..(number - 1) = 0..0
    OBVIOUS
  <2> QED BY <1>0, <2>1, Zenon DEF TypeOK
<1>2. StoresGood
  BY <1>0 DEF StoresGood
<1>3. StoresAgree
  BY DEF StoresAgree, SameFacts
<1>4. AcceptedKnown
  BY DEF AcceptedKnown
<1> QED BY <1>1, <1>2, <1>3, <1>4 DEF IInv

\* Two votes of one validator that make a valid proof are not from an honest one: an
\* honest validator signs two votes of a round and step only in a second finishing
\* step, one of them for no block, and these are not accepted.
LEMMA ProofConvicts ==
  ASSUME NEW n \in Nodes, NEW a \in Votes, NEW b \in Votes, ValidProof(n, a, b)
  PROVE  /\ a.signer \in Validators \ Honest
         /\ genDoubleVotingProofDbKey(a, b) \in ProofKeys
         /\ genDoubleVotingProofDbKey(a, b) \notin cache[n].proofs
<1>1. a.signer = b.signer /\ a.signer # Nobody /\ a.signer \in Validators
  BY SlashingAssumption DEF ValidProof, VoteType
<1>2. a.signer \notin Honest
  BY <1>1, SlashingAssumption DEF ValidProof
<1>3. genDoubleVotingProofDbKey(a, b) \in ProofKeys
  <2>1. a.hash \in Nat /\ b.hash \in Nat /\ a.hash # b.hash /\ a.hash \in Hashes /\ b.hash \in Hashes
    BY SlashingAssumption DEF ValidProof, VoteType, Hashes
  <2> QED BY <2>1 DEF genDoubleVotingProofDbKey, ProofKeys
<1> QED BY <1>1, <1>2, <1>3 DEF ValidProof, doubleVotingProoExists

\* What a call does to one stored version.
LEMMA CallKeepsStoreGood ==
  ASSUME IInv, NEW n \in Nodes, NEW a \in Votes, NEW b \in Votes,
         NEW store, GoodStore(store)
  PROVE  /\ GoodStore(AfterCall(n, store, a, b))
         /\ AfterCall(n, store, a, b).proofs =
              IF ValidProof(n, a, b) THEN store.proofs \cup {genDoubleVotingProofDbKey(a, b)}
              ELSE store.proofs
         /\ AfterCall(n, store, a, b).jail =
              IF ValidProof(n, a, b) THEN [store.jail EXCEPT ![a.signer] = number + JailTime]
              ELSE store.jail
<1>1. CASE ~ValidProof(n, a, b)
  BY <1>1 DEF AfterCall
<1>2. CASE ValidProof(n, a, b)
  <2> DEFINE v == a.signer
             key == genDoubleVotingProofDbKey(a, b)
             list == Delayed(n).listed
             added == IF Contains(list, v) THEN store.listed ELSE Append(list, v)
             after == AfterCall(n, store, a, b)
  <2>1. v \in Validators \ Honest /\ key \in ProofKeys
    BY <1>2, ProofConvicts
  <2> HIDE DEF v, key
  <2>2. /\ list \in Seq(Validators)
        /\ \A i, j \in 1..Len(list) : list[i] = list[j] => i = j
        /\ \A h \in Honest : \A i \in 1..Len(list) : list[i] # h
    <3>1. number - 1 \in Nat
      BY SlashingAssumption DEF IInv, TypeOK
    <3>2. GoodStore(Delayed(n))
      BY <3>1, DelayedIsCommitted DEF IInv, StoresGood, Delayed
    <3> QED BY <3>2 DEF GoodStore, StoreType
  <2>3. store \in StoreType
    BY DEF GoodStore
  <2>4. after = [jail |-> [store.jail EXCEPT ![v] = number + JailTime],
                 listed |-> added, proofs |-> store.proofs \cup {key}]
    BY <1>2, <2>3 DEF AfterCall, Jailed, saveDoubleVotingProof, jailValidator,
                      addToJailedValidators, StoreType, v, key
  <2>5. number + JailTime \in Nat
    BY SlashingAssumption DEF IInv, TypeOK
  <2> HIDE DEF after, list
  <2>6. /\ added \in Seq(Validators)
        /\ \A i, j \in 1..Len(added) : added[i] = added[j] => i = j
        /\ \A h \in Honest : \A i \in 1..Len(added) : added[i] # h
    <3>1. CASE Contains(list, v)
      BY <3>1 DEF GoodStore, StoreType
    <3>2. CASE ~Contains(list, v)
      <4>1. added \in Seq(Validators) /\ Len(added) = Len(list) + 1 /\ Len(list) \in Nat
        BY <3>2, <2>1, <2>2
      <4>2. \A i \in 1..Len(list) : added[i] = list[i] /\ list[i] # v
        BY <3>2, <2>1, <2>2 DEF Contains
      <4>3. added[Len(list) + 1] = v
        BY <3>2, <2>1, <2>2
      <4>4. \A i \in 1..Len(added) : i \in 1..Len(list) \/ i = Len(list) + 1
        BY <4>1
      <4> HIDE DEF added
      <4> QED BY <2>1, <2>2, <4>1, <4>2, <4>3, <4>4
    <3> QED BY <3>1, <3>2
  <2> HIDE DEF added
  <2>7. after \in StoreType
    BY <2>1, <2>3, <2>4, <2>5, <2>6 DEF StoreType
  <2>8. \A h \in Honest : after.jail[h] = 0
    BY <2>1, <2>3, <2>4 DEF GoodStore, StoreType
  <2>9. GoodStore(after)
    BY <2>4, <2>6, <2>7, <2>8 DEF GoodStore
  <2> QED BY <1>2, <2>4, <2>9 DEF after, v, key
<1> QED BY <1>1, <1>2
\* Whether a proof is valid does not depend on the node.
LEMMA ProofForAllNodes ==
  ASSUME IInv, NEW m \in Nodes, NEW n \in Nodes, NEW a \in Votes, NEW b \in Votes,
         ValidProof(m, a, b)
  PROVE  ValidProof(n, a, b)
BY DEF IInv, StoresAgree, SameFacts, ValidProof, doubleVotingProoExists

\* A call, accepted or undone, leaves good stores that agree, in the cache and in what
\* will be committed.
LEMMA CallOnAll ==
  ASSUME IInv, NEW a \in Votes, NEW b \in Votes, \E n \in Nodes : ValidProof(n, a, b),
         NEW stores \in [Nodes -> StoreType],
         \A n \in Nodes : GoodStore(stores[n]),
         \A m, n \in Nodes : SameFacts(stores[m], stores[n]),
         NEW after, after = [n \in Nodes |-> AfterCall(n, stores[n], a, b)]
  PROVE  /\ after \in [Nodes -> StoreType]
         /\ \A n \in Nodes : GoodStore(after[n])
         /\ \A m, n \in Nodes : SameFacts(after[m], after[n])
         /\ \A n \in Nodes : after[n].proofs = stores[n].proofs \cup {genDoubleVotingProofDbKey(a, b)}
<1>1. \A n \in Nodes : ValidProof(n, a, b)
  BY ProofForAllNodes
<1>2. \A n \in Nodes :
        /\ GoodStore(after[n])
        /\ after[n].proofs = stores[n].proofs \cup {genDoubleVotingProofDbKey(a, b)}
        /\ after[n].jail = [stores[n].jail EXCEPT ![a.signer] = number + JailTime]
  BY <1>1, CallKeepsStoreGood
<1>3. ASSUME NEW m \in Nodes, NEW n \in Nodes PROVE SameFacts(after[m], after[n])
  <2>1. stores[m].jail = stores[n].jail /\ stores[m].proofs = stores[n].proofs
    BY DEF SameFacts
  <2> QED BY <1>2, <2>1 DEF SameFacts
<1>4. \A n \in Nodes : after[n] \in StoreType
  BY <1>2 DEF GoodStore
<1> QED BY <1>2, <1>3, <1>4

\* Committing a double-vote proof in a block that is kept preserves the invariant.
LEMMA CommitProofStep ==
  ASSUME IInv, NEW a \in Votes, NEW b \in Votes, commitDoubleVotingProof(a, b)
  PROVE  IInv'
<1> DEFINE key == genDoubleVotingProofDbKey(a, b)
<1>0. PICK w \in Nodes : ValidProof(w, a, b)
  BY DEF commitDoubleVotingProof
<1>1. key \in ProofKeys /\ key \notin cache[w].proofs
  BY <1>0, ProofConvicts
<1>2. /\ cache' \in [Nodes -> StoreType]
      /\ \A n \in Nodes : GoodStore(cache'[n])
      /\ \A m, n \in Nodes : SameFacts(cache'[m], cache'[n])
      /\ \A n \in Nodes : cache'[n].proofs = cache[n].proofs \cup {key}
  <2>1. /\ cache \in [Nodes -> StoreType] /\ \A n \in Nodes : GoodStore(cache[n])
        /\ \A m, n \in Nodes : SameFacts(cache[m], cache[n])
    BY DEF IInv, TypeOK, StoresGood, StoresAgree
  <2>2. cache' = [n \in Nodes |-> AfterCall(n, cache[n], a, b)]
    BY DEF commitDoubleVotingProof
  <2> QED BY <1>0, <2>1, <2>2, CallOnAll
<1>3. /\ dirty' \in [Nodes -> StoreType]
      /\ \A n \in Nodes : GoodStore(dirty'[n])
      /\ \A m, n \in Nodes : SameFacts(dirty'[m], dirty'[n])
      /\ \A n \in Nodes : dirty'[n].proofs = dirty[n].proofs \cup {key}
  <2>1. /\ dirty \in [Nodes -> StoreType] /\ \A n \in Nodes : GoodStore(dirty[n])
        /\ \A m, n \in Nodes : SameFacts(dirty[m], dirty[n])
    BY DEF IInv, TypeOK, StoresGood, StoresAgree
  <2>2. dirty' = [n \in Nodes |-> AfterCall(n, dirty[n], a, b)]
    BY DEF commitDoubleVotingProof
  <2> QED BY <1>0, <2>1, <2>2, CallOnAll
<1>4. number' = number /\ chain' = chain /\ power' = power /\ nextCleanUpBlock' = nextCleanUpBlock
      /\ exists' = TRUE /\ calls' = calls + 1 /\ calls < MaxCalls
      /\ accepted' = [accepted EXCEPT ![key] = @ + 1]
  BY DEF commitDoubleVotingProof, MayCall
<1> HIDE DEF key
<1>5. accepted[key] = 0
  BY <1>0, <1>1 DEF IInv, AcceptedKnown, TypeOK
<1>6. TypeOK'
  BY <1>1, <1>2, <1>3, <1>4, <1>5, SlashingAssumption DEF IInv, TypeOK
<1>7. StoresGood' /\ StoresAgree'
  BY <1>2, <1>3, <1>4 DEF IInv, StoresGood, StoresAgree
<1>8. AcceptedKnown'
  BY <1>1, <1>2, <1>3, <1>4, <1>5 DEF IInv, AcceptedKnown, TypeOK
<1> QED BY <1>6, <1>7, <1>8 DEF IInv

\* A proof whose call is rolled back leaves the stores as they were.
LEMMA RevertedProofStep ==
  ASSUME IInv, NEW a \in Votes, NEW b \in Votes, RevertedProof(a, b)
  PROVE  IInv'
<1> DEFINE key == genDoubleVotingProofDbKey(a, b)
<1>0. PICK w \in Nodes : ValidProof(w, a, b)
  BY DEF RevertedProof
<1>2. /\ cache' \in [Nodes -> StoreType]
      /\ \A n \in Nodes : GoodStore(cache'[n])
      /\ \A m, n \in Nodes : SameFacts(cache'[m], cache'[n])
      /\ \A n \in Nodes : cache'[n].proofs = cache[n].proofs \cup {key}
  <2>1. /\ cache \in [Nodes -> StoreType] /\ \A n \in Nodes : GoodStore(cache[n])
        /\ \A m, n \in Nodes : SameFacts(cache[m], cache[n])
    BY DEF IInv, TypeOK, StoresGood, StoresAgree
  <2>2. cache' = [n \in Nodes |-> AfterCall(n, cache[n], a, b)]
    BY DEF RevertedProof
  <2> QED BY <1>0, <2>1, <2>2, CallOnAll
<1>3. /\ dirty' \in [Nodes -> StoreType]
      /\ \A n \in Nodes : GoodStore(dirty'[n])
      /\ \A m, n \in Nodes : SameFacts(dirty'[m], dirty'[n])
      /\ \A n \in Nodes : dirty[n].proofs \subseteq dirty'[n].proofs
  <2>1. CASE exists
    <3>1. /\ dirty \in [Nodes -> StoreType] /\ \A n \in Nodes : GoodStore(dirty[n])
          /\ \A m, n \in Nodes : SameFacts(dirty[m], dirty[n])
      BY DEF IInv, TypeOK, StoresGood, StoresAgree
    <3>2. dirty' = [n \in Nodes |-> AfterCall(n, dirty[n], a, b)]
      BY <2>1 DEF RevertedProof
    <3>3. /\ dirty' \in [Nodes -> StoreType]
          /\ \A n \in Nodes : GoodStore(dirty'[n])
          /\ \A m, n \in Nodes : SameFacts(dirty'[m], dirty'[n])
          /\ \A n \in Nodes : dirty'[n].proofs = dirty[n].proofs \cup {key}
      BY <1>0, <3>1, <3>2, CallOnAll
    <3> QED BY <3>3
  <2>2. CASE ~exists
    BY <2>2 DEF RevertedProof, IInv, TypeOK, StoresGood, StoresAgree
  <2> QED BY <2>1, <2>2
<1>4. number' = number /\ chain' = chain /\ power' = power /\ nextCleanUpBlock' = nextCleanUpBlock
      /\ exists' = exists /\ calls' = calls + 1 /\ calls < MaxCalls /\ accepted' = accepted
  BY DEF RevertedProof, MayCall
<1> HIDE DEF key
<1>6. TypeOK'
  BY <1>2, <1>3, <1>4, SlashingAssumption DEF IInv, TypeOK
<1>7. StoresGood' /\ StoresAgree'
  BY <1>2, <1>3, <1>4 DEF IInv, StoresGood, StoresAgree
<1>8. AcceptedKnown'
  BY <1>2, <1>3, <1>4 DEF IInv, AcceptedKnown
<1> QED BY <1>6, <1>7, <1>8 DEF IInv

\* The end of a block: what is committed comes from what was to be committed, with a list
\* that only loses validators.
LEMMA CleanupKeepsStoreGood ==
  ASSUME IInv, NEW n \in Nodes
  PROVE  /\ GoodStore(AfterCleanup(n))
         /\ SameFacts(AfterCleanup(n), dirty[n])
         /\ CleanupDue(n) => NextCleanUp(n) \in Nat
<1> DEFINE last == chain[n][number - 1]
<1>0. number - 1 \in 0..(number - 1)
  BY SlashingAssumption DEF IInv, TypeOK
<1>1. GoodStore(last) /\ GoodStore(dirty[n])
  BY <1>0 DEF IInv, StoresGood
<1> HIDE DEF last
<1>2. last \in StoreType /\ dirty[n] \in StoreType
  BY <1>1 DEF GoodStore
<1>3. CASE CleanupDue(n)
  <2> DEFINE s == StillJailed(last.listed, last.jail, number)
  <2>1. /\ s \in Seq(Validators)
        /\ \A i, j \in 1..Len(s) : s[i] = s[j] => i = j
        /\ \A i \in 1..Len(s) : \E k \in 1..Len(last.listed) : s[i] = last.listed[k]
    BY <1>1, <1>2, StillJailedSublist DEF GoodStore, StoreType
  <2>2. AfterCleanup(n) = [dirty[n] EXCEPT !.listed = s]
    BY <1>3 DEF AfterCleanup, CleanedUp, last
  <2> HIDE DEF s
  <2>3. AfterCleanup(n) = [jail |-> dirty[n].jail, listed |-> s, proofs |-> dirty[n].proofs]
    BY <2>2, <1>2 DEF StoreType
  <2>4. \A v \in Honest : \A i \in 1..Len(s) : s[i] # v
    BY <2>1, <1>1 DEF GoodStore
  <2>5. GoodStore(AfterCleanup(n))
    BY <1>1, <1>2, <2>1, <2>3, <2>4 DEF GoodStore, StoreType
  <2>6. NextCleanUp(n) \in Nat
    <3> DEFINE J == {last.jail[v] : v \in Range(last.listed)}
    <3>1. J \in SUBSET Nat
      BY <1>2 DEF StoreType, Range
    <3>2. J # {}
      <4>1. last.listed \in Seq(Validators) /\ last.listed # <<>>
        BY <1>2, <1>3 DEF StoreType, CleanupDue, last
      <4>2. 1 \in DOMAIN last.listed
        BY <4>1
      <4> QED BY <4>2 DEF Range
    <3>3. Min(J) \in Nat
      BY <3>1, <3>2, LeastNatural DEF Min
    <3>4. nextCleanUpBlock[n] \in Nat
      BY DEF IInv, TypeOK
    <3> QED BY <3>3, <3>4 DEF NextCleanUp, last
  <2> QED BY <2>3, <2>5, <2>6 DEF SameFacts
<1>4. CASE ~CleanupDue(n)
  BY <1>1, <1>4 DEF AfterCleanup, SameFacts
<1> QED BY <1>3, <1>4

\* The end of a block, with the cleanup of the list of jailed validators, preserves the invariant.
LEMMA EndBlockStep ==
  ASSUME IInv, EndBlock
  PROVE  IInv'
<1> DEFINE stored == [n \in Nodes |-> AfterCleanup(n)]
<1>0. /\ number \in Nat /\ number >= 1 /\ number <= MaxBlock /\ number' = number + 1
      /\ \A b \in 0..(number' - 1) : b \in 0..number
      /\ \A b \in 0..number : b # number => b \in 0..(number - 1)
      /\ 0..(number' - 1) = 0..number
  BY SlashingAssumption DEF IInv, TypeOK, EndBlock
<1>1. \A n \in Nodes : GoodStore(stored[n]) /\ SameFacts(stored[n], dirty[n])
  BY CleanupKeepsStoreGood
<1>2. /\ cache' = stored /\ dirty' = stored
      /\ chain' = [n \in Nodes |-> [b \in 0..number |-> IF b = number THEN stored[n] ELSE chain[n][b]]]
      /\ accepted' = accepted /\ calls' = calls /\ exists' = exists
  BY DEF EndBlock
<1>3. nextCleanUpBlock' \in [Nodes -> Nat]
  BY CleanupKeepsStoreGood DEF EndBlock, IInv, TypeOK
<1>4. power' \in [0..number -> Powers]
  BY <1>0 DEF EndBlock, IInv, TypeOK
<1> HIDE DEF stored
<1>5. \A n \in Nodes : stored[n] \in StoreType
  BY <1>1 DEF GoodStore
<1>6. \A m, n \in Nodes : SameFacts(stored[m], stored[n])
  BY <1>1 DEF SameFacts, IInv, StoresAgree
<1>7. TypeOK'
  <2>1. stored \in [Nodes -> StoreType]
    BY <1>5 DEF stored
  <2>2. chain' \in [Nodes -> [0..number -> StoreType]]
    BY <1>0, <1>2, <1>5 DEF IInv, TypeOK
  <2>3. number' \in 1..(MaxBlock + 1)
    BY <1>0, SlashingAssumption
  <2> QED BY <1>0, <1>2, <1>3, <1>4, <2>1, <2>2, <2>3 DEF IInv, TypeOK
<1>8. StoresGood'
  BY <1>0, <1>1, <1>2 DEF IInv, StoresGood
<1>9. StoresAgree'
  BY <1>0, <1>2, <1>6 DEF IInv, StoresAgree
<1>10. AcceptedKnown'
  BY <1>1, <1>2 DEF IInv, AcceptedKnown, SameFacts
<1> QED BY <1>7, <1>8, <1>9, <1>10 DEF IInv

\* A restart drops what is only in memory and leaves the stores alone.
LEMMA RestartStep ==
  ASSUME IInv, NEW n \in Nodes, Restart(n)
  PROVE  IInv'
BY DEF Restart, IInv, TypeOK, StoresGood, StoresAgree, AcceptedKnown

\* Every step of the slashing contract preserves the inductive invariant.
LEMMA NextIInv == IInv /\ [Next]_vars => IInv'
<1> SUFFICES ASSUME IInv, [Next]_vars PROVE IInv'
  OBVIOUS
<1>1. CASE UNCHANGED vars
  BY <1>1 DEF vars, IInv, TypeOK, StoresGood, StoresAgree, AcceptedKnown
<1>2. CASE Next
  BY <1>2, CommitProofStep, RevertedProofStep, EndBlockStep, RestartStep DEF Next
<1> QED BY <1>1, <1>2

-----------------------------------------------------------------------------
(* What the invariant implies.                                             *)

\* The invariant implies that a jailed validator was named by an accepted proof.
LEMMA InvariantJailsByProof == IInv => JailedOnlyByProof
<1> SUFFICES ASSUME IInv PROVE JailedOnlyByProof
  OBVIOUS
<1>1. \A k \in ProofKeys : accepted[k] <= 1
  BY DEF IInv, AcceptedKnown
<1>2. ASSUME NEW n \in Nodes, NEW v \in Honest
      PROVE  LET b == number - 1 IN
               /\ chain[n][b].jail[v] = 0 /\ ~Contains(chain[n][b].listed, v)
               /\ ~IsJailed(n, b, v)
  <2>1. number - 1 \in Nat /\ number - 1 \in 0..(number - 1)
    BY SlashingAssumption DEF IInv, TypeOK
  <2>2. GoodStore(chain[n][number - 1]) /\ GoodStore(chain[n][DelayedBlock(number - 1)])
    BY <2>1, DelayedIsCommitted DEF IInv, StoresGood
  <2> QED BY <2>2 DEF GoodStore, Contains, IsJailed, getJailBlock
<1> QED BY <1>1, <1>2 DEF JailedOnlyByProof

\* The invariant implies that a node that restarted answers as one that did not.
LEMMA InvariantNodesAgree == IInv => NodesAgreeOnJail
<1> SUFFICES ASSUME IInv PROVE NodesAgreeOnJail
  OBVIOUS
<1>1. number - 1 \in 0..(number - 1)
  BY SlashingAssumption DEF IInv, TypeOK
<1> QED BY <1>1 DEF IInv, StoresAgree, SameFacts, NodesAgreeOnJail

\* The votes of a list without repetitions are those of its members, so that taking them
\* off the total leaves the votes of the others.
LEMMA ListedSubtractedOnce ==
  ASSUME NEW n \in Nodes, NEW b, NEW d, power[b] \in [Validators -> Nat],
         GoodStore(chain[n][d])
  PROVE  TotalEligibleVoteCount(n, b, d) =
           VoteCounts(power[b], Validators \ Range(chain[n][d].listed))
<1> DEFINE list == chain[n][d].listed
           p == power[b]
<1>1. /\ list \in Seq(Validators) /\ DOMAIN list = 1..Len(list)
      /\ \A i, j \in DOMAIN list : list[i] = list[j] => i = j
  <2>1. list \in Seq(Validators)
    BY DEF GoodStore, StoreType
  <2>2. DOMAIN list = 1..Len(list)
    BY <2>1
  <2> QED BY <2>1, <2>2 DEF GoodStore
<1>2. IsFiniteSet(DOMAIN list)
  BY <1>1, FS_Interval
<1>3. Range(list) \in SUBSET Validators /\ IsFiniteSet(Validators)
  <2>1. \A i \in DOMAIN list : list[i] \in Validators
    BY <1>1
  <2>2. Range(list) \in SUBSET Validators
    BY <2>1, Zenon DEF Range
  <2> QED BY <2>2, SlashingAssumption, Zenon
<1> HIDE DEF list, p
<1>4. SumFunctionOnSet([i \in DOMAIN list |-> p[list[i]]], DOMAIN list)
        = SumFunctionOnSet(p, {list[i] : i \in DOMAIN list})
  <2>1. \A i \in DOMAIN list : p[list[i]] \in Int
    <3>1. \A i \in DOMAIN list : list[i] \in Validators
      BY <1>1
    <3> QED BY <3>1 DEF p
  <2> QED BY <1>1, <1>2, <2>1, SumReindex
<1>5. SumFunctionOnSet(p, Validators) =
        SumFunctionOnSet(p, Range(list)) + SumFunctionOnSet(p, Validators \ Range(list))
  <2>1. \A v \in Validators : p[v] \in Int
    BY DEF p
  <2> QED BY <2>1, <1>3, SumSplit
<1>6. SumFunctionOnSet(p, Range(list)) \in Int /\ SumFunctionOnSet(p, Validators \ Range(list)) \in Int
  <2>1. IsFiniteSet(Range(list)) /\ IsFiniteSet(Validators \ Range(list))
    BY <1>3, FS_Subset
  <2> QED BY <1>3, <2>1, SumInt DEF p
<1>7. JailedVoteCount(n, b, d) = SumFunctionOnSet(p, Range(list))
  BY <1>4 DEF JailedVoteCount, Range, list, p
<1> QED BY <1>5, <1>6, <1>7 DEF TotalEligibleVoteCount, VoteCounts, list, p

\* The invariant implies that the votes taken from the total are those of the jailed validators.
LEMMA InvariantVotesExact == IInv => EligibleVotesExact
<1> SUFFICES ASSUME IInv, NEW n \in Nodes
             PROVE  LET b == number - 1
                        d == DelayedBlock(b)
                        free == Validators \ Range(chain[n][d].listed)
                    IN  /\ TotalEligibleVoteCount(n, b, d) = VoteCounts(power[b], free)
                        /\ TotalEligibleVoteCount(n, d, d) = VoteCounts(power[d], free)
  BY DEF EligibleVotesExact
<1> DEFINE b == number - 1
           d == DelayedBlock(b)
<1>1. b \in Nat /\ b \in 0..(number - 1)
  BY SlashingAssumption DEF IInv, TypeOK
<1>2. d \in 0..(number - 1)
  BY <1>1, DelayedIsCommitted
<1> HIDE DEF b, d
<1>3. GoodStore(chain[n][d]) /\ power[b] \in [Validators -> Nat] /\ power[d] \in [Validators -> Nat]
  BY <1>1, <1>2, SlashingAssumption DEF IInv, StoresGood, TypeOK
<1> QED BY <1>3, ListedSubtractedOnce DEF b, d

\* The inductive invariant holds in every state of every behaviour.
THEOREM SlashingInvariant == Spec => []IInv
BY InitIInv, NextIInv, PTL DEF Spec

\* commitDoubleVotingProof, for every set of votes honest validators may sign: a pair of
\* votes is accepted at most once, and no combination of votes puts an honest validator
\* into jail or on the list, in any committed block of any node.
THEOREM HonestNeverJailed == Spec => []JailedOnlyByProof
BY SlashingInvariant, InvariantJailsByProof, PTL

\* TotalEligibleVoteCount is the number of votes of the validators that are not listed,
\* for every distribution of votes: no listed validator is subtracted twice.
THEOREM VotesStayExact == Spec => []EligibleVotesExact
BY SlashingInvariant, InvariantVotesExact, PTL

\* Nodes that restarted at any time and nodes that did not agree on jail and proofs.
THEOREM NodesStayInAgreement == Spec => []NodesAgreeOnJail
BY SlashingInvariant, InvariantNodesAgree, PTL
=============================================================================
