------------------------------- MODULE Slashing -------------------------------
(***************************************************************************)
(* The slashing precompiled contract: proofs of double voting, the blocks  *)
(* until which validators are in jail, and the list of jailed validators   *)
(* that is subtracted from the eligible votes.  The contract writes the    *)
(* state of the block being executed; it decides from the state of a block *)
(* DelegationDelay blocks earlier.  Several nodes execute the same blocks; *)
(* what a node keeps only in memory (nextCleanUpBlock) is lost when it     *)
(* restarts.                                                               *)
(***************************************************************************)
EXTENDS Naturals, Sequences, FiniteSets, FiniteSetsExt, SequencesExt

CONSTANTS
    Validators,
    Honest,           \* validators that vote as the protocol allows
    Nodes,
    Votes,            \* the votes that can be put into a proof
    ZeroHash,         \* the block hash of a vote for no block
    Nobody,           \* the signer of a vote whose signature recovers no key
    Powers,           \* eligible votes per validator that a block may end with
    JailTime,
    DelegationDelay,
    MaxBlock, MaxCalls

\* A vote: the hash that is signed (rank in the order of hashes), the block
\* voted for, period and round, step, and whom the signature recovers to.
VoteType == [hash : Nat, block : STRING, round : Nat, step : Nat,
             signer : Validators \cup {Nobody}]

\* The finishing steps in which one vote for no block and one for a block are
\* both allowed.
SecondFinishing(step) == step >= 5 /\ step % 2 = 1

\* What an honest validator signs in one round and step: one vote, or in a second
\* finishing step one for no block and one for a block.  The hash covers block and
\* sortition, so equal hashes mean equal votes up to the signature.
ASSUME SlashingAssumption ==
    /\ Votes \subseteq VoteType
    /\ IsFiniteSet(Validators) /\ Honest \subseteq Validators
    /\ JailTime \in Nat \ {0} /\ DelegationDelay \in Nat
    /\ MaxBlock \in Nat \ {0} /\ MaxCalls \in Nat
    /\ Powers \subseteq [Validators -> Nat] /\ Powers # {}
    /\ \A a, b \in Votes :
         a.hash = b.hash => [a EXCEPT !.signer = b.signer] = b
    /\ \A a, b \in Votes :
         /\ a.signer = b.signer /\ a.signer \in Honest
         /\ a.round = b.round /\ a.step = b.step /\ a.block # b.block
         => SecondFinishing(a.step) /\ ZeroHash \in {a.block, b.block}

VARIABLES
    number,   \* the block being executed
    calls,    \* calls made so far
    power,    \* power[b]: eligible votes in the DPoS state of committed block b
    chain,    \* chain[n][b]: the contract's storage in node n's committed block b
    cache,    \* cache[n]: what the storage wrapper of n reads
    dirty,    \* dirty[n]: what the account of the contract will commit
    exists,   \* the contract's account exists in the state being executed
    nextCleanUpBlock,
    accepted  \* how often each proof was accepted (history)

vars == <<number, calls, power, chain, cache, dirty, exists, nextCleanUpBlock, accepted>>

Hashes == {v.hash : v \in Votes}
\* A key of field_double_voting_proofs: two hashes, the smaller first.
ProofKeys == {k \in Hashes \X Hashes : k[1] < k[2]}
EmptyStore == [jail |-> [v \in Validators |-> 0], listed |-> <<>>, proofs |-> {}]

Init ==
    /\ number = 1 /\ calls = 0
    /\ power \in [0..0 -> Powers]
    /\ chain = [n \in Nodes |-> [b \in 0..0 |-> EmptyStore]]
    /\ cache = [n \in Nodes |-> EmptyStore]
    /\ dirty = [n \in Nodes |-> EmptyStore]
    /\ exists = FALSE
    /\ nextCleanUpBlock = [n \in Nodes |-> 0]
    /\ accepted = [k \in ProofKeys |-> 0]
-----------------------------------------------------------------------------
\* Reader.Init: the block a reader for block b looks at.
DelayedBlock(b) == IF DelegationDelay < b THEN b - DelegationDelay ELSE 0

\* CommitCall replaces the reader when a block is committed, so that calls in
\* this block read relative to the previous one.
Delayed(n) == chain[n][DelayedBlock(number - 1)]

\* IsEligible of the DPoS state the reader was made for.
IsEligible(v) == power[DelayedBlock(number - 1)][v] > 0

\* getJailBlock and IsJailed of the reader made for block b.
getJailBlock(n, b, v) == chain[n][DelayedBlock(b)].jail[v]
IsJailed(n, b, v) == LET j == getJailBlock(n, b, v) IN j # 0 /\ j >= b

VoteCounts(p, voters) == SumFunctionOnSet(p, voters)

\* TotalEligibleVoteCount of the DPoS state of block b: all votes without those
\* of every entry in the list the slashing reader sees.
JailedVoteCount(n, b, d) ==
    LET list == chain[n][d].listed
    IN  SumFunctionOnSet([i \in DOMAIN list |-> power[b][list[i]]], DOMAIN list)
TotalEligibleVoteCount(n, b, d) ==
    VoteCounts(power[b], Validators) - JailedVoteCount(n, b, d)

genDoubleVotingProofDbKey(a, b) ==
    IF a.hash < b.hash THEN <<a.hash, b.hash>> ELSE <<b.hash, a.hash>>

doubleVotingProoExists(n, key) == key \in cache[n].proofs

\* Mutant: the signers of the two votes are not compared.
ValidProofAnySigner(n, a, b) ==
    /\ a.hash # b.hash
    /\ ~doubleVotingProoExists(n, genDoubleVotingProofDbKey(a, b))
    /\ a.round = b.round /\ a.step = b.step
    /\ a.block # b.block
    /\ SecondFinishing(a.step) => (a.block = ZeroHash <=> b.block = ZeroHash)
    /\ a.signer # Nobody /\ b.signer # Nobody
    /\ IsEligible(a.signer)

\* The checks of a proof, in any order: none of them changes the state.
ValidProof(n, a, b) ==
    /\ a.hash # b.hash
    /\ ~doubleVotingProoExists(n, genDoubleVotingProofDbKey(a, b))
    /\ a.round = b.round /\ a.step = b.step
    /\ a.block # b.block
    /\ SecondFinishing(a.step) => (a.block = ZeroHash <=> b.block = ZeroHash)
    /\ a.signer # Nobody /\ b.signer # Nobody
    /\ a.signer = b.signer
    /\ IsEligible(a.signer)

\* Mutant: a validator jailed again is listed again.
addToJailedValidatorsAgain(n, store, v) == [store EXCEPT !.listed = Append(Delayed(n).listed, v)]

\* The list is read from the delayed state and stored over the current one.
addToJailedValidators(n, store, v) ==
    LET list == Delayed(n).listed
    IN  IF Contains(list, v) THEN store ELSE [store EXCEPT !.listed = Append(list, v)]

\* Mutant: a validator on the list is taken to be in jail already.
jailValidatorOnce(n, store, v) ==
    IF Contains(store.listed, v) THEN store
    ELSE addToJailedValidators(n, [store EXCEPT !.jail[v] = number + JailTime], v)

jailValidator(n, store, v) ==
    addToJailedValidators(n, [store EXCEPT !.jail[v] = number + JailTime], v)

saveDoubleVotingProof(store, key) == [store EXCEPT !.proofs = @ \cup {key}]

Jailed(n, store, a, b) ==
    saveDoubleVotingProof(jailValidator(n, store, a.signer), genDoubleVotingProofDbKey(a, b))

\* The storage of node n after the call; a rejected call writes nothing.
AfterCall(n, store, a, b) == IF ValidProof(n, a, b) THEN Jailed(n, store, a, b) ELSE store

MayCall == calls < MaxCalls /\ number <= MaxBlock

commitDoubleVotingProof(a, b) ==
    /\ MayCall
    /\ \E n \in Nodes : ValidProof(n, a, b)
    /\ cache' = [n \in Nodes |-> AfterCall(n, cache[n], a, b)]
    /\ dirty' = [n \in Nodes |-> AfterCall(n, dirty[n], a, b)]
    /\ exists' = TRUE
    /\ accepted' = [accepted EXCEPT ![genDoubleVotingProofDbKey(a, b)] = @ + 1]
    /\ calls' = calls + 1
    /\ UNCHANGED <<number, power, chain, nextCleanUpBlock>>

\* The same call inside one that fails afterwards.  Storage writes of a
\* precompiled contract are not undone, unless the contract's account came to
\* exist by this call: then the account goes, and its writes with it.
RevertedProof(a, b) ==
    /\ MayCall
    /\ \E n \in Nodes : ValidProof(n, a, b)
    /\ cache' = [n \in Nodes |-> AfterCall(n, cache[n], a, b)]
    /\ dirty' = IF exists THEN [n \in Nodes |-> AfterCall(n, dirty[n], a, b)] ELSE dirty
    /\ calls' = calls + 1
    /\ UNCHANGED <<number, power, chain, exists, nextCleanUpBlock, accepted>>

\* CleanupJailedValidators, at the end of the block.  Its reader goes through the
\* wrapper to the database: it sees the last committed block.
CleanupDue(n) == nextCleanUpBlock[n] <= number /\ chain[n][number - 1].listed # <<>>

\* The loop of the cleanup: those whose time in jail goes on after block b move to the
\* front of the list, in their order.
StillJailed(list, jail, b) ==
    LET kept[i \in 0..Len(list)] ==
            IF i = 0 THEN <<>>
            ELSE IF jail[list[i]] > b THEN Append(kept[i - 1], list[i]) ELSE kept[i - 1]
    IN  kept[Len(list)]

CleanedUp(n, store) ==
    LET last == chain[n][number - 1]
    IN  [store EXCEPT !.listed = StillJailed(last.listed, last.jail, number)]

NextCleanUp(n) ==
    LET last == chain[n][number - 1]
        min  == Min({last.jail[v] : v \in Range(last.listed)})
    IN  IF min # 0 THEN min ELSE nextCleanUpBlock[n]

AfterCleanup(n) == IF CleanupDue(n) THEN CleanedUp(n, dirty[n]) ELSE dirty[n]

\* EndBlock, PrepareCommit, Commit and the next BeginBlock; the DPoS contract
\* ends the block with some eligible votes.
EndBlock ==
    /\ number <= MaxBlock
    /\ chain' = [n \in Nodes |-> [b \in 0..number |->
                    IF b = number THEN AfterCleanup(n) ELSE chain[n][b]]]
    /\ cache' = [n \in Nodes |-> AfterCleanup(n)]
    /\ dirty' = [n \in Nodes |-> AfterCleanup(n)]
    /\ nextCleanUpBlock' = [n \in Nodes |->
                    IF CleanupDue(n) THEN NextCleanUp(n) ELSE nextCleanUpBlock[n]]
    /\ \E p \in Powers :
          power' = [b \in 0..number |-> IF b = number THEN p ELSE power[b]]
    /\ number' = number + 1
    /\ UNCHANGED <<calls, exists, accepted>>

\* A node stops and starts again; a block it had not committed it executes again,
\* up to where the others are.
Restart(n) ==
    /\ nextCleanUpBlock[n] # 0
    /\ nextCleanUpBlock' = [nextCleanUpBlock EXCEPT ![n] = 0]
    /\ UNCHANGED <<number, calls, power, chain, cache, dirty, exists, accepted>>

Next ==
    \/ \E a, b \in Votes : commitDoubleVotingProof(a, b)
    \/ \E a, b \in Votes : RevertedProof(a, b)
    \/ EndBlock
    \/ \E n \in Nodes : Restart(n)

Spec == Init /\ [][Next]_vars
-----------------------------------------------------------------------------
StoreType == [jail : [Validators -> Nat], listed : Seq(Validators), proofs : SUBSET ProofKeys]

\* Types of the variables.
TypeOK ==
    /\ number \in 1..(MaxBlock + 1) /\ calls \in 0..MaxCalls
    /\ power \in [0..(number - 1) -> Powers]
    /\ chain \in [Nodes -> [0..(number - 1) -> StoreType]]
    /\ cache \in [Nodes -> StoreType] /\ dirty \in [Nodes -> StoreType]
    /\ exists \in BOOLEAN
    /\ nextCleanUpBlock \in [Nodes -> Nat]
    /\ accepted \in [ProofKeys -> Nat]

\* commitDoubleVotingProof: two votes jail their author once, whatever the order in which
\* they are given, in whichever block, and across restarts; and no combination of votes, of
\* one or of several validators, jails a validator that voted as the protocol allows.
JailedOnlyByProof ==
    /\ \A k \in ProofKeys : accepted[k] <= 1
    /\ \A n \in Nodes, v \in Honest : LET b == number - 1 IN
          /\ chain[n][b].jail[v] = 0 /\ ~Contains(chain[n][b].listed, v)
          /\ ~IsJailed(n, b, v)

\* TotalEligibleVoteCount, a uint64, is the votes of the validators that are not
\* listed: each listed one is subtracted once, and never more than the total.  It
\* is asked of the delayed DPoS state and (DPOSReader) of the current one.
EligibleVotesExact ==
    \A n \in Nodes :
        LET b == number - 1
            d == DelayedBlock(b)
            free == Validators \ Range(chain[n][d].listed)
        IN  /\ TotalEligibleVoteCount(n, b, d) = VoteCounts(power[b], free)
            /\ TotalEligibleVoteCount(n, d, d) = VoteCounts(power[d], free)

\* Nodes that restarted and nodes that kept running agree on who is in jail until
\* when, and on the proofs they know.  (They need not agree on the list.)
NodesAgreeOnJail ==
    \A m, n \in Nodes : LET b == number - 1 IN
        /\ chain[m][b].jail = chain[n][b].jail
        /\ chain[m][b].proofs = chain[n][b].proofs

\* CleanupJailedValidators, "keep it in list, if it is not unjailed yet": the end of
\* a block drops no validator from the list whose time in jail goes on.
CleanupKeepsJailed ==
    [][number' = number + 1 =>
         \A n \in Nodes, v \in Validators :
             /\ Contains(dirty[n].listed, v) /\ dirty[n].jail[v] > number
             => Contains(dirty'[n].listed, v)]_vars
=============================================================================
