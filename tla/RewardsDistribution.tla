------------------------ MODULE RewardsDistribution -------------------------
(***************************************************************************)
(* How DistributeRewards of the DPoS contract splits the reward of a block *)
(* (dpos_contract.go): the supply cap of processBlockReward, the parts for *)
(* proposers of DAG blocks, for votes and for the author of the block, and *)
(* the loop that gives each validator its share, rounded down.             *)
(*                                                                         *)
(* Dpos models what becomes of the shares; this module what they add up to.*)
(* The statistics come from the consensus; they are taken to be consistent *)
(* (the counts of the validators do not exceed the totals), which the code *)
(* compares but does not enforce.                                          *)
(*                                                                         *)
(* NewConfig asserts MaxBlockAuthorReward <= 100 and nothing of the sum of *)
(* the two percentages, so neither does this module: with a sum above 100  *)
(* the part for votes goes below zero and wraps.                           *)
(***************************************************************************)
EXTENDS YieldCurve, Integers

CONSTANTS
  Word,                    (* 2^256: amounts are uint256.Int, which wraps  *)
  Validator,
  MaxSupply,
  GenesisSupply,           (* CalculateTotalSupply at genesis              *)
  DagProposersReward,      (* per cent of the block reward                 *)
  MaxBlockAuthorReward,    (* per cent of the block reward                 *)
  \* Inputs of a model.
  Delegations,             (* values of amount_delegated                   *)
  BlockNums,               (* block numbers                                *)
  MaxWeight                (* largest total in the statistics              *)

ASSUME SplitAssumption ==
  /\ Word \in Nat \ {0}
  /\ MaxSupply \in Nat /\ GenesisSupply \in Nat /\ GenesisSupply < Word
  /\ DagProposersReward \in Nat /\ MaxBlockAuthorReward \in 0..100
  /\ Delegations \subseteq Nat /\ BlockNums \subseteq Nat /\ MaxWeight \in Nat

VARIABLES
  total_supply,
  block,               (* number of the last block distributed             *)
  todo,                (* validators of the statistics not yet rewarded    *)
  running,             (* TRUE inside DistributeRewards                    *)
  blockReward,
  dagProposersReward,
  votesReward,
  stats,               (* TotalDagBlocksCount and TotalVotesWeight         *)
  left,                (* what of these totals the loop has still to meet  *)
  paidAuthor, paidDag, paidVotes    (* newMintedRewards, by its source     *)

splitVars == <<total_supply, block, todo, running, blockReward,
               dagProposersReward, votesReward, stats, left, paidAuthor,
               paidDag, paidVotes>>

Counts == [dag : Nat, votes : Nat]
NoCounts == [dag |-> 0, votes |-> 0]

newMintedRewards == (paidAuthor + paidDag + paidVotes) % Word

SplitTypeOK ==
  /\ total_supply \in Nat
  /\ block \in Nat
  /\ todo \subseteq Validator
  /\ running \in BOOLEAN
  /\ blockReward \in Nat /\ dagProposersReward \in Nat /\ votesReward \in Nat
  /\ stats \in Counts /\ left \in Counts
  /\ paidAuthor \in Nat /\ paidDag \in Nat /\ paidVotes \in Nat

SplitInit ==
  /\ total_supply = GenesisSupply
  /\ block = 0
  /\ todo = {}
  /\ running = FALSE
  /\ blockReward = 0 /\ dagProposersReward = 0 /\ votesReward = 0
  /\ stats = NoCounts /\ left = NoCounts
  /\ paidAuthor = 0 /\ paidDag = 0 /\ paidVotes = 0

(* A product of amounts, cut to a word, and its quotient.                  *)
MulDiv(a, b, c) == ((a * b) % Word) \div c

Percent(amount, p) == MulDiv(amount, p, 100)

(* Mutant of processBlockReward: the reward is minted whole or not at all. *)
processBlockRewardUncut(delegated, block_num) ==
  IF total_supply >= MaxSupply THEN 0 ELSE CalculateBlockReward(delegated, block_num)

(* The yield reward, cut to what the maximum supply leaves.                *)
processBlockReward(delegated, block_num) ==
  LET reward == CalculateBlockReward(delegated, block_num)
  IN  IF total_supply >= MaxSupply THEN 0
      ELSE IF reward > MaxSupply - total_supply THEN MaxSupply - total_supply
      ELSE reward

(* The author's part of the bonus: all of it when every vote is included,  *)
(* nothing at five eighths of them, in proportion between.                 *)
AuthorReward(bonus, total, maximum) ==
  LET maxVotesWeigh == IF total > maximum THEN total ELSE maximum
      fiveOfEight == (maxVotesWeigh * 5 + 7) \div 8
      bonusVotesWeight == IF total >= fiveOfEight THEN total - fiveOfEight ELSE 0
  IN  IF maxVotesWeigh = total \/ maxVotesWeigh <= fiveOfEight
      THEN bonus
      ELSE MulDiv(bonus, bonusVotesWeight, maxVotesWeigh - fiveOfEight)

(***************************************************************************)
(* The beginning of DistributeRewards, up to the loop.  authorExists: the  *)
(* author is still a validator.                                            *)
(***************************************************************************)
DistributeRewards(delegated, block_num, totals, maxVotes, authorExists) ==
  LET reward == processBlockReward(delegated, block_num)
      dag == Percent(reward, DagProposersReward)
      bonus == Percent(reward, MaxBlockAuthorReward)
  IN  /\ ~running
      /\ block_num >= block
      /\ running' = TRUE
      /\ block' = block_num
      /\ blockReward' = reward
      /\ stats' = totals /\ left' = totals
      /\ todo' = Validator
      /\ paidDag' = 0 /\ paidVotes' = 0
      /\ IF totals.votes > 0
         THEN /\ dagProposersReward' = dag
              /\ votesReward' = (reward - dag - bonus) % Word
              /\ paidAuthor' = IF authorExists
                               THEN AuthorReward(bonus, totals.votes, maxVotes) ELSE 0
         ELSE /\ dagProposersReward' = reward
              /\ votesReward' = 0
              /\ paidAuthor' = 0
      /\ UNCHANGED total_supply

Share(count, reward, total) == IF count > 0 THEN MulDiv(count, reward, total) ELSE 0

(* One round of the loop; a validator that no longer exists is skipped.    *)
RewardValidator(v, dagCount, voteWeight, exists) ==
  /\ running
  /\ v \in todo
  /\ todo' = todo \ {v}
  /\ dagCount <= left.dag /\ voteWeight <= left.votes
  /\ left' = [dag |-> left.dag - dagCount, votes |-> left.votes - voteWeight]
  /\ IF exists
     THEN /\ paidDag' = paidDag + Share(dagCount, dagProposersReward, stats.dag)
          /\ paidVotes' = paidVotes + Share(voteWeight, votesReward, stats.votes)
     ELSE UNCHANGED <<paidDag, paidVotes>>
  /\ UNCHANGED <<total_supply, block, running, blockReward, dagProposersReward,
                 votesReward, stats, paidAuthor>>

(* The end of DistributeRewards: the new tokens join the supply, and its   *)
(* local variables are gone.                                               *)
Mint ==
  /\ running
  /\ todo = {}
  /\ running' = FALSE
  /\ total_supply' = (total_supply + newMintedRewards) % Word
  /\ blockReward' = 0 /\ dagProposersReward' = 0 /\ votesReward' = 0
  /\ stats' = NoCounts /\ left' = NoCounts
  /\ paidAuthor' = 0 /\ paidDag' = 0 /\ paidVotes' = 0
  /\ UNCHANGED <<block, todo>>

SplitNext ==
  \/ \E d \in Delegations, b \in BlockNums, dag \in 0..MaxWeight,
        votes \in 0..MaxWeight, maxVotes \in 0..MaxWeight, exists \in BOOLEAN :
       DistributeRewards(d, b, [dag |-> dag, votes |-> votes], maxVotes, exists)
  \/ \E v \in Validator, dag \in 0..MaxWeight, votes \in 0..MaxWeight,
        exists \in BOOLEAN : RewardValidator(v, dag, votes, exists)
  \/ Mint

SplitSpec == SplitInit /\ [][SplitNext]_splitVars

-----------------------------------------------------------------------------
(***************************************************************************)
(* The shares, each rounded down on its own, never add up to more than the *)
(* block reward, whichever validators exist and however the statistics are *)
(* split: the warning "newMintedRewards is more then blockReward" of       *)
(* DistributeRewards is never printed.                                     *)
(***************************************************************************)
MintedWithinReward == running => newMintedRewards <= blockReward

(***************************************************************************)
(* Over any number of distributions the supply never passes max_supply     *)
(* ("CRITICAL: Enforce max_supply cap"), even though the yield has a floor *)
(* and never stops.  A supply that genesis put above the cap stays.        *)
(***************************************************************************)
SupplyCapped == total_supply <= MaxSupply \/ total_supply = GenesisSupply

(***************************************************************************)
(* Across every epoch boundary from the current block on the yield falls   *)
(* by 5 per cent, rounded from the exact value, and is the floor from the  *)
(* first epoch that would fall below it; within an epoch it does not       *)
(* change.  The table and the switch to MinYieldValue join without a gap.  *)
(***************************************************************************)
YieldDecays ==
  \A n \in 1..(MaxEpoch + 3) :
    LET boundary == (block \div EpochLength + n) * EpochLength
        now == calculateCurrentYield(boundary)
        before == calculateCurrentYield(boundary - 1)
        decayed == (before * 95) \div 100
    IN  /\ before = calculateCurrentYield(boundary - EpochLength)
        /\ \/ now = MinYieldValue /\ decayed < MinYieldValue
           \/ now \in decayed .. (before * 95 + 95) \div 100 /\ now > MinYieldValue

=============================================================================
