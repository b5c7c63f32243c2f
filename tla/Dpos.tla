-------------------------------- MODULE Dpos --------------------------------
(***************************************************************************)
(* The DPoS contract (contracts/dpos/precompiled/dpos_contract.go): the    *)
(* stake of delegators, the queue of undelegations, the rewards accounting *)
(* with reference-counted "states", and the inactivity penalties with the  *)
(* forced eviction of validators.                                          *)
(*                                                                         *)
(* A block executes transactions, then the reward distribution (a loop     *)
(* over validators, and at an epoch boundary the three penalty loops), and *)
(* then ends.  The loops are steps of the model; "phase" says which loop   *)
(* is running, so nothing interleaves with them.                           *)
(*                                                                         *)
(* Contract storage is written irreversibly: a call that returns an error  *)
(* after a write, or whose caller is reverted later, keeps the write and   *)
(* only has its balance changes undone.  And the tokens of a call move as  *)
(* evm.go moves them, which depends on how the contract is called.         *)
(* Where the code panics because a state is missing the node stops, and    *)
(* the action has no successor; RefsCounted says this cannot happen.       *)
(***************************************************************************)
EXTENDS Integers, FiniteSets, Functions

CONSTANTS
  Validator,                   (* validator addresses                      *)
  Delegator,                   (* accounts that call the contract          *)
  Nil,                         (* an absent validator or delegation        *)
  ValidatorMaximumStake,
  MinimumDeposit,
  EligibilityBalanceThreshold,
  VoteEligibilityBalanceStep,
  DelegationLockingPeriod,
  CommissionChangeFrequency,
  CommissionChangeDelta,
  InactivityEpochBlocks,       (* 10000 in the code                        *)
  MaxEvictionsPerBlock,        (* 1000 in the code                         *)
  MinimumCommission,           (* 1000 in the code                         *)
  UndelegationsModulus,        (* UndelegationsCount is a uint16: 2^16     *)
  \* The inputs and the bounds of a model.
  Frames,                      (* how transactions call the contract, next *)
                               (* to a CALL that is kept: "code", "undone" *)
  Funds,                       (* tokens each delegator starts with        *)
  Amounts,                     (* amounts passed to the methods            *)
  Commissions,                 (* commission rates passed to the methods   *)
  Rewards,                     (* shares of a block reward, and fees       *)
  MaxCalls,                    (* calls of the contract in one block: the  *)
                               (* gas limit of a block bounds them         *)
  MaxBatch,                    (* distributions in one batch               *)
  MaxBlock                     (* last block, of which only calls are seen *)

ASSUME ConfigAssumption ==
  /\ ValidatorMaximumStake \in Nat \ {0}
  /\ MinimumDeposit \in Nat /\ MinimumDeposit <= ValidatorMaximumStake
  /\ EligibilityBalanceThreshold \in Nat
  /\ VoteEligibilityBalanceStep \in Nat \ {0}
  /\ DelegationLockingPeriod \in Nat
  /\ CommissionChangeFrequency \in Nat
  /\ CommissionChangeDelta \in Nat
  /\ InactivityEpochBlocks \in Nat \ {0}
  /\ MaxEvictionsPerBlock \in Nat \ {0}
  /\ MinimumCommission \in Nat
  /\ UndelegationsModulus \in Nat \ {0}

ASSUME InputAssumption ==
  /\ Frames \subseteq {"code", "undone"}
  /\ Funds \in Nat
  /\ Amounts \subseteq Nat
  /\ Commissions \subseteq Nat
  /\ Rewards \subseteq Nat
  /\ MaxCalls \in Nat /\ MaxBatch \in Nat \ {0}
  /\ MaxBlock \in Nat
  /\ IsFiniteSet(Validator) /\ IsFiniteSet(Delegator)

BasisPointsScale == 10000
MaxCommission == BasisPointsScale

Blocks == 0..MaxBlock

(***************************************************************************)
(* Stored objects.  A Validator joins its rewards (ValidatorRewards) and   *)
(* its owner, which the code keeps under keys of their own and creates and *)
(* deletes together with it.                                               *)
(***************************************************************************)
ValidatorRec == [stake : Int, commission : 0..MaxCommission,
                 lastCommissionChange : Blocks, last : Blocks, undelegations : Nat,
                 pool : Nat, commissionPool : Nat, owner : Delegator]

DelegationRec == [stake : Nat, last : Blocks]

UndelegationRec == [delegator : Delegator, validator : Validator, id : Nat,
                    amount : Nat, block : Nat]

StateRec == [rps : Nat, count : Nat]

NoState == [rps |-> 0, count |-> 0]

ASSUME NilAssumption == Nil \notin Validator \cup ValidatorRec \cup DelegationRec

VARIABLES
  block,            (* number of the block being executed                  *)
  phase,            (* what the block is executing                         *)
  calls,            (* calls, or distributions, made in this block         *)
  loop,             (* progress of the running loop                        *)
  val,              (* validators                                          *)
  del,              (* delegations: forward and reverse index together     *)
  und,              (* undelegations                                       *)
  lastId,           (* last undelegation id of each delegator              *)
  st,               (* reward states by validator and block                *)
  factor,           (* voting power factor, in basis points                *)
  lastActive,       (* last active block                                   *)
  evicting,         (* eviction cursor is present                          *)
  lastEpoch,        (* last_processed_epoch_block                          *)
  eligible,         (* eligible_vote_count                                 *)
  delegated,        (* amount_delegated                                    *)
  balance,          (* balance of the contract account                     *)
  wallet,           (* balances of the delegators                          *)
  astray,           (* history: tokens that the ledger counts as received, *)
                    (* less those it counts as paid, and that did not move *)
  defects           (* history: the error paths of the code that damage    *)
                    (* the ledger (see README), once taken                 *)

ledger == <<val, del, und, lastId, st, balance, wallet, astray, delegated>>
activity == <<factor, lastActive, evicting>>
control == <<block, phase, loop, lastEpoch>>

vars == <<ledger, activity, control, calls, eligible, defects>>

Phases == {"genesis", "txs", "distribute", "resume", "scan", "evict", "rewards"}

Defects == {"cancel", "redelegate", "zero", "recovery"}

NoLoop == [todo |-> {}, toEvict |-> {}, budget |-> 0, current |-> Nil,
           page |-> {}, end |-> FALSE]

TypeOK ==
  /\ block \in Blocks
  /\ phase \in Phases
  /\ calls \in Nat
  /\ loop \in [todo : SUBSET Validator, toEvict : SUBSET Validator,
               budget : Nat, current : Validator \cup {Nil},
               page : SUBSET Delegator, end : BOOLEAN]
  /\ val \in [Validator -> ValidatorRec \cup {Nil}]
  /\ del \in [Delegator -> [Validator -> DelegationRec \cup {Nil}]]
  /\ und \subseteq UndelegationRec
  /\ lastId \in [Delegator -> Nat]
  /\ st \in [Validator -> [Blocks -> StateRec]]
  /\ factor \in [Validator -> 0..BasisPointsScale]
  /\ lastActive \in [Validator -> Blocks]
  /\ evicting \in [Validator -> BOOLEAN]
  /\ lastEpoch \in Blocks
  /\ eligible \in Int
  /\ delegated \in Int
  /\ defects \subseteq Defects

Init ==
  /\ block = 0
  /\ phase = "genesis"
  /\ calls = 0
  /\ loop = NoLoop
  /\ val = [v \in Validator |-> Nil]
  /\ del = [d \in Delegator |-> [v \in Validator |-> Nil]]
  /\ und = {}
  /\ lastId = [d \in Delegator |-> 0]
  /\ st = [v \in Validator |-> [b \in Blocks |-> NoState]]
  /\ factor = [v \in Validator |-> BasisPointsScale]
  /\ lastActive = [v \in Validator |-> 0]
  /\ evicting = [v \in Validator |-> FALSE]
  /\ lastEpoch = 0
  /\ eligible = 0
  /\ delegated = 0
  /\ balance = 0
  /\ wallet = [d \in Delegator |-> Funds]
  /\ astray = 0
  /\ defects = {}

-----------------------------------------------------------------------------
(***************************************************************************)
(* Helpers.                                                                *)
(***************************************************************************)
voteCountWithFactor(stake, f) ==
  LET effective_balance == (stake * f) \div BasisPointsScale
  IN  IF f # 0 /\ effective_balance >= EligibilityBalanceThreshold
      THEN effective_balance \div VoteEligibilityBalanceStep
      ELSE 0

(* Votes validator v loses or gains when its stake changes by amount.      *)
VotesDelta(v, amount) ==
  voteCountWithFactor(val[v].stake + amount, factor[v])
    - voteCountWithFactor(val[v].stake, factor[v])

calculateRewardPer1Stake(pool, stake) == (pool * ValidatorMaximumStake) \div stake

calculateDelegatorReward(perStake, stake) == (perStake * stake) \div ValidatorMaximumStake

Exists(v) == val[v] # Nil
Delegated(d, v) == del[d][v] # Nil
Has(v, b) == st[v][b].count > 0

(* state_get_and_decrement on the states of one validator.                 *)
Decrement(states, b) ==
  [states EXCEPT ![b] = IF @.count = 1 THEN NoState
                        ELSE [rps |-> @.rps, count |-> @.count - 1]]

(***************************************************************************)
(* Every method that touches the stake of v first settles its rewards: it  *)
(* uses the state of this block, or makes one from the state the validator *)
(* points to and the rewards pool, and points the validator to it.         *)
(*   Settled       the state in memory, stored only at the end of the call *)
(*   StatesSettled the stored states meanwhile                             *)
(*   ValSettled    the validator, pool emptied                             *)
(***************************************************************************)
(* Mutant of Settled: the pool is not shared out.                          *)
SettledWithoutPool(v) ==
  IF Has(v, block) THEN st[v][block] ELSE [rps |-> st[v][val[v].last].rps, count |-> 1]

Settled(v) ==
  IF Has(v, block)
  THEN st[v][block]
  ELSE [rps |-> st[v][val[v].last].rps
                + IF val[v].stake > 0
                  THEN calculateRewardPer1Stake(val[v].pool, val[v].stake)
                  ELSE 0,
        count |-> 1]

StatesSettled(v) == IF Has(v, block) THEN st[v] ELSE Decrement(st[v], val[v].last)

(* Mutant of ValSettled: the pool is not emptied.                          *)
ValSettledPoolKept(v) ==
  IF Has(v, block) THEN val[v] ELSE [val[v] EXCEPT !.last = block]

ValSettled(v) ==
  IF Has(v, block) THEN val[v] ELSE [val[v] EXCEPT !.pool = 0, !.last = block]

CanSettle(v) == Has(v, block) \/ (Exists(v) /\ Has(v, val[v].last))

(***************************************************************************)
(* An existing delegation then gives up its reference and is paid.         *)
(***************************************************************************)
StatesClaimed(d, v) == Decrement(StatesSettled(v), del[d][v].last)

Reward(d, v) ==
  calculateDelegatorReward(Settled(v).rps - StatesSettled(v)[del[d][v].last].rps,
                           del[d][v].stake)

CanClaim(d, v) == CanSettle(v) /\ StatesSettled(v)[del[d][v].last].count > 0

(* The states of v after the state in memory is stored with n more refs.   *)
PutState(states, v, n) ==
  [states EXCEPT ![block] = [rps |-> Settled(v).rps, count |-> Settled(v).count + n]]

(* A delegation that is credited amount: claimed first if it exists.       *)
Credited(d, v, amount) ==
  [stake |-> amount + IF Delegated(d, v) THEN del[d][v].stake ELSE 0, last |-> block]

StatesCredited(d, v) == IF Delegated(d, v) THEN StatesClaimed(d, v) ELSE StatesSettled(v)

RewardOf(d, v) == IF Delegated(d, v) THEN Reward(d, v) ELSE 0

CanCredit(d, v) == CanSettle(v) /\ (Delegated(d, v) => CanClaim(d, v))

(* A delegation that is debited amount, which removes it when used up.     *)
Debited(d, v, amount) ==
  IF del[d][v].stake = amount
  THEN Nil
  ELSE [stake |-> del[d][v].stake - amount, last |-> block]

(* References to the new state: one, if the delegation stays.              *)
KeepsDelegation(d, v, amount) == IF del[d][v].stake = amount THEN 0 ELSE 1

(* Mutant of FitsMaximum: what is added is not counted.                    *)
FitsMaximumBefore(v, amount) == val[v].stake <= ValidatorMaximumStake

FitsMaximum(v, amount) == val[v].stake + amount <= ValidatorMaximumStake

(* Mutant of MayWithdraw: more than the delegation may be withdrawn.       *)
MayWithdrawAnything(d, v, amount) == Delegated(d, v)

(* A partial withdrawal must leave at least the minimum deposit.           *)
MayWithdraw(d, v, amount) ==
  /\ Delegated(d, v)
  /\ amount <= del[d][v].stake
  /\ amount = del[d][v].stake \/ del[d][v].stake - amount >= MinimumDeposit

(* One more call of the contract in this block.                            *)
Call(when) ==
  /\ phase = when
  /\ calls < MaxCalls
  /\ calls' = calls + 1

(***************************************************************************)
(* The tokens of a call by d: its value, which EVM.call transfers before   *)
(* the contract runs, and the payouts of transferContractBalance, which    *)
(* panics when the account of the frame has too little.                    *)
(*   kept      a CALL: the value comes to the contract, which pays.        *)
(*   code      CALLCODE, DELEGATECALL: the frame has the account of the    *)
(*             calling contract c.  No value is transferred, whatever the  *)
(*             frame says its value is, and c pays (CALLCODE: c is d).     *)
(*   undone    a frame around the call is reverted later: the balances go  *)
(*             back, the storage does not.  What the accounts had inside   *)
(*             of that frame is not followed, so it limits nothing here.   *)
(***************************************************************************)
KeptTransfer(d, value, payout) ==
  /\ value <= wallet[d]
  /\ payout <= balance + value
  /\ balance' = balance + value - payout
  /\ wallet' = [wallet EXCEPT ![d] = @ + payout - value]
  /\ UNCHANGED astray

CodeTransfer(d, value, payout) ==
  /\ \E c \in Delegator :
       /\ payout <= wallet[c]
       /\ wallet' = [wallet EXCEPT ![c] = @ - payout, ![d] = @ + payout]
  /\ astray' = astray + value - payout
  /\ UNCHANGED balance

UndoneTransfer(value, payout) ==
  /\ astray' = astray + value - payout
  /\ UNCHANGED <<balance, wallet>>

transferContractBalance(d, value, payout) ==
  \/ KeptTransfer(d, value, payout)
  \/ phase = "txs" /\ "code" \in Frames /\ CodeTransfer(d, value, payout)
  \/ phase = "txs" /\ "undone" \in Frames /\ UndoneTransfer(value, payout)

(* Mutant of Inc: an undelegation is not counted.                          *)
IncForgotten(n) == n

(* The uint16 counter of undelegations.                                    *)
Inc(n) == (n + 1) % UndelegationsModulus
Dec(n) == IF n > 0 THEN n - 1 ELSE 0

(* Validator v, settled, when its stake grows, when part of it is           *)
(* undelegated, and when that is cancelled.                                *)
ValCredited(v, amount) == [ValSettled(v) EXCEPT !.stake = @ + amount]

ValUndelegated(v, amount) ==
  [ValSettled(v) EXCEPT !.stake = @ - amount, !.undelegations = Inc(@)]

ValCancelled(v, amount) ==
  [ValSettled(v) EXCEPT !.stake = @ + amount, !.undelegations = Dec(@)]

(* DeleteValidator with the clearing of its activity records.              *)
DeleteValidator(v) ==
  /\ val' = [val EXCEPT ![v] = Nil]
  /\ factor' = [factor EXCEPT ![v] = BasisPointsScale]
  /\ lastActive' = [lastActive EXCEPT ![v] = 0]
  /\ evicting' = [evicting EXCEPT ![v] = FALSE]

(* An undelegation that can be confirmed from the given block on.          *)
CreateUndelegation(d, v, amount, unlocked) ==
  /\ lastId' = [lastId EXCEPT ![d] = @ + 1]
  /\ und' = und \cup {[delegator |-> d, validator |-> v, id |-> lastId[d] + 1,
                       amount |-> amount, block |-> unlocked]}

RemoveUndelegation(u) == und' = und \ {u}

CreateValidator(owner, amount, commission) ==
  [stake |-> amount, commission |-> commission,
   lastCommissionChange |-> block, last |-> block,
   undelegations |-> 0, pool |-> 0, commissionPool |-> 0,
   owner |-> owner]

-----------------------------------------------------------------------------
(***************************************************************************)
(* Methods of the contract, called in transactions.                        *)
(***************************************************************************)
registerValidatorWithoutChecks(v, owner, amount, commission) ==
  /\ commission <= MaxCommission
  /\ ~Exists(v)
  /\ ~Delegated(owner, v)
  /\ ~Has(v, block)
  /\ amount <= ValidatorMaximumStake
  /\ val' = [val EXCEPT ![v] = CreateValidator(owner, amount, commission)]
  /\ del' = IF amount > 0
            THEN [del EXCEPT ![owner][v] = [stake |-> amount, last |-> block]]
            ELSE del
  /\ st' = [st EXCEPT ![v][block] =
              [rps |-> 0, count |-> IF amount > 0 THEN 2 ELSE 1]]
  /\ delegated' = delegated + amount
  /\ eligible' = eligible + voteCountWithFactor(amount, BasisPointsScale)
  /\ transferContractBalance(owner, amount, 0)
  /\ UNCHANGED <<und, lastId, activity, control, defects>>

registerValidator(v, owner, amount, commission) ==
  /\ Call("txs")
  /\ amount >= MinimumDeposit
  /\ registerValidatorWithoutChecks(v, owner, amount, commission)

delegate(d, v, amount) ==
  /\ Exists(v)
  /\ FitsMaximum(v, amount)
  /\ Delegated(d, v) \/ amount >= MinimumDeposit
  /\ CanCredit(d, v)
  /\ st' = [st EXCEPT ![v] = PutState(StatesCredited(d, v), v, 1)]
  /\ del' = [del EXCEPT ![d][v] = Credited(d, v, amount)]
  /\ val' = [val EXCEPT ![v] = ValCredited(v, amount)]
  /\ delegated' = delegated + amount
  /\ eligible' = eligible + VotesDelta(v, amount)
  /\ transferContractBalance(d, amount, RewardOf(d, v))
  /\ UNCHANGED <<und, lastId, activity, control, defects>>

Delegate(d, v, amount) == Call("txs") /\ delegate(d, v, amount)

undelegate(d, v, amount) ==
  /\ Call("txs")
  /\ Exists(v)
  /\ MayWithdraw(d, v, amount)
  /\ CanClaim(d, v)
  /\ st' = [st EXCEPT ![v] = PutState(StatesClaimed(d, v), v, KeepsDelegation(d, v, amount))]
  /\ del' = [del EXCEPT ![d][v] = Debited(d, v, amount)]
  /\ val' = [val EXCEPT ![v] = ValUndelegated(v, amount)]
  /\ delegated' = delegated - amount
  /\ eligible' = eligible + VotesDelta(v, -amount)
  /\ CreateUndelegation(d, v, amount, block + DelegationLockingPeriod)
  /\ transferContractBalance(d, 0, Reward(d, v))
  /\ UNCHANGED <<activity, control, defects>>

(* An undelegation is paid; the last one may delete its validator.         *)
confirmUndelegate(u) ==
  LET v == u.validator
      undelegations == Dec(val[v].undelegations)
      deleted == /\ undelegations = 0
                 /\ val[v].stake = 0
                 /\ val[v].commissionPool = 0
  IN  /\ Call("txs")
      /\ u.block <= block
      /\ RemoveUndelegation(u)
      /\ transferContractBalance(u.delegator, 0, u.amount)
      /\ IF Exists(v) /\ deleted
         THEN /\ Has(v, val[v].last)
              /\ DeleteValidator(v)
              /\ st' = [st EXCEPT ![v] = Decrement(st[v], val[v].last)]
         ELSE /\ val' = IF Exists(v)
                        THEN [val EXCEPT ![v].undelegations = undelegations]
                        ELSE val
              /\ UNCHANGED <<st, activity>>
      /\ UNCHANGED <<del, lastId, delegated, eligible, control, defects>>

(***************************************************************************)
(* The undelegated stake returns to the validator.  The undelegation is    *)
(* removed, rewards are settled and the delegation is credited before the  *)
(* maximum stake is checked, so a rejected call keeps those writes, while  *)
(* the validator and the state in memory are not stored and the balances   *)
(* are restored.                                                           *)
(***************************************************************************)
cancelUndelegate(u) ==
  LET v == u.validator
      d == u.delegator
  IN  /\ Call("txs")
      /\ Exists(v)
      /\ CanCredit(d, v)
      /\ RemoveUndelegation(u)
      /\ del' = [del EXCEPT ![d][v] = Credited(d, v, u.amount)]
      /\ IF FitsMaximum(v, u.amount)
         THEN /\ st' = [st EXCEPT ![v] = PutState(StatesCredited(d, v), v, 1)]
              /\ val' = [val EXCEPT ![v] = ValCancelled(v, u.amount)]
              /\ delegated' = delegated + u.amount
              /\ eligible' = eligible + VotesDelta(v, u.amount)
              /\ transferContractBalance(d, 0, RewardOf(d, v))
              /\ defects' = IF Credited(d, v, u.amount).stake = 0
                            THEN defects \cup {"zero"} ELSE defects
         ELSE /\ st' = [st EXCEPT ![v] = StatesCredited(d, v)]
              /\ defects' = defects \cup {"cancel"}
              /\ UNCHANGED <<val, delegated, eligible, balance, wallet, astray>>
      /\ UNCHANGED <<lastId, activity, control>>

(***************************************************************************)
(* redelegate: first the stake leaves validator f.  If f is then empty it  *)
(* is deleted, or, when undelegations from it are pending, only its        *)
(* Validator object is stored: not the new state, not the emptied pool.    *)
(***************************************************************************)
EmptyAfter(f, amount) == val[f].stake = amount /\ val[f].commissionPool = 0

(* Mutant of StatesLeft: the kept delegation takes no reference.           *)
StatesLeftUncounted(d, f, amount) ==
  IF EmptyAfter(f, amount)
  THEN [StatesClaimed(d, f) EXCEPT ![block] = NoState]
  ELSE PutState(StatesClaimed(d, f), f, 0)

StatesLeft(d, f, amount) ==
  IF ~EmptyAfter(f, amount)
  THEN PutState(StatesClaimed(d, f), f, KeepsDelegation(d, f, amount))
  ELSE IF val[f].undelegations = 0
       THEN [StatesClaimed(d, f) EXCEPT ![block] = NoState]
       ELSE StatesClaimed(d, f)

(* Mutant of ValLeft: the stake stays with validator f.                    *)
ValLeftWithStake(f, amount) ==
  IF EmptyAfter(f, amount) /\ val[f].undelegations = 0 THEN Nil ELSE ValSettled(f)

ValLeft(f, amount) ==
  IF ~EmptyAfter(f, amount)
  THEN [ValSettled(f) EXCEPT !.stake = @ - amount]
  ELSE IF val[f].undelegations = 0
       THEN Nil
       ELSE [ValSettled(f) EXCEPT !.stake = 0, !.pool = val[f].pool]

LosesState(f, amount) ==
  EmptyAfter(f, amount) /\ val[f].undelegations # 0 /\ ~Has(f, block)

redelegate(d, f, t, amount) ==
  LET deleted == EmptyAfter(f, amount) /\ val[f].undelegations = 0
  IN  /\ Call("txs")
      /\ f # t
      /\ amount > 0
      /\ Exists(f) /\ Exists(t)
      /\ FitsMaximum(t, amount)
      /\ MayWithdraw(d, f, amount)
      /\ CanClaim(d, f)
      /\ CanCredit(d, t)
      /\ st' = [st EXCEPT ![f] = StatesLeft(d, f, amount),
                          ![t] = PutState(StatesCredited(d, t), t, 1)]
      /\ del' = [del EXCEPT ![d][f] = Debited(d, f, amount),
                            ![d][t] = Credited(d, t, amount)]
      /\ val' = [val EXCEPT ![f] = ValLeft(f, amount),
                            ![t] = ValCredited(t, amount)]
      /\ factor' = IF deleted THEN [factor EXCEPT ![f] = BasisPointsScale] ELSE factor
      /\ lastActive' = IF deleted THEN [lastActive EXCEPT ![f] = 0] ELSE lastActive
      /\ evicting' = IF deleted THEN [evicting EXCEPT ![f] = FALSE] ELSE evicting
      /\ eligible' = eligible + VotesDelta(f, -amount) + VotesDelta(t, amount)
      /\ transferContractBalance(d, 0, Reward(d, f) + RewardOf(d, t))
      /\ defects' = IF LosesState(f, amount) THEN defects \cup {"redelegate"} ELSE defects
      /\ UNCHANGED <<und, lastId, delegated, control>>

(***************************************************************************)
(* claimAllRewards claims from every validator of the delegator, in one    *)
(* call; claimRewards from one.  The claims do not touch each other.       *)
(***************************************************************************)
ClaimFrom(d, from) ==
  /\ \A v \in from : Delegated(d, v) /\ CanClaim(d, v)
  /\ st' = [v \in Validator |->
              IF v \in from THEN PutState(StatesClaimed(d, v), v, 1) ELSE st[v]]
  /\ del' = [del EXCEPT ![d] = [v \in Validator |->
              IF v \in from THEN [stake |-> del[d][v].stake, last |-> block] ELSE del[d][v]]]
  /\ val' = [v \in Validator |-> IF v \in from THEN ValSettled(v) ELSE val[v]]
  /\ UNCHANGED <<und, lastId, delegated, activity, control, eligible, defects>>

RewardsFrom(d, from) == SumFunctionOnSet([v \in from |-> Reward(d, v)], from)

claimRewards(d, v) ==
  /\ Call("txs")
  /\ ClaimFrom(d, {v})
  /\ transferContractBalance(d, 0, RewardsFrom(d, {v}))

(* A claim fails when the validator is gone; the ones before it are then   *)
(* stored and not paid.                                                    *)
ClaimFails(v) == ~Exists(v) /\ ~Has(v, block)

claimAllRewards(d) ==
  LET mine == {v \in Validator : Delegated(d, v)}
  IN  /\ Call("txs")
      /\ \E from \in SUBSET mine :
           /\ ClaimFrom(d, from)
           /\ IF from = mine
              THEN transferContractBalance(d, 0, RewardsFrom(d, from))
              ELSE /\ \E v \in mine \ from : ClaimFails(v)
                   /\ UndoneTransfer(0, RewardsFrom(d, from))

claimCommissionRewards(d, v) ==
  /\ Call("txs")
  /\ Exists(v)
  /\ val[v].owner = d
  /\ transferContractBalance(d, 0, val[v].commissionPool)
  /\ IF val[v].stake = 0 /\ val[v].undelegations = 0
     THEN /\ Has(v, val[v].last)
          /\ DeleteValidator(v)
          /\ st' = [st EXCEPT ![v] = Decrement(st[v], val[v].last)]
     ELSE /\ val' = [val EXCEPT ![v].commissionPool = 0]
          /\ UNCHANGED <<st, activity>>
  /\ UNCHANGED <<del, und, lastId, delegated, control, eligible, defects>>

getDelta(x, y) == IF x < y THEN y - x ELSE x - y

setCommission(d, v, commission) ==
  /\ Call("txs")
  /\ Exists(v)
  /\ val[v].owner = d
  /\ commission <= MaxCommission
  /\ commission >= MinimumCommission
  /\ \/ CommissionChangeFrequency = 0
     \/ CommissionChangeFrequency <= block - val[v].lastCommissionChange
  /\ \/ CommissionChangeDelta = 0
     \/ CommissionChangeDelta >= getDelta(val[v].commission, commission)
  /\ val' = [val EXCEPT ![v].commission = commission,
                        ![v].lastCommissionChange = block]
  /\ UNCHANGED <<del, und, lastId, st, balance, wallet, astray, delegated,
                 activity, control, eligible, defects>>

-----------------------------------------------------------------------------
(***************************************************************************)
(* Genesis: apply_genesis_entry registers each initial validator without   *)
(* stake and delegates to it; both run at block 0.                         *)
(***************************************************************************)
(* The block is committed and the next one begins.                         *)
NextBlock ==
  /\ block < MaxBlock
  /\ block' = block + 1
  /\ phase' = "txs"
  /\ calls' = 0

GenesisValidator(v, owner, commission) ==
  /\ Call("genesis")
  /\ registerValidatorWithoutChecks(v, owner, 0, commission)

GenesisDelegation(d, v, amount) == Call("genesis") /\ delegate(d, v, amount)

EndGenesis ==
  /\ phase = "genesis"
  /\ NextBlock
  /\ UNCHANGED <<ledger, activity, loop, lastEpoch, eligible, defects>>

-----------------------------------------------------------------------------
(***************************************************************************)
(* DistributeRewards.  The statistics name some validators; the author of  *)
(* the block gets a bonus first.  How the block reward is split is the     *)
(* subject of RewardsDistribution: here each share is any member of        *)
(* Rewards.  A batch calls it several times in one block.                  *)
(***************************************************************************)
AddValidatorRewards(v, reward, fees) ==
  LET commission == (reward * val[v].commission) \div MaxCommission
  IN  /\ val' = [val EXCEPT ![v].commissionPool = @ + commission + fees,
                            ![v].pool = @ + (reward - commission)]
      /\ balance' = balance + reward + fees

DistributeRewards(listed, author, bonus) ==
  /\ block < MaxBlock
  /\ phase = "txs" \/ (phase = "rewards" /\ calls < MaxBatch)
  /\ phase' = "distribute"
  /\ calls' = IF phase = "txs" THEN 1 ELSE calls + 1
  /\ loop' = [loop EXCEPT !.todo = listed]
  /\ IF bonus > 0 /\ Exists(author)
     THEN AddValidatorRewards(author, bonus, 0)
     ELSE UNCHANGED <<val, balance>>
  /\ UNCHANGED <<del, und, lastId, st, wallet, astray, delegated, activity,
                 block, lastEpoch, eligible, defects>>

(* One validator of the statistics.  If it proposed or voted it is paid,   *)
(* marked active and recovers its full voting power; fees go to its owner. *)
RewardValidator(v, active, reward, fees) ==
  /\ phase = "distribute"
  /\ v \in loop.todo
  /\ active \/ reward = 0
  /\ loop' = [loop EXCEPT !.todo = @ \ {v}]
  /\ IF Exists(v)
     THEN AddValidatorRewards(v, reward, fees)
     ELSE UNCHANGED <<val, balance>>
  /\ IF Exists(v) /\ active
     THEN /\ lastActive' = [lastActive EXCEPT ![v] = block]
          /\ factor' = [factor EXCEPT ![v] = BasisPointsScale]
          /\ eligible' = eligible
                         + voteCountWithFactor(val[v].stake, BasisPointsScale)
                         - voteCountWithFactor(val[v].stake, factor[v])
          /\ defects' = IF evicting[v] THEN defects \cup {"recovery"} ELSE defects
     ELSE UNCHANGED <<lastActive, factor, eligible, defects>>
  /\ UNCHANGED <<del, und, lastId, st, wallet, astray, delegated, evicting,
                 block, calls, phase, lastEpoch>>

AtEpochBoundary == /\ block > InactivityEpochBlocks - 1
                   /\ block % InactivityEpochBlocks = 0

(* Mutant of PenaltiesDue: without the once-per-boundary guard.            *)
PenaltiesDueAlways == AtEpochBoundary

PenaltiesDue == AtEpochBoundary /\ lastEpoch < block

(* The end of DistributeRewards.                                           *)
EndDistribution ==
  /\ phase = "distribute"
  /\ loop.todo = {}
  /\ IF PenaltiesDue
     THEN /\ lastEpoch' = block
          /\ phase' = "resume"
          /\ loop' = [loop EXCEPT !.todo = {v \in Validator : Exists(v) /\ evicting[v]},
                                  !.budget = MaxEvictionsPerBlock]
     ELSE /\ phase' = "rewards"
          /\ UNCHANGED <<lastEpoch, loop>>
  /\ UNCHANGED <<ledger, activity, block, calls, eligible, defects>>

-----------------------------------------------------------------------------
(***************************************************************************)
(* applyInactivityPenalties.  Step 1 ("resume") continues the evictions in *)
(* progress, step 2 ("scan") decays inactive validators and collects those *)
(* to evict, step 3 ("evict") starts their eviction.  The iteration order  *)
(* of the validators list is left open.                                    *)
(***************************************************************************)
StopVoting(v) ==
  LET remaining_votes == voteCountWithFactor(val[v].stake, factor[v])
  IN  /\ eligible' = IF eligible >= remaining_votes
                     THEN eligible - remaining_votes ELSE eligible
      /\ factor' = [factor EXCEPT ![v] = 0]
      /\ evicting' = [evicting EXCEPT ![v] = TRUE]

(* forceEvictValidator: the votes go first, then a page of delegators.     *)
forceEvictValidator(v) ==
  LET delegators == {d \in Delegator : Delegated(d, v)}
  IN  /\ loop.budget > 0
      /\ \E page \in SUBSET delegators :
           /\ Cardinality(page) = IF Cardinality(delegators) <= loop.budget
                                  THEN Cardinality(delegators) ELSE loop.budget
           /\ loop' = [loop EXCEPT !.todo = @ \ {v}, !.current = v, !.page = page,
                                   !.end = (page = delegators),
                                   !.budget = @ - Cardinality(page)]
      /\ IF evicting[v]
         THEN UNCHANGED <<eligible, factor, evicting>>
         ELSE StopVoting(v)
      /\ UNCHANGED <<ledger, lastActive, block, calls, phase, lastEpoch, defects>>

ResumeEviction(v) ==
  /\ phase = "resume"
  /\ loop.current = Nil
  /\ v \in loop.todo
  /\ forceEvictValidator(v)

WithoutDelegation(v, amount) ==
  [val[v] EXCEPT !.stake = @ - amount, !.undelegations = Inc(@)]

(* undelegateInternal: no lock, no settlement, no reference given up.      *)
undelegateInternal(d) ==
  LET v == loop.current
      amount == del[d][v].stake
  IN  /\ v # Nil
      /\ d \in loop.page
      /\ loop' = [loop EXCEPT !.page = @ \ {d}]
      /\ val' = [val EXCEPT ![v] = WithoutDelegation(v, amount)]
      /\ delegated' = delegated - amount
      /\ del' = [del EXCEPT ![d][v] = Nil]
      /\ CreateUndelegation(d, v, amount, block)
      /\ UNCHANGED <<st, balance, wallet, astray, activity, block, calls, phase,
                     lastEpoch, eligible, defects>>

(* Mutant of EndEviction: one that is not finished is tried again at once. *)
EndEvictionRetrying ==
  /\ loop.current # Nil
  /\ loop.page = {}
  /\ evicting' = [evicting EXCEPT ![loop.current] = ~loop.end]
  /\ loop' = [loop EXCEPT !.todo = IF loop.end THEN @ ELSE @ \cup {loop.current},
                          !.current = Nil, !.end = FALSE]
  /\ UNCHANGED <<ledger, factor, lastActive, block, calls, phase, lastEpoch, eligible, defects>>

(* Mutant of EndEviction: the cursor goes even when the page was not the   *)
(* last one.                                                               *)
EndEvictionAtOnce ==
  /\ loop.current # Nil
  /\ loop.page = {}
  /\ evicting' = [evicting EXCEPT ![loop.current] = FALSE]
  /\ loop' = [loop EXCEPT !.current = Nil, !.end = FALSE]
  /\ UNCHANGED <<ledger, factor, lastActive, block, calls, phase, lastEpoch, eligible, defects>>

EndEviction ==
  /\ loop.current # Nil
  /\ loop.page = {}
  /\ evicting' = [evicting EXCEPT ![loop.current] = ~loop.end]
  /\ loop' = [loop EXCEPT !.current = Nil, !.end = FALSE]
  /\ UNCHANGED <<ledger, factor, lastActive, block, calls, phase, lastEpoch, eligible, defects>>

EndResume ==
  /\ phase = "resume"
  /\ loop.current = Nil
  /\ loop.todo = {} \/ loop.budget = 0
  /\ phase' = "scan"
  /\ loop' = [loop EXCEPT !.todo = {v \in Validator : Exists(v)}]
  /\ UNCHANGED <<ledger, activity, block, calls, lastEpoch, eligible, defects>>

Decay(f) == (f * 95) \div 100

(* Mutant of Penalise: the lost votes stay in eligible_vote_count.         *)
PenaliseUncounted(v) ==
  LET new_factor == Decay(factor[v])
      effective_balance == (val[v].stake * new_factor) \div BasisPointsScale
  IN  /\ factor' = [factor EXCEPT ![v] = new_factor]
      /\ loop' = [loop EXCEPT
                    !.todo = @ \ {v},
                    !.toEvict = IF effective_balance < EligibilityBalanceThreshold
                                THEN @ \cup {v} ELSE @]
      /\ UNCHANGED <<eligible, lastActive>>

Penalise(v) ==
  LET new_factor == Decay(factor[v])
      effective_balance == (val[v].stake * new_factor) \div BasisPointsScale
  IN  /\ factor' = [factor EXCEPT ![v] = new_factor]
      /\ eligible' = eligible + voteCountWithFactor(val[v].stake, new_factor)
                              - voteCountWithFactor(val[v].stake, factor[v])
      /\ loop' = [loop EXCEPT
                    !.todo = @ \ {v},
                    !.toEvict = IF effective_balance < EligibilityBalanceThreshold
                                THEN @ \cup {v} ELSE @]
      /\ UNCHANGED lastActive

(* Active since epoch_start.                                               *)
ActiveInEpoch(v) == lastActive[v] >= block - InactivityEpochBlocks

Scan(v) ==
  LET exempt == val[v].stake = 0 \/ evicting[v]
  IN  /\ phase = "scan"
      /\ v \in loop.todo
      /\ IF exempt \/ lastActive[v] = 0 \/ ActiveInEpoch(v)
         THEN /\ loop' = [loop EXCEPT !.todo = @ \ {v}]
              /\ lastActive' = IF ~exempt /\ lastActive[v] = 0
                               THEN [lastActive EXCEPT ![v] = block] ELSE lastActive
              /\ UNCHANGED <<factor, eligible>>
         ELSE Penalise(v)
      /\ UNCHANGED <<ledger, evicting, block, calls, phase, lastEpoch, defects>>

EndScan ==
  /\ phase = "scan"
  /\ loop.todo = {}
  /\ phase' = "evict"
  /\ loop' = [loop EXCEPT !.todo = loop.toEvict, !.toEvict = {}]
  /\ UNCHANGED <<ledger, activity, block, calls, lastEpoch, eligible, defects>>

StartEviction(v) ==
  /\ phase = "evict"
  /\ loop.current = Nil
  /\ v \in loop.todo
  /\ \/ forceEvictValidator(v)
     \/ /\ loop.budget = 0
        /\ StopVoting(v)
        /\ loop' = [loop EXCEPT !.todo = @ \ {v}]
        /\ UNCHANGED <<ledger, lastActive, block, calls, phase, lastEpoch, defects>>

EndPenalties ==
  /\ phase = "evict"
  /\ loop.current = Nil
  /\ loop.todo = {}
  /\ phase' = "rewards"
  /\ loop' = NoLoop
  /\ UNCHANGED <<ledger, activity, block, calls, lastEpoch, eligible, defects>>

(* EndBlock and Commit: the next block begins.                             *)
EndBlock ==
  /\ phase \in {"txs", "rewards"}
  /\ NextBlock
  /\ UNCHANGED <<ledger, activity, loop, lastEpoch, eligible, defects>>

-----------------------------------------------------------------------------
Genesis ==
  \/ \E v \in Validator, d \in Delegator, c \in Commissions : GenesisValidator(v, d, c)
  \/ \E v \in Validator, d \in Delegator, a \in Amounts : GenesisDelegation(d, v, a)
  \/ EndGenesis

Transaction ==
  \/ \E d \in Delegator, v \in Validator :
       \/ \E a \in Amounts, c \in Commissions : registerValidator(v, d, a, c)
       \/ \E a \in Amounts : Delegate(d, v, a)
       \/ \E a \in Amounts : undelegate(d, v, a)
       \/ \E a \in Amounts, t \in Validator : redelegate(d, v, t, a)
       \/ claimRewards(d, v)
       \/ claimCommissionRewards(d, v)
       \/ \E c \in Commissions : setCommission(d, v, c)
  \/ \E u \in und : confirmUndelegate(u)
  \/ \E u \in und : cancelUndelegate(u)
  \/ \E d \in Delegator : claimAllRewards(d)

Distribution ==
  \/ \E listed \in SUBSET Validator, author \in Validator, r \in Rewards :
       DistributeRewards(listed, author, r)
  \/ \E v \in Validator, active \in BOOLEAN, r \in Rewards, f \in Rewards :
       RewardValidator(v, active, r, f)
  \/ EndDistribution

Penalties ==
  \/ \E v \in Validator : ResumeEviction(v)
  \/ EndResume
  \/ \E v \in Validator : Scan(v)
  \/ EndScan
  \/ \E v \in Validator : StartEviction(v)
  \/ \E d \in Delegator : undelegateInternal(d)
  \/ EndEviction
  \/ EndPenalties

Next == Genesis \/ Transaction \/ Distribution \/ Penalties \/ EndBlock

Spec == Init /\ [][Next]_vars

-----------------------------------------------------------------------------
(***************************************************************************)
(* Properties.  Most of them fail once an error path that damages the      *)
(* ledger was taken, which runs of their own show; "Spared" says that none *)
(* of those that bear on the property was.                                 *)
(***************************************************************************)
Spared(paths) == defects \cap paths = {}

StakeOf(d, v) == IF Delegated(d, v) THEN del[d][v].stake ELSE 0

ValidatorStake(v) == IF Exists(v) THEN val[v].stake ELSE 0

(***************************************************************************)
(* The total stake of a validator is the sum of the delegations to it, and *)
(* amount_delegated is the sum over validators, through delegations,       *)
(* undelegations, cancellations, redelegations and evictions.              *)
(***************************************************************************)
StakeAccounted ==
  Spared({"cancel", "zero"}) =>
    /\ \A v \in Validator :
         ValidatorStake(v) = SumFunctionOnSet([d \in Delegator |-> StakeOf(d, v)], Delegator)
    /\ delegated = SumFunctionOnSet([v \in Validator |-> ValidatorStake(v)], Validator)

(***************************************************************************)
(* Everything that will look a reward state up: the delegations last       *)
(* updated at block b, and the validator itself.                           *)
(***************************************************************************)
Refs(v, b) ==
  Cardinality({d \in Delegator : Delegated(d, v) /\ del[d][v].last = b})
    + IF Exists(v) /\ val[v].last = b THEN 1 ELSE 0

(***************************************************************************)
(* A reward state lives as long as a delegation or its validator needs it: *)
(* its reference count never falls below the number of references, so the  *)
(* panic of state_get_and_decrement ("This should never happen") is not    *)
(* reached.  The count may exceed it: states leak, they never go missing.  *)
(***************************************************************************)
RefsCounted ==
  Spared({"cancel", "redelegate", "zero"}) =>
    \A v \in Validator, b \in Blocks : Refs(v, b) <= st[v][b].count

(***************************************************************************)
(* A validator is deleted only when nothing depends on it any more: its    *)
(* counter of undelegations is exact and every delegation and undelegation *)
(* belongs to a registered validator.                                      *)
(***************************************************************************)
NothingDangles ==
  Spared({"cancel", "zero"}) =>
    \A v \in Validator :
      LET pending == {u \in und : u.validator = v}
      IN  IF Exists(v)
          THEN val[v].undelegations = Cardinality(pending)
          ELSE pending = {} /\ \A d \in Delegator : ~Delegated(d, v)

(***************************************************************************)
(* No sequence of delegations, redelegations and cancelled undelegations   *)
(* takes a validator over the maximum stake.                               *)
(***************************************************************************)
MaxStakeRespected == \A v \in Validator : ValidatorStake(v) <= ValidatorMaximumStake

(* What a recount gives validator v.                                       *)
Votes(v) == voteCountWithFactor(ValidatorStake(v), factor[v])

(***************************************************************************)
(* eligible_vote_count, which is updated by differences in every method    *)
(* and every penalty, is the number of votes a recount would give.  The    *)
(* consensus derives its quorum from it.                                   *)
(***************************************************************************)
EligibleVotesExact ==
  Spared({"recovery"}) =>
    eligible = SumFunctionOnSet([v \in Validator |-> Votes(v)], Validator)

(***************************************************************************)
(* What delegator d would be paid by v for the rewards distributed so far. *)
(***************************************************************************)
Owed(d, v) ==
  IF Delegated(d, v) /\ Exists(v)
  THEN calculateDelegatorReward(
         st[v][val[v].last].rps - st[v][del[d][v].last].rps
           + IF val[v].stake > 0
             THEN calculateRewardPer1Stake(val[v].pool, val[v].stake) ELSE 0,
         del[d][v].stake)
  ELSE 0

(* What v holds for others: its stake, its commission and their rewards.   *)
Liability(v) ==
  ValidatorStake(v)
    + (IF Exists(v) THEN val[v].commissionPool ELSE 0)
    + SumFunctionOnSet([d \in Delegator |-> Owed(d, v)], Delegator)

(***************************************************************************)
(* The ledger owes no more than it counts as received: the balance, with   *)
(* what calls other than a kept CALL left elsewhere, covers every stake,   *)
(* every pending undelegation, every commission and every reward owed.     *)
(* While every call is a CALL that is kept nothing is astray, and the      *)
(* contract can always pay: transferContractBalance never panics, whatever *)
(* order they call in.  After others it may lack what is astray.           *)
(***************************************************************************)
Solvent ==
  Spared({"cancel", "redelegate", "zero"}) =>
    balance + astray >= SumFunctionOnSet([u \in und |-> u.amount], und)
                       + SumFunctionOnSet([v \in Validator |-> Liability(v)], Validator)

(***************************************************************************)
(* What the calls of other delegators, the distribution and the eviction   *)
(* do to a delegation they leave in place: the reward it is owed never     *)
(* shrinks.                                                                *)
(***************************************************************************)
RewardsKept ==
  [][\A d \in Delegator, v \in Validator :
       Delegated(d, v) /\ del'[d][v] = del[d][v] /\ defects' = {}
         => Owed(d, v)' >= Owed(d, v)]_vars

(***************************************************************************)
(* The voting power factor after n consecutive penalties.                  *)
(***************************************************************************)
DecayedFactor[n \in Nat] == IF n = 0 THEN BasisPointsScale ELSE Decay(DecayedFactor[n - 1])

(***************************************************************************)
(* Epoch boundaries so far whose whole epoch v was inactive in.            *)
(***************************************************************************)
EpochsMissed(v) ==
  LET since == lastEpoch - InactivityEpochBlocks - lastActive[v]
  IN  IF since <= 0 THEN 0
      ELSE (since + InactivityEpochBlocks - 1) \div InactivityEpochBlocks

(***************************************************************************)
(* A validator loses 5% once per missed epoch, however many distributions  *)
(* a batch makes at the boundary, and nothing in an epoch it was active    *)
(* in; only an eviction takes the rest, and only from one that was         *)
(* inactive.                                                               *)
(***************************************************************************)
DecayOncePerEpoch ==
  \A v \in Validator :
    IF factor[v] = 0 THEN EpochsMissed(v) > 0
    ELSE factor[v] >= DecayedFactor[EpochsMissed(v)]

(***************************************************************************)
(* The eviction of a validator may be spread over many blocks, with calls  *)
(* between its parts.  Its cursor goes only when nobody delegates to it    *)
(* any more: no delegator is left behind when the budget ends within a     *)
(* validator, and none is when the validator is deleted meanwhile.         *)
(***************************************************************************)
EvictionComplete ==
  [][\A v \in Validator :
       evicting[v] /\ ~evicting'[v] /\ defects' \cap {"cancel", "zero"} = {}
         => \A d \in Delegator : ~Delegated(d, v)']_vars

(* Inside of DistributeRewards.                                            *)
Distributing == phase \notin {"genesis", "txs", "rewards"}

(***************************************************************************)
(* What a distribution has before it: stages, then validators of the       *)
(* stage, then delegators of the page.                                     *)
(***************************************************************************)
Stage ==
  CASE phase = "distribute" -> 4 [] phase = "resume" -> 3 [] phase = "scan" -> 2
    [] phase = "evict" -> 1 [] OTHER -> 0

OnPage == Cardinality(loop.page) + (IF loop.current = Nil THEN 0 ELSE 1)

(***************************************************************************)
(* Each step of a distribution leaves it less to do: no loop takes a       *)
(* validator or a delegator twice, and none begins again.                  *)
(***************************************************************************)
DistributionAdvances ==
  [][Distributing =>
       \/ Stage' < Stage
       \/ Stage' = Stage /\ Cardinality(loop.todo') < Cardinality(loop.todo)
       \/ Stage' = Stage /\ loop.todo' = loop.todo /\ OnPage' < OnPage]_vars

=============================================================================
