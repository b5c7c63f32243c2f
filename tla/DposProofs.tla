----------------------------- MODULE DposProofs -----------------------------
(***************************************************************************)
(* Proofs about Dpos, for every configuration and any number of validators *)
(* and delegators: the types of everything the contract stores, the        *)
(* maximum stake of a validator, one penalty of the voting power per       *)
(* missed epoch, the progress of a distribution, the sums of the ledger    *)
(* that the methods keep up to date by differences, and that what refers   *)
(* to a state or a validator finds it.                                     *)
(***************************************************************************)
EXTENDS Dpos, FiniteSums

(* The records that calls create and remove are read through everywhere.   *)
USE DEF CreateUndelegation, RemoveUndelegation, CreateValidator

States == [Blocks -> StateRec]

(* A stored validator within the maximum stake.                            *)
BoundedRec == {r \in ValidatorRec : r.stake <= ValidatorMaximumStake}

(***************************************************************************)
(* The inductive invariant, in parts that few actions disturb together.    *)
(***************************************************************************)
LedgerOK ==
  /\ val \in [Validator -> BoundedRec \cup {Nil}]
  /\ del \in [Delegator -> [Validator -> DelegationRec \cup {Nil}]]
  /\ und \subseteq UndelegationRec
  /\ lastId \in [Delegator -> Nat]
  /\ st \in [Validator -> States]

ActivityOK ==
  /\ factor \in [Validator -> 0..BasisPointsScale]
  /\ lastActive \in [Validator -> Blocks]
  /\ evicting \in [Validator -> BOOLEAN]

CountsOK == eligible \in Int /\ delegated \in Int /\ defects \subseteq Defects

ControlOK ==
  /\ block \in Blocks
  /\ phase \in Phases
  /\ calls \in Nat
  /\ lastEpoch \in Blocks

LoopType ==
  loop \in [todo : SUBSET Validator, toEvict : SUBSET Validator,
            budget : Nat, current : Validator \cup {Nil},
            page : SUBSET Delegator, end : BOOLEAN]

(* The loops work on registered validators, and on delegations that exist. *)
LoopOK ==
  /\ loop.current # Nil => Exists(loop.current) /\ phase \in {"resume", "evict"}
  /\ \A d \in loop.page : loop.current # Nil /\ Delegated(d, loop.current)
  /\ phase \in {"resume", "scan", "evict"} =>
       \A v \in loop.todo \cup loop.toEvict : Exists(v)
  /\ phase # "scan" => loop.toEvict = {}

IInv == LedgerOK /\ ActivityOK /\ CountsOK /\ ControlOK /\ LoopType /\ LoopOK

-----------------------------------------------------------------------------
(* The quotient of natural numbers is one.                                 *)
LEMMA DivIsNat ==
  ASSUME NEW a \in Nat, NEW b \in Nat \ {0}
  PROVE  a \div b \in Nat
OBVIOUS

(* The product of natural numbers is one.                                  *)
LEMMA TimesIsNat ==
  ASSUME NEW a \in Nat, NEW b \in Nat
  PROVE  a * b \in Nat
OBVIOUS

(* A value in basis points is a natural number.                            *)
LEMMA ScaledIsNat ==
  ASSUME NEW f \in 0..BasisPointsScale
  PROVE  f \in Nat
BY DEF BasisPointsScale

(* A share of at most 100% is at most the whole.                           *)
LEMMA ShareBound ==
  ASSUME NEW r \in Nat, NEW c \in 0..MaxCommission
  PROVE  (r * c) \div MaxCommission \in 0..r
<1> DEFINE p == r * c
<1>1. c \in Nat /\ c <= 10000
  BY DEF MaxCommission, BasisPointsScale
<1>2. p \in Nat /\ p <= r * 10000
  BY <1>1
<1> HIDE DEF p
<1>3. p \div 10000 \in 0..r
  BY <1>2
<1> QED
  BY <1>3 DEF p, MaxCommission, BasisPointsScale

(* Vote counts are integers.                                               *)
LEMMA VoteCountIsInt ==
  ASSUME NEW stake \in Int, NEW f \in Nat
  PROVE  voteCountWithFactor(stake, f) \in Int
<1> DEFINE eff == (stake * f) \div BasisPointsScale
<1>1. stake * f \in Int
  OBVIOUS
<1>2. eff \in Int
  BY <1>1 DEF BasisPointsScale
<1>3. eff \div VoteEligibilityBalanceStep \in Int
  <2> HIDE DEF eff
  <2> QED
    BY <1>2, ConfigAssumption
<1> QED
  BY <1>3 DEF voteCountWithFactor

(* The votes a change of stake adds are an integer.                        *)
LEMMA VotesDeltaIsInt ==
  ASSUME LedgerOK, ActivityOK, NEW v \in Validator, Exists(v), NEW amount \in Int
  PROVE  VotesDelta(v, amount) \in Int
<1>1. val[v].stake \in Int /\ val[v].stake + amount \in Int
  BY DEF LedgerOK, Exists, BoundedRec, ValidatorRec
<1>2. factor[v] \in Nat
  <2>1. factor \in [Validator -> 0..BasisPointsScale]
    BY Zenon DEF ActivityOK
  <2>2. factor[v] \in 0..BasisPointsScale
    BY <2>1
  <2> QED
    BY <2>2, ScaledIsNat
<1>3. voteCountWithFactor(val[v].stake, factor[v]) \in Int
  BY <1>1, <1>2, VoteCountIsInt
<1>4. voteCountWithFactor(val[v].stake + amount, factor[v]) \in Int
  BY <1>1, <1>2, VoteCountIsInt
<1> QED
  BY <1>3, <1>4 DEF VotesDelta

(* Giving up a reference that exists leaves well-formed states.            *)
LEMMA DecrementType ==
  ASSUME NEW states \in States, NEW b \in Blocks, states[b].count > 0
  PROVE  Decrement(states, b) \in States
<1>1. NoState \in StateRec
  BY DEF NoState, StateRec
<1>2. states[b] \in StateRec /\ states[b].count \in Nat /\ states[b].rps \in Nat
  BY DEF States, StateRec
<1>3. states[b].count # 1 =>
        [rps |-> states[b].rps, count |-> states[b].count - 1] \in StateRec
  BY <1>2 DEF StateRec
<1> QED
  BY <1>1, <1>3 DEF Decrement, States

(* Settling the rewards of a validator: what is stored stays well formed   *)
(* and the stake does not change.                                          *)
LEMMA SettleTypes ==
  ASSUME LedgerOK, block \in Blocks, NEW v \in Validator,
         Exists(v) \/ Has(v, block), CanSettle(v)
  PROVE  /\ Settled(v) \in StateRec
         /\ StatesSettled(v) \in States
         /\ Exists(v) => /\ ValSettled(v) \in BoundedRec
                         /\ ValSettled(v).stake = val[v].stake
<1>1. st[v] \in States /\ \A b \in Blocks : st[v][b] \in StateRec
  BY DEF LedgerOK, States
<1>2. CASE Has(v, block)
  <2>1. Exists(v) => val[v] \in BoundedRec
    BY DEF LedgerOK, Exists
  <2> QED
    BY <1>1, <1>2, <2>1 DEF Settled, StatesSettled, ValSettled
<1>3. CASE ~Has(v, block)
  <2>1. Exists(v) /\ Has(v, val[v].last)
    BY <1>3 DEF CanSettle
  <2>2. val[v] \in BoundedRec
    BY <2>1 DEF LedgerOK, Exists
  <2>3. /\ val[v].last \in Blocks /\ val[v].stake \in Int /\ val[v].pool \in Nat
        /\ val[v].stake <= ValidatorMaximumStake
    BY <2>2 DEF BoundedRec, ValidatorRec
  <2>4. StatesSettled(v) \in States
    BY <1>1, <1>3, <2>1, <2>3, DecrementType DEF StatesSettled, Has
  <2>5. val[v].stake > 0 =>
          calculateRewardPer1Stake(val[v].pool, val[v].stake) \in Nat
    <3> DEFINE p == val[v].pool * ValidatorMaximumStake
    <3>1. p \in Nat
      BY <2>3, ConfigAssumption, TimesIsNat
    <3> HIDE DEF p
    <3>2. val[v].stake > 0 => p \div val[v].stake \in Nat
      BY <3>1, <2>3, DivIsNat
    <3> QED
      BY <3>2 DEF p, calculateRewardPer1Stake
  <2>6. st[v][val[v].last].rps \in Nat
    BY <1>1, <2>3 DEF StateRec
  <2>7. Settled(v) \in StateRec
    <3> DEFINE n == IF val[v].stake > 0
                    THEN calculateRewardPer1Stake(val[v].pool, val[v].stake) ELSE 0
    <3>1. n \in Nat
      BY <2>5
    <3>2. Settled(v) = [rps |-> st[v][val[v].last].rps + n, count |-> 1]
      BY <1>3 DEF Settled
    <3> HIDE DEF n
    <3> QED
      BY <3>1, <3>2, <2>6 DEF StateRec
  <2>8. ValSettled(v) = [val[v] EXCEPT !.pool = 0, !.last = block]
    BY <1>3 DEF ValSettled
  <2>9. ValSettled(v) \in BoundedRec /\ ValSettled(v).stake = val[v].stake
    <3> DEFINE r == val[v]
               w == [r EXCEPT !.pool = 0, !.last = block]
    <3>1. r \in ValidatorRec
      BY <2>2 DEF BoundedRec
    <3> HIDE DEF r
    <3>2. w \in ValidatorRec /\ w.stake = r.stake
      BY <3>1 DEF ValidatorRec
    <3>3. ValSettled(v) = w
      BY <2>8 DEF r
    <3> HIDE DEF w
    <3> QED
      BY <2>3, <3>2, <3>3 DEF r, BoundedRec
  <2> QED
    BY <2>4, <2>7, <2>9
<1> QED
  BY <1>2, <1>3

(* Storing the state in memory, with n more references.                    *)
LEMMA PutStateType ==
  ASSUME block \in Blocks, NEW states \in States, NEW v, Settled(v) \in StateRec,
         NEW n \in Nat
  PROVE  PutState(states, v, n) \in States
<1>1. [rps |-> Settled(v).rps, count |-> Settled(v).count + n] \in StateRec
  BY DEF StateRec
<1> QED
  BY <1>1 DEF PutState, States

(* A claim leaves well-formed states.                                      *)
LEMMA ClaimTypes ==
  ASSUME LedgerOK, block \in Blocks, NEW d \in Delegator, NEW v \in Validator,
         Exists(v) \/ Has(v, block), Delegated(d, v), CanClaim(d, v)
  PROVE  StatesClaimed(d, v) \in States
<1>1. del[d][v] \in DelegationRec
  BY DEF LedgerOK, Delegated
<1>2. del[d][v].last \in Blocks
  BY <1>1 DEF DelegationRec
<1>3. StatesSettled(v) \in States
  BY SettleTypes DEF CanClaim
<1> QED
  BY <1>2, <1>3, DecrementType DEF StatesClaimed, CanClaim

(* A credit leaves well-formed states and a well-formed delegation.        *)
LEMMA CreditTypes ==
  ASSUME LedgerOK, block \in Blocks, NEW d \in Delegator, NEW v \in Validator,
         Exists(v), CanCredit(d, v), NEW amount \in Nat
  PROVE  /\ StatesCredited(d, v) \in States
         /\ Credited(d, v, amount) \in DelegationRec
<1>1. CanSettle(v)
  BY DEF CanCredit
<1>2. StatesSettled(v) \in States
  BY <1>1, SettleTypes
<1>3. Delegated(d, v) => StatesClaimed(d, v) \in States
  BY ClaimTypes DEF CanCredit
<1>4. Delegated(d, v) => del[d][v].stake \in Nat
  BY DEF LedgerOK, Delegated, DelegationRec
<1>5. Credited(d, v, amount) \in DelegationRec
  BY <1>4 DEF Credited, DelegationRec
<1> QED
  BY <1>2, <1>3, <1>5 DEF StatesCredited

(* A debit leaves a well-formed delegation, or none.                       *)
LEMMA DebitTypes ==
  ASSUME LedgerOK, block \in Blocks, NEW d \in Delegator, NEW v \in Validator,
         NEW amount \in Nat, MayWithdraw(d, v, amount)
  PROVE  /\ Debited(d, v, amount) \in DelegationRec \cup {Nil}
         /\ KeepsDelegation(d, v, amount) \in Nat
<1>1. del[d][v] \in DelegationRec
  BY DEF LedgerOK, Delegated, MayWithdraw
<1>2. del[d][v].stake \in Nat
  BY <1>1 DEF DelegationRec
<1>3. del[d][v].stake - amount \in Nat
  BY <1>2 DEF MayWithdraw
<1> QED
  BY <1>3 DEF Debited, DelegationRec, KeepsDelegation

(* The validator records the methods store are within the maximum stake.   *)
LEMMA ValRecTypes ==
  ASSUME LedgerOK, block \in Blocks, NEW v \in Validator, Exists(v), CanSettle(v),
         NEW amount \in Nat
  PROVE  /\ ValUndelegated(v, amount) \in BoundedRec
         /\ FitsMaximum(v, amount) => /\ ValCredited(v, amount) \in BoundedRec
                                      /\ ValCancelled(v, amount) \in BoundedRec
<1> DEFINE s == ValSettled(v)
<1>1. s \in BoundedRec /\ s.stake = val[v].stake
  BY SettleTypes
<1> HIDE DEF s
<1>2. s.undelegations \in Nat /\ s.stake \in Int /\ s.stake <= ValidatorMaximumStake
  BY <1>1 DEF BoundedRec, ValidatorRec
<1>3. Inc(s.undelegations) \in Nat /\ Dec(s.undelegations) \in Nat
  BY <1>2, ConfigAssumption DEF Inc, Dec
<1>4. s.stake - amount \in Int /\ s.stake - amount <= ValidatorMaximumStake
  BY <1>2, ConfigAssumption
<1>5. [s EXCEPT !.stake = s.stake - amount,
                !.undelegations = Inc(s.undelegations)] \in BoundedRec
  BY <1>1, <1>3, <1>4 DEF BoundedRec, ValidatorRec
<1>6. ASSUME FitsMaximum(v, amount)
      PROVE  /\ [s EXCEPT !.stake = s.stake + amount] \in BoundedRec
             /\ [s EXCEPT !.stake = s.stake + amount,
                          !.undelegations = Dec(s.undelegations)] \in BoundedRec
  <2>1. s.stake + amount \in Int /\ s.stake + amount <= ValidatorMaximumStake
    BY <1>1, <1>2, <1>6 DEF FitsMaximum
  <2> QED
    BY <1>1, <1>3, <2>1 DEF BoundedRec, ValidatorRec
<1> QED
  BY <1>5, <1>6 DEF s, ValUndelegated, ValCredited, ValCancelled

-----------------------------------------------------------------------------
(* An update of one validator.                                             *)
LEMMA ValUpdate ==
  ASSUME LedgerOK, NEW v \in Validator, NEW r \in BoundedRec \cup {Nil}
  PROVE  [val EXCEPT ![v] = r] \in [Validator -> BoundedRec \cup {Nil}]
BY DEF LedgerOK

(* An update of the states of one validator.                               *)
LEMMA StUpdate ==
  ASSUME LedgerOK, NEW v \in Validator, NEW states \in States
  PROVE  [st EXCEPT ![v] = states] \in [Validator -> States]
BY DEF LedgerOK

(* An update of one delegation.                                            *)
LEMMA DelUpdate ==
  ASSUME LedgerOK, NEW d \in Delegator, NEW v \in Validator,
         NEW r \in DelegationRec \cup {Nil}
  PROVE  [del EXCEPT ![d][v] = r] \in
           [Delegator -> [Validator -> DelegationRec \cup {Nil}]]
BY DEF LedgerOK

(* A new undelegation, with the next id of its delegator.                  *)
LEMMA UndUpdate ==
  ASSUME LedgerOK, NEW d \in Delegator, NEW v \in Validator,
         NEW amount \in Nat, NEW b \in Nat
  PROVE  /\ [lastId EXCEPT ![d] = @ + 1] \in [Delegator -> Nat]
         /\ und \cup {[delegator |-> d, validator |-> v, id |-> lastId[d] + 1,
                       amount |-> amount, block |-> b]} \subseteq UndelegationRec
<1>1. lastId[d] \in Nat
  BY DEF LedgerOK
<1>2. [delegator |-> d, validator |-> v, id |-> lastId[d] + 1,
       amount |-> amount, block |-> b] \in UndelegationRec
  BY <1>1 DEF UndelegationRec
<1> QED
  BY <1>1, <1>2 DEF LedgerOK

(* What a call of the contract may change.                                 *)
ContractOK == LedgerOK /\ ActivityOK /\ CountsOK

(* A call leaves the loops alone.                                          *)
LEMMA CallFrame ==
  ASSUME IInv, NEW when \in {"genesis", "txs"}, Call(when), UNCHANGED control,
         ContractOK'
  PROVE  IInv'
<1>1. phase \in {"genesis", "txs"} /\ phase' = phase /\ loop' = loop
  BY DEF Call, control
<1>2. ControlOK'
  <2>1. calls' \in Nat
    BY DEF IInv, ControlOK, Call
  <2> QED
    BY <2>1 DEF IInv, ControlOK, control
<1>3. LoopType'
  BY <1>1 DEF IInv, LoopType
<1>4. LoopOK'
  BY <1>1, Zenon DEF IInv, LoopOK
<1> QED
  BY <1>2, <1>3, <1>4 DEF IInv, ContractOK

(* A step that leaves the activity records alone.                          *)
LEMMA ActivityFrame ==
  ASSUME ActivityOK, UNCHANGED activity
  PROVE  ActivityOK'
BY Zenon DEF ActivityOK, activity

(* The activity records of a validator are reset when it is deleted.       *)
LEMMA ActivityReset ==
  ASSUME ActivityOK, NEW v \in Validator,
         factor' = [factor EXCEPT ![v] = BasisPointsScale],
         lastActive' = [lastActive EXCEPT ![v] = 0],
         evicting' = [evicting EXCEPT ![v] = FALSE]
  PROVE  ActivityOK'
<1>1. factor' \in [Validator -> 0..BasisPointsScale]
  <2>1. factor \in [Validator -> 0..BasisPointsScale]
    BY Zenon DEF ActivityOK
  <2>2. BasisPointsScale \in 0..BasisPointsScale
    BY DEF BasisPointsScale
  <2> QED
    BY <2>1, <2>2
<1>2. lastActive' \in [Validator -> Blocks]
  <2>1. lastActive \in [Validator -> Blocks]
    BY Zenon DEF ActivityOK
  <2>2. 0 \in Blocks
    BY InputAssumption DEF Blocks
  <2> QED
    BY <2>1, <2>2
<1>3. evicting' \in [Validator -> BOOLEAN]
  BY Zenon DEF ActivityOK
<1> QED
  BY <1>1, <1>2, <1>3 DEF ActivityOK

(* delegate.                                                               *)
LEMMA DelegatePreserves ==
  ASSUME IInv, NEW d \in Delegator, NEW v \in Validator, NEW amount \in Nat,
         delegate(d, v, amount)
  PROVE  ContractOK'
<1>0. LedgerOK /\ block \in Blocks /\ Exists(v) /\ CanCredit(d, v) /\ CanSettle(v)
  BY DEF IInv, ControlOK, delegate, CanCredit
<1>1. Settled(v) \in StateRec
  BY <1>0, SettleTypes
<1>2. PutState(StatesCredited(d, v), v, 1) \in States
  BY <1>0, <1>1, CreditTypes, PutStateType
<1>3. Credited(d, v, amount) \in DelegationRec
  BY <1>0, CreditTypes
<1>4. ValCredited(v, amount) \in BoundedRec
  BY <1>0, ValRecTypes DEF delegate
<1>5. LedgerOK'
  <2>1. val' \in [Validator -> BoundedRec \cup {Nil}]
    BY <1>0, <1>4, ValUpdate DEF delegate
  <2>2. st' \in [Validator -> States]
    BY <1>0, <1>2, StUpdate DEF delegate
  <2>3. del' \in [Delegator -> [Validator -> DelegationRec \cup {Nil}]]
    BY <1>0, <1>3, DelUpdate DEF delegate
  <2> QED
    BY <1>0, <2>1, <2>2, <2>3 DEF LedgerOK, delegate
<1>6. ActivityOK'
  BY ActivityFrame DEF IInv, delegate
<1>7. CountsOK'
  <2>1. VotesDelta(v, amount) \in Int
    BY <1>0, VotesDeltaIsInt DEF IInv
  <2> QED
    BY <2>1 DEF IInv, CountsOK, delegate
<1> QED
  BY <1>5, <1>6, <1>7 DEF ContractOK

(* registerValidator, and the registration of a genesis validator.         *)
LEMMA RegisterPreserves ==
  ASSUME IInv, NEW owner \in Delegator, NEW v \in Validator, NEW amount \in Nat,
         NEW commission \in Nat,
         registerValidatorWithoutChecks(v, owner, amount, commission)
  PROVE  ContractOK'
<1>0. LedgerOK /\ block \in Blocks
  BY DEF IInv, ControlOK
<1> DEFINE r == [stake |-> amount, commission |-> commission,
                 lastCommissionChange |-> block, last |-> block,
                 undelegations |-> 0, pool |-> 0, commissionPool |-> 0,
                 owner |-> owner]
           s == [rps |-> 0, count |-> IF amount > 0 THEN 2 ELSE 1]
<1>1. r \in BoundedRec
  <2>1. commission \in 0..MaxCommission
    <3>1. commission <= MaxCommission
      BY DEF registerValidatorWithoutChecks
    <3> QED
      BY <3>1 DEF MaxCommission, BasisPointsScale
  <2>2. r \in ValidatorRec
    BY <1>0, <2>1 DEF ValidatorRec
  <2> QED
    BY <2>2 DEF BoundedRec, registerValidatorWithoutChecks
<1>2. val' \in [Validator -> BoundedRec \cup {Nil}]
  BY <1>0, <1>1, ValUpdate DEF registerValidatorWithoutChecks
<1>3. st' \in [Validator -> States]
  <2>1. s \in StateRec
    BY DEF StateRec
  <2>2. st' = [st EXCEPT ![v][block] = s]
    BY DEF registerValidatorWithoutChecks
  <2> HIDE DEF s
  <2> QED
    BY <1>0, <2>1, <2>2 DEF LedgerOK, States
<1>4. del' \in [Delegator -> [Validator -> DelegationRec \cup {Nil}]]
  <2>1. [stake |-> amount, last |-> block] \in DelegationRec
    BY <1>0 DEF DelegationRec
  <2>2. CASE amount > 0
    BY <1>0, <2>1, <2>2, DelUpdate DEF registerValidatorWithoutChecks
  <2>3. CASE ~(amount > 0)
    BY <1>0, <2>3 DEF registerValidatorWithoutChecks, LedgerOK
  <2> QED
    BY <2>2, <2>3
<1>5. LedgerOK'
  BY <1>0, <1>2, <1>3, <1>4 DEF LedgerOK, registerValidatorWithoutChecks
<1>6. ActivityOK'
  BY ActivityFrame DEF IInv, registerValidatorWithoutChecks
<1>7. CountsOK'
  <2>1. BasisPointsScale \in Nat
    BY DEF BasisPointsScale
  <2>2. voteCountWithFactor(amount, BasisPointsScale) \in Int
    BY <2>1, VoteCountIsInt
  <2> QED
    BY <2>2 DEF IInv, CountsOK, registerValidatorWithoutChecks
<1> QED
  BY <1>5, <1>6, <1>7 DEF ContractOK

(* undelegate.                                                             *)
LEMMA UndelegatePreserves ==
  ASSUME IInv, NEW d \in Delegator, NEW v \in Validator, NEW amount \in Nat,
         undelegate(d, v, amount)
  PROVE  ContractOK'
<1>0. /\ LedgerOK /\ block \in Blocks /\ Exists(v)
      /\ CanClaim(d, v) /\ CanSettle(v) /\ MayWithdraw(d, v, amount) /\ Delegated(d, v)
  BY DEF IInv, ControlOK, undelegate, CanClaim, MayWithdraw
<1>1. PutState(StatesClaimed(d, v), v, KeepsDelegation(d, v, amount)) \in States
  BY <1>0, SettleTypes, ClaimTypes, DebitTypes, PutStateType
<1>2. Debited(d, v, amount) \in DelegationRec \cup {Nil}
  BY <1>0, DebitTypes
<1>3. ValUndelegated(v, amount) \in BoundedRec
  BY <1>0, ValRecTypes
<1>4. LedgerOK'
  <2>1. val' \in [Validator -> BoundedRec \cup {Nil}]
    BY <1>0, <1>3, ValUpdate DEF undelegate
  <2>2. st' \in [Validator -> States]
    BY <1>0, <1>1, StUpdate DEF undelegate
  <2>3. del' \in [Delegator -> [Validator -> DelegationRec \cup {Nil}]]
    BY <1>0, <1>2, DelUpdate DEF undelegate
  <2>4. block + DelegationLockingPeriod \in Nat
    BY <1>0, ConfigAssumption, InputAssumption DEF Blocks
  <2>5. lastId' \in [Delegator -> Nat] /\ und' \subseteq UndelegationRec
    BY <1>0, <2>4, UndUpdate DEF undelegate
  <2> QED
    BY <2>1, <2>2, <2>3, <2>5 DEF LedgerOK
<1>5. ActivityOK'
  BY ActivityFrame DEF IInv, undelegate
<1>6. CountsOK'
  <2>1. VotesDelta(v, -amount) \in Int
    BY <1>0, VotesDeltaIsInt DEF IInv
  <2> QED
    BY <2>1 DEF IInv, CountsOK, undelegate
<1> QED
  BY <1>4, <1>5, <1>6 DEF ContractOK

(* A deleted validator gives up the reference to its state.                *)
LEMMA DeletePreserves ==
  ASSUME LedgerOK, ActivityOK, block \in Blocks, NEW v \in Validator,
         Exists(v), Has(v, val[v].last), DeleteValidator(v),
         st' = [st EXCEPT ![v] = Decrement(st[v], val[v].last)]
  PROVE  /\ val' \in [Validator -> BoundedRec \cup {Nil}]
         /\ st' \in [Validator -> States]
         /\ ActivityOK'
<1>1. val[v].last \in Blocks /\ st[v] \in States
  BY DEF LedgerOK, Exists, BoundedRec, ValidatorRec
<1>2. Decrement(st[v], val[v].last) \in States
  BY <1>1, DecrementType DEF Has
<1>3. st' \in [Validator -> States]
  BY <1>2, StUpdate
<1>4. val' \in [Validator -> BoundedRec \cup {Nil}]
  BY ValUpdate DEF DeleteValidator
<1>5. ActivityOK'
  BY ActivityReset DEF DeleteValidator
<1> QED
  BY <1>3, <1>4, <1>5

(* confirmUndelegate.                                                      *)
LEMMA ConfirmPreserves ==
  ASSUME IInv, NEW u \in und, confirmUndelegate(u)
  PROVE  ContractOK'
<1> DEFINE v == u.validator
           n == Dec(val[v].undelegations)
           deleted == n = 0 /\ val[v].stake = 0 /\ val[v].commissionPool = 0
<1>0. LedgerOK /\ ActivityOK /\ block \in Blocks /\ v \in Validator
  BY DEF IInv, ControlOK, LedgerOK, UndelegationRec
<1>1. /\ val' \in [Validator -> BoundedRec \cup {Nil}]
      /\ st' \in [Validator -> States]
      /\ ActivityOK'
  <2>1. CASE Exists(v) /\ deleted
    <3>1. /\ Has(v, val[v].last) /\ DeleteValidator(v)
          /\ st' = [st EXCEPT ![v] = Decrement(st[v], val[v].last)]
      BY <2>1 DEF confirmUndelegate
    <3> HIDE DEF v
    <3> QED
      BY <1>0, <2>1, <3>1, DeletePreserves
  <2>2. CASE Exists(v) /\ ~deleted
    <3>1. val' = [val EXCEPT ![v].undelegations = n] /\ st' = st /\ UNCHANGED activity
      BY <2>2 DEF confirmUndelegate
    <3> HIDE DEF v
    <3>2. val[v] \in BoundedRec
      BY <1>0, <2>2 DEF LedgerOK, Exists
    <3>3. n \in Nat
      BY <3>2 DEF BoundedRec, ValidatorRec, Dec
    <3> HIDE DEF n
    <3>4. [val[v] EXCEPT !.undelegations = n] \in BoundedRec
      BY <3>2, <3>3 DEF BoundedRec, ValidatorRec
    <3>5. val' = [val EXCEPT ![v] = [val[v] EXCEPT !.undelegations = n]]
      BY <1>0, <3>1 DEF LedgerOK
    <3>6. val' \in [Validator -> BoundedRec \cup {Nil}]
      BY <1>0, <3>4, <3>5, ValUpdate
    <3>7. ActivityOK'
      BY <1>0, <3>1, ActivityFrame
    <3> QED
      BY <1>0, <3>1, <3>6, <3>7 DEF LedgerOK
  <2>3. CASE ~Exists(v)
    <3>1. val' = val /\ st' = st /\ UNCHANGED activity
      BY <2>3 DEF confirmUndelegate
    <3>2. ActivityOK'
      BY <1>0, <3>1, ActivityFrame
    <3> QED
      BY <1>0, <3>1, <3>2 DEF LedgerOK
  <2> QED
    BY <2>1, <2>2, <2>3
<1>2. und' \subseteq und /\ del' = del /\ lastId' = lastId
  BY DEF confirmUndelegate
<1>3. LedgerOK'
  BY <1>0, <1>1, <1>2 DEF LedgerOK
<1>4. CountsOK'
  BY DEF IInv, CountsOK, confirmUndelegate
<1> QED
  BY <1>1, <1>3, <1>4 DEF ContractOK

(* cancelUndelegate, accepted or rejected.                                 *)
LEMMA CancelPreserves ==
  ASSUME IInv, NEW u \in und, cancelUndelegate(u)
  PROVE  ContractOK'
<1> DEFINE v == u.validator
           d == u.delegator
<1>0. /\ LedgerOK /\ ActivityOK /\ block \in Blocks /\ v \in Validator /\ d \in Delegator
      /\ u.amount \in Nat /\ Exists(v) /\ CanCredit(d, v) /\ CanSettle(v)
  BY DEF IInv, ControlOK, LedgerOK, UndelegationRec, cancelUndelegate, CanCredit
<1>1. StatesCredited(d, v) \in States /\ Credited(d, v, u.amount) \in DelegationRec
  BY <1>0, CreditTypes
<1>2. Settled(v) \in StateRec
  BY <1>0, SettleTypes
<1>3. PutState(StatesCredited(d, v), v, 1) \in States
  BY <1>0, <1>1, <1>2, PutStateType
<1>4. und' \subseteq und /\ del' = [del EXCEPT ![d][v] = Credited(d, v, u.amount)]
      /\ lastId' = lastId /\ UNCHANGED activity
  BY DEF cancelUndelegate
<1>5. del' \in [Delegator -> [Validator -> DelegationRec \cup {Nil}]]
  BY <1>0, <1>1, <1>4, DelUpdate
<1>6. /\ val' \in [Validator -> BoundedRec \cup {Nil}]
      /\ st' \in [Validator -> States]
      /\ CountsOK'
  <2>1. CASE FitsMaximum(v, u.amount)
    <3>1. /\ st' = [st EXCEPT ![v] = PutState(StatesCredited(d, v), v, 1)]
          /\ val' = [val EXCEPT ![v] = ValCancelled(v, u.amount)]
          /\ delegated' = delegated + u.amount
          /\ eligible' = eligible + VotesDelta(v, u.amount)
          /\ defects' \subseteq defects \cup {"zero"}
      BY <2>1 DEF cancelUndelegate
    <3>2. ValCancelled(v, u.amount) \in BoundedRec
      BY <1>0, <2>1, ValRecTypes
    <3>3. VotesDelta(v, u.amount) \in Int
      BY <1>0, VotesDeltaIsInt
    <3>4. CountsOK'
      BY <1>0, <3>1, <3>3 DEF IInv, CountsOK, Defects
    <3> QED
      BY <1>0, <1>3, <3>1, <3>2, <3>4, ValUpdate, StUpdate
  <2>2. CASE ~FitsMaximum(v, u.amount)
    <3>1. /\ st' = [st EXCEPT ![v] = StatesCredited(d, v)] /\ val' = val
          /\ delegated' = delegated /\ eligible' = eligible
          /\ defects' = defects \cup {"cancel"}
      BY <2>2 DEF cancelUndelegate
    <3>2. CountsOK'
      BY <3>1 DEF IInv, CountsOK, Defects
    <3>3. st' \in [Validator -> States]
      BY <1>0, <1>1, <3>1, StUpdate
    <3> QED
      BY <1>0, <3>1, <3>2, <3>3 DEF LedgerOK
  <2> QED
    BY <2>1, <2>2
<1>7. LedgerOK'
  BY <1>0, <1>4, <1>5, <1>6 DEF LedgerOK
<1>8. ActivityOK'
  BY <1>0, <1>4, ActivityFrame
<1> QED
  BY <1>6, <1>7, <1>8 DEF ContractOK

(* The record of a validator whose stake is gone but whose pool is kept.   *)
LEMMA EmptiedRec ==
  ASSUME NEW s \in ValidatorRec, NEW p \in Nat
  PROVE  [s EXCEPT !.stake = 0, !.pool = p] \in BoundedRec
<1> DEFINE w == [s EXCEPT !.stake = 0]
           x == [w EXCEPT !.pool = p]
<1>1. w \in ValidatorRec /\ w.stake = 0
  BY DEF ValidatorRec
<1>2. [s EXCEPT !.stake = 0, !.pool = p] = x
  BY DEF ValidatorRec
<1> HIDE DEF w
<1>3. x \in ValidatorRec /\ x.stake = 0
  BY <1>1 DEF ValidatorRec
<1> HIDE DEF x
<1> QED
  BY <1>2, <1>3, ConfigAssumption DEF BoundedRec

(* What redelegate leaves of the validator the stake is taken from.        *)
LEMMA LeftTypes ==
  ASSUME LedgerOK, block \in Blocks, NEW d \in Delegator, NEW f \in Validator,
         NEW amount \in Nat, Exists(f), CanClaim(d, f), MayWithdraw(d, f, amount)
  PROVE  /\ StatesLeft(d, f, amount) \in States
         /\ ValLeft(f, amount) \in BoundedRec \cup {Nil}
<1>1. CanSettle(f) /\ Delegated(d, f)
  BY DEF CanClaim, MayWithdraw
<1>2. StatesClaimed(d, f) \in States
  BY <1>1, ClaimTypes
<1>3. PutState(StatesClaimed(d, f), f, KeepsDelegation(d, f, amount)) \in States
  BY <1>1, <1>2, SettleTypes, DebitTypes, PutStateType
<1>4. [StatesClaimed(d, f) EXCEPT ![block] = NoState] \in States
  BY <1>2 DEF States, StateRec, NoState
<1>5. StatesLeft(d, f, amount) \in States
  BY <1>2, <1>3, <1>4, Zenon DEF StatesLeft
<1> DEFINE s == ValSettled(f)
<1>6. s \in BoundedRec
  BY <1>1, SettleTypes
<1> HIDE DEF s
<1>7. val[f].pool \in Nat
  BY DEF LedgerOK, Exists, BoundedRec, ValidatorRec
<1>8. [s EXCEPT !.stake = s.stake - amount] \in BoundedRec
  <2>1. s.stake \in Int /\ s.stake - amount <= ValidatorMaximumStake
    BY <1>6, ConfigAssumption DEF BoundedRec, ValidatorRec
  <2> QED
    BY <1>6, <2>1 DEF BoundedRec, ValidatorRec
<1>9. [s EXCEPT !.stake = 0, !.pool = val[f].pool] \in BoundedRec
  <2>1. s \in ValidatorRec
    BY <1>6 DEF BoundedRec
  <2> QED
    BY <1>7, <2>1, EmptiedRec
<1>10. ValLeft(f, amount) \in BoundedRec \cup {Nil}
  BY <1>8, <1>9 DEF ValLeft, s
<1> QED
  BY <1>5, <1>10

(* redelegate.                                                             *)
LEMMA RedelegatePreserves ==
  ASSUME IInv, NEW d \in Delegator, NEW f \in Validator, NEW t \in Validator,
         NEW amount \in Nat, redelegate(d, f, t, amount)
  PROVE  ContractOK'
<1>0. /\ LedgerOK /\ ActivityOK /\ block \in Blocks /\ f # t /\ Exists(f) /\ Exists(t)
      /\ CanClaim(d, f) /\ MayWithdraw(d, f, amount)
      /\ CanCredit(d, t) /\ CanSettle(t) /\ FitsMaximum(t, amount)
  BY DEF IInv, ControlOK, redelegate, CanCredit
<1>1. StatesLeft(d, f, amount) \in States /\ ValLeft(f, amount) \in BoundedRec \cup {Nil}
  BY <1>0, LeftTypes
<1>2. PutState(StatesCredited(d, t), t, 1) \in States
  BY <1>0, SettleTypes, CreditTypes, PutStateType
<1>3. ValCredited(t, amount) \in BoundedRec
  BY <1>0, ValRecTypes
<1>4. /\ Debited(d, f, amount) \in DelegationRec \cup {Nil}
      /\ Credited(d, t, amount) \in DelegationRec
  BY <1>0, DebitTypes, CreditTypes
<1>5. LedgerOK'
  <2>1. val' \in [Validator -> BoundedRec \cup {Nil}]
    <3>1. val' = [val EXCEPT ![f] = ValLeft(f, amount), ![t] = ValCredited(t, amount)]
      BY DEF redelegate
    <3> QED
      BY <1>0, <1>1, <1>3, <3>1 DEF LedgerOK
  <2>2. st' \in [Validator -> States]
    <3>1. st' = [st EXCEPT ![f] = StatesLeft(d, f, amount),
                           ![t] = PutState(StatesCredited(d, t), t, 1)]
      BY DEF redelegate
    <3> QED
      BY <1>0, <1>1, <1>2, <3>1 DEF LedgerOK
  <2>3. del' \in [Delegator -> [Validator -> DelegationRec \cup {Nil}]]
    <3>1. del' = [del EXCEPT ![d][f] = Debited(d, f, amount),
                             ![d][t] = Credited(d, t, amount)]
      BY DEF redelegate
    <3> QED
      BY <1>0, <1>4, <3>1 DEF LedgerOK
  <2>4. und' = und /\ lastId' = lastId
    BY DEF redelegate
  <2> QED
    BY <1>0, <2>1, <2>2, <2>3, <2>4 DEF LedgerOK
<1>6. ActivityOK'
  <2>1. \/ UNCHANGED activity
        \/ /\ factor' = [factor EXCEPT ![f] = BasisPointsScale]
           /\ lastActive' = [lastActive EXCEPT ![f] = 0]
           /\ evicting' = [evicting EXCEPT ![f] = FALSE]
    BY Zenon DEF redelegate, activity
  <2> QED
    BY <1>0, <2>1, ActivityFrame, ActivityReset
<1>7. CountsOK'
  <2>1. VotesDelta(f, -amount) \in Int /\ VotesDelta(t, amount) \in Int
    BY <1>0, VotesDeltaIsInt
  <2>2. /\ eligible' = eligible + VotesDelta(f, -amount) + VotesDelta(t, amount)
        /\ delegated' = delegated
        /\ defects' \subseteq defects \cup {"redelegate"}
    BY DEF redelegate
  <2> QED
    BY <2>1, <2>2 DEF IInv, CountsOK, Defects
<1> QED
  BY <1>5, <1>6, <1>7 DEF ContractOK

(* claimAllRewards claims from some validators, usually all of d's.        *)
LEMMA ClaimsSome ==
  ASSUME NEW d, claimAllRewards(d)
  PROVE  Call("txs") /\ \E from \in SUBSET Validator : ClaimFrom(d, from)
BY DEF claimAllRewards

(* claimRewards and claimAllRewards.                                       *)
LEMMA ClaimPreserves ==
  ASSUME IInv, NEW d \in Delegator, NEW from \in SUBSET Validator, ClaimFrom(d, from)
  PROVE  ContractOK'
<1>0. LedgerOK /\ block \in Blocks
  BY DEF IInv, ControlOK
<1>1. ASSUME NEW v \in from
      PROVE  /\ PutState(StatesClaimed(d, v), v, 1) \in States
             /\ ValSettled(v) \in BoundedRec \cup {Nil}
             /\ [stake |-> del[d][v].stake, last |-> block] \in DelegationRec
  <2>1. /\ Delegated(d, v) /\ (Exists(v) \/ Has(v, block))
        /\ CanClaim(d, v) /\ CanSettle(v)
    BY DEF ClaimFrom, CanClaim, CanSettle
  <2>2. PutState(StatesClaimed(d, v), v, 1) \in States
    BY <1>0, <2>1, SettleTypes, ClaimTypes, PutStateType
  <2>3. ValSettled(v) \in BoundedRec \cup {Nil}
    <3>1. CASE Exists(v)
      BY <1>0, <2>1, <3>1, SettleTypes
    <3>2. CASE ~Exists(v)
      BY <2>1, <3>2 DEF ValSettled, Exists
    <3> QED
      BY <3>1, <3>2
  <2>4. del[d][v].stake \in Nat
    BY <1>0, <2>1 DEF LedgerOK, Delegated, DelegationRec
  <2> QED
    BY <1>0, <2>2, <2>3, <2>4 DEF DelegationRec
<1>2. val' \in [Validator -> BoundedRec \cup {Nil}]
  <2>1. val' = [v \in Validator |-> IF v \in from THEN ValSettled(v) ELSE val[v]]
    BY DEF ClaimFrom
  <2> QED
    BY <1>0, <1>1, <2>1 DEF LedgerOK
<1>3. st' \in [Validator -> States]
  <2>1. st' = [v \in Validator |->
                 IF v \in from THEN PutState(StatesClaimed(d, v), v, 1) ELSE st[v]]
    BY DEF ClaimFrom
  <2> QED
    BY <1>0, <1>1, <2>1 DEF LedgerOK
<1>4. del' \in [Delegator -> [Validator -> DelegationRec \cup {Nil}]]
  <2> DEFINE row == [v \in Validator |->
                IF v \in from THEN [stake |-> del[d][v].stake, last |-> block]
                ELSE del[d][v]]
  <2>1. del' = [del EXCEPT ![d] = row]
    BY DEF ClaimFrom
  <2>2. row \in [Validator -> DelegationRec \cup {Nil}]
    BY <1>0, <1>1 DEF LedgerOK
  <2> HIDE DEF row
  <2> QED
    BY <1>0, <2>1, <2>2 DEF LedgerOK
<1>5. LedgerOK'
  BY <1>0, <1>2, <1>3, <1>4 DEF LedgerOK, ClaimFrom
<1>6. ActivityOK'
  BY ActivityFrame DEF IInv, ClaimFrom
<1>7. CountsOK'
  BY DEF IInv, CountsOK, ClaimFrom
<1> QED
  BY <1>5, <1>6, <1>7 DEF ContractOK

(* claimCommissionRewards.                                                 *)
LEMMA CommissionClaimPreserves ==
  ASSUME IInv, NEW d \in Delegator, NEW v \in Validator, claimCommissionRewards(d, v)
  PROVE  ContractOK'
<1>0. LedgerOK /\ ActivityOK /\ block \in Blocks /\ Exists(v)
  BY DEF IInv, ControlOK, claimCommissionRewards
<1>1. /\ val' \in [Validator -> BoundedRec \cup {Nil}]
      /\ st' \in [Validator -> States]
      /\ ActivityOK'
  <2>1. CASE val[v].stake = 0 /\ val[v].undelegations = 0
    <3>1. /\ Has(v, val[v].last) /\ DeleteValidator(v)
          /\ st' = [st EXCEPT ![v] = Decrement(st[v], val[v].last)]
      BY <2>1 DEF claimCommissionRewards
    <3> QED
      BY <1>0, <3>1, DeletePreserves
  <2>2. CASE ~(val[v].stake = 0 /\ val[v].undelegations = 0)
    <3>1. val' = [val EXCEPT ![v].commissionPool = 0] /\ st' = st /\ UNCHANGED activity
      BY <2>2 DEF claimCommissionRewards
    <3>2. val[v] \in BoundedRec
      BY <1>0 DEF LedgerOK, Exists
    <3>3. [val[v] EXCEPT !.commissionPool = 0] \in BoundedRec
      BY <3>2 DEF BoundedRec, ValidatorRec
    <3>4. val' = [val EXCEPT ![v] = [val[v] EXCEPT !.commissionPool = 0]]
      BY <1>0, <3>1 DEF LedgerOK
    <3>5. val' \in [Validator -> BoundedRec \cup {Nil}]
      BY <1>0, <3>3, <3>4, ValUpdate
    <3>6. ActivityOK'
      BY <1>0, <3>1, ActivityFrame
    <3> QED
      BY <1>0, <3>1, <3>5, <3>6 DEF LedgerOK
  <2> QED
    BY <2>1, <2>2
<1>2. LedgerOK'
  BY <1>0, <1>1 DEF LedgerOK, claimCommissionRewards
<1>3. CountsOK'
  BY DEF IInv, CountsOK, claimCommissionRewards
<1> QED
  BY <1>1, <1>2, <1>3 DEF ContractOK

(* setCommission.                                                          *)
LEMMA SetCommissionPreserves ==
  ASSUME IInv, NEW d \in Delegator, NEW v \in Validator, NEW commission \in Nat,
         setCommission(d, v, commission)
  PROVE  ContractOK'
<1>0. LedgerOK /\ ActivityOK /\ block \in Blocks /\ Exists(v) /\ commission <= MaxCommission
  BY DEF IInv, ControlOK, setCommission
<1> DEFINE r == [val[v] EXCEPT !.commission = commission, !.lastCommissionChange = block]
<1>1. commission \in 0..MaxCommission
  BY <1>0 DEF MaxCommission, BasisPointsScale
<1>2. val[v] \in BoundedRec
  BY <1>0 DEF LedgerOK, Exists
<1>3. r \in BoundedRec
  BY <1>0, <1>1, <1>2 DEF BoundedRec, ValidatorRec
<1>4. val' = [val EXCEPT ![v].commission = commission, ![v].lastCommissionChange = block]
  BY DEF setCommission
<1>5. val' = [val EXCEPT ![v] = r]
  BY <1>0, <1>4 DEF LedgerOK
<1>6. val' \in [Validator -> BoundedRec \cup {Nil}]
  <2> HIDE DEF r
  <2> QED
    BY <1>0, <1>3, <1>5, ValUpdate
<1>7. LedgerOK'
  BY <1>0, <1>6 DEF LedgerOK, setCommission
<1>8. ActivityOK'
  BY <1>0, ActivityFrame DEF setCommission
<1>9. CountsOK'
  BY DEF IInv, CountsOK, setCommission
<1> QED
  BY <1>7, <1>8, <1>9 DEF ContractOK

-----------------------------------------------------------------------------
(* Rewards never touch the stake: the pools grow, and the commission is    *)
(* never more than the reward.                                             *)
LEMMA RewardsType ==
  ASSUME LedgerOK, NEW v \in Validator, Exists(v), NEW reward \in Nat, NEW fees \in Nat,
         AddValidatorRewards(v, reward, fees)
  PROVE  /\ val' \in [Validator -> BoundedRec \cup {Nil}]
         /\ \A w \in Validator : Exists(w) => Exists(w)'
<1> DEFINE c == (reward * val[v].commission) \div MaxCommission
           r == [val[v] EXCEPT !.commissionPool = val[v].commissionPool + c + fees,
                               !.pool = val[v].pool + (reward - c)]
<1>1. val[v] \in BoundedRec
  BY DEF LedgerOK, Exists
<1>2. val[v] \in ValidatorRec
  BY <1>1 DEF BoundedRec
<1>3. /\ val[v].commission \in 0..MaxCommission
      /\ val[v].commissionPool \in Nat /\ val[v].pool \in Nat
  BY <1>2 DEF ValidatorRec
<1>4. c \in 0..reward
  BY <1>3, ShareBound
<1>5. val' = [val EXCEPT ![v].commissionPool = @ + c + fees, ![v].pool = @ + (reward - c)]
  BY DEF AddValidatorRewards
<1> HIDE DEF c
<1>6. val' = [val EXCEPT ![v] = r]
  BY <1>5 DEF LedgerOK
<1>7. r \in BoundedRec
  <2>1. val[v].commissionPool + c + fees \in Nat /\ val[v].pool + (reward - c) \in Nat
    BY <1>3, <1>4
  <2> QED
    BY <1>1, <2>1 DEF BoundedRec, ValidatorRec
<1> HIDE DEF r
<1>8. val' \in [Validator -> BoundedRec \cup {Nil}]
  BY <1>6, <1>7, ValUpdate
<1>9. r # Nil
  BY <1>7, NilAssumption DEF BoundedRec
<1> QED
  BY <1>6, <1>8, <1>9 DEF Exists, LedgerOK

(* Steps that only shrink, or replace, what a loop has to visit.           *)
LEMMA TodoType ==
  ASSUME LoopType, NEW todo \in SUBSET Validator, loop' = [loop EXCEPT !.todo = todo]
  PROVE  /\ LoopType'
         /\ loop'.todo = todo /\ loop'.toEvict = loop.toEvict
         /\ loop'.current = loop.current /\ loop'.page = loop.page
BY Zenon DEF LoopType

(* Between the penalties no eviction is in progress.                       *)
LEMMA LoopIdle ==
  ASSUME LoopOK, phase \notin {"resume", "scan", "evict"},
         phase' \notin {"resume", "scan", "evict"},
         loop'.toEvict = loop.toEvict, loop'.current = loop.current,
         loop'.page = loop.page
  PROVE  LoopOK'
<1>1. loop.current = Nil /\ loop.page = {} /\ loop.toEvict = {}
  BY DEF LoopOK
<1>2. loop'.current = Nil /\ loop'.page = {} /\ loop'.toEvict = {}
  BY <1>1
<1> QED
  BY <1>2 DEF LoopOK

(* DistributeRewards: the bonus of the author, and the list to reward.     *)
LEMMA DistributePreserves ==
  ASSUME IInv, NEW listed \in SUBSET Validator, NEW author \in Validator,
         NEW bonus \in Nat, DistributeRewards(listed, author, bonus)
  PROVE  IInv'
<1>0. LedgerOK /\ LoopType /\ LoopOK /\ ActivityOK /\ ControlOK
  BY DEF IInv
<1>1. val' \in [Validator -> BoundedRec \cup {Nil}]
  <2>1. CASE bonus > 0 /\ Exists(author)
    <3>1. AddValidatorRewards(author, bonus, 0)
      BY <2>1 DEF DistributeRewards
    <3> QED
      BY <1>0, <2>1, <3>1, RewardsType
  <2>2. CASE ~(bonus > 0 /\ Exists(author))
    <3>1. val' = val
      BY <2>2 DEF DistributeRewards
    <3> QED
      BY <1>0, <3>1 DEF LedgerOK
  <2> QED
    BY <2>1, <2>2
<1>2. LedgerOK'
  BY <1>0, <1>1 DEF LedgerOK, DistributeRewards
<1>3. ActivityOK'
  BY <1>0, ActivityFrame DEF DistributeRewards
<1>4. CountsOK'
  BY DEF IInv, CountsOK, DistributeRewards
<1>5. ControlOK'
  <2>1. calls' \in Nat
    BY <1>0 DEF ControlOK, DistributeRewards
  <2> QED
    BY <1>0, <2>1 DEF ControlOK, DistributeRewards, Phases
<1>6. loop' = [loop EXCEPT !.todo = listed] /\ phase' = "distribute"
      /\ phase \in {"txs", "rewards"}
  BY DEF DistributeRewards
<1>7. LoopType' /\ LoopOK'
  BY <1>0, <1>6, TodoType, LoopIdle
<1> QED
  BY <1>2, <1>3, <1>4, <1>5, <1>7 DEF IInv

(* One validator of the statistics is rewarded.                            *)
LEMMA RewardPreserves ==
  ASSUME IInv, NEW v \in Validator, NEW active \in BOOLEAN, NEW reward \in Nat,
         NEW fees \in Nat, RewardValidator(v, active, reward, fees)
  PROVE  IInv'
<1>0. LedgerOK /\ LoopType /\ LoopOK /\ ActivityOK /\ ControlOK /\ CountsOK
  BY DEF IInv
<1>1. val' \in [Validator -> BoundedRec \cup {Nil}]
  <2>1. CASE Exists(v)
    <3>1. AddValidatorRewards(v, reward, fees)
      BY <2>1 DEF RewardValidator
    <3> QED
      BY <1>0, <2>1, <3>1, RewardsType
  <2>2. CASE ~Exists(v)
    <3>1. val' = val
      BY <2>2 DEF RewardValidator
    <3> QED
      BY <1>0, <3>1 DEF LedgerOK
  <2> QED
    BY <2>1, <2>2
<1>2. LedgerOK'
  BY <1>0, <1>1 DEF LedgerOK, RewardValidator
<1>3. evicting' = evicting
  BY DEF RewardValidator
<1>4. ActivityOK' /\ CountsOK'
  <2>1. CASE Exists(v) /\ active
    <3>1. /\ lastActive' = [lastActive EXCEPT ![v] = block]
          /\ factor' = [factor EXCEPT ![v] = BasisPointsScale]
          /\ eligible' = eligible
                         + voteCountWithFactor(val[v].stake, BasisPointsScale)
                         - voteCountWithFactor(val[v].stake, factor[v])
          /\ defects' \subseteq defects \cup {"recovery"}
          /\ delegated' = delegated
      BY <2>1 DEF RewardValidator
    <3>2. factor \in [Validator -> 0..BasisPointsScale]
          /\ lastActive \in [Validator -> Blocks]
          /\ evicting \in [Validator -> BOOLEAN]
      BY <1>0, Zenon DEF ActivityOK
    <3>3. BasisPointsScale \in Nat
      BY DEF BasisPointsScale
    <3>4. factor' \in [Validator -> 0..BasisPointsScale]
      BY <3>1, <3>2, <3>3
    <3>5. lastActive' \in [Validator -> Blocks]
      BY <1>0, <3>1, <3>2 DEF ControlOK
    <3>6. ActivityOK'
      BY <1>3, <3>2, <3>4, <3>5, Zenon DEF ActivityOK
    <3>7. val[v].stake \in Int /\ factor[v] \in Nat
      BY <1>0, <2>1, <3>2, <3>3, ScaledIsNat DEF LedgerOK, Exists, BoundedRec, ValidatorRec
    <3>8. /\ voteCountWithFactor(val[v].stake, BasisPointsScale) \in Int
          /\ voteCountWithFactor(val[v].stake, factor[v]) \in Int
      BY <3>3, <3>7, VoteCountIsInt
    <3>9. CountsOK'
      BY <1>0, <3>1, <3>8 DEF CountsOK, Defects
    <3> QED
      BY <3>6, <3>9
  <2>2. CASE ~(Exists(v) /\ active)
    <3>1. UNCHANGED <<lastActive, factor, eligible, defects, delegated>>
      BY <2>2 DEF RewardValidator
    <3>2. ActivityOK'
      BY <1>0, <1>3, <3>1, Zenon DEF ActivityOK
    <3> QED
      BY <1>0, <3>1, <3>2 DEF CountsOK
  <2> QED
    BY <2>1, <2>2
<1>5. ControlOK'
  BY <1>0 DEF ControlOK, RewardValidator
<1>6. loop' = [loop EXCEPT !.todo = loop.todo \ {v}] /\ phase = "distribute" /\ phase' = phase
  BY DEF RewardValidator
<1>7. loop.todo \ {v} \in SUBSET Validator
  BY <1>0, Zenon DEF LoopType
<1>8. LoopType' /\ LoopOK'
  BY <1>0, <1>6, <1>7, TodoType, LoopIdle
<1> QED
  BY <1>2, <1>4, <1>5, <1>8 DEF IInv

(* The end of genesis, and of a block.                                     *)
LEMMA NextBlockPreserves ==
  ASSUME IInv, phase \in {"genesis", "txs", "rewards"}, NextBlock,
         UNCHANGED <<ledger, activity, loop, lastEpoch, eligible, defects>>
  PROVE  IInv'
<1>0. LedgerOK /\ LoopType /\ LoopOK /\ ActivityOK /\ ControlOK /\ CountsOK
  BY DEF IInv
<1>1. LedgerOK'
  BY <1>0 DEF LedgerOK, ledger
<1>2. ActivityOK'
  BY <1>0, ActivityFrame
<1>3. CountsOK'
  BY <1>0 DEF CountsOK, ledger
<1>4. ControlOK'
  <2>1. block' \in Blocks
    BY <1>0, InputAssumption DEF ControlOK, Blocks, NextBlock
  <2> QED
    BY <1>0, <2>1 DEF ControlOK, NextBlock, Phases
<1>5. LoopType'
  BY <1>0 DEF LoopType
<1>6. phase' = "txs"
  BY DEF NextBlock
<1>7. LoopOK'
  BY <1>0, <1>6, LoopIdle
<1> QED
  BY <1>1, <1>2, <1>3, <1>4, <1>5, <1>7 DEF IInv

(* The end of the distribution, which may start the penalties.             *)
LEMMA EndDistributionPreserves ==
  ASSUME IInv, EndDistribution
  PROVE  IInv'
<1>0. LedgerOK /\ LoopType /\ LoopOK /\ ActivityOK /\ ControlOK /\ CountsOK
  BY DEF IInv
<1>1. LedgerOK'
  BY <1>0 DEF LedgerOK, ledger, EndDistribution
<1>2. ActivityOK'
  BY <1>0, ActivityFrame DEF EndDistribution
<1>3. CountsOK'
  BY <1>0 DEF CountsOK, ledger, EndDistribution
<1>4. phase = "distribute" /\ loop.current = Nil /\ loop.page = {} /\ loop.toEvict = {}
  BY <1>0 DEF EndDistribution, LoopOK
<1>5. ControlOK' /\ LoopType' /\ LoopOK'
  <2>1. CASE PenaltiesDue
    <3> DEFINE todo == {v \in Validator : Exists(v) /\ evicting[v]}
    <3>1. /\ loop' = [loop EXCEPT !.todo = todo, !.budget = MaxEvictionsPerBlock]
          /\ phase' = "resume" /\ lastEpoch' = block /\ UNCHANGED <<block, calls, ledger>>
      BY <2>1, Zenon DEF EndDistribution
    <3>2. todo \in SUBSET Validator /\ \A v \in todo : Exists(v)
      BY Zenon
    <3> HIDE DEF todo
    <3>3. MaxEvictionsPerBlock \in Nat
      BY ConfigAssumption
    <3>4. /\ LoopType'
          /\ loop'.todo = todo /\ loop'.toEvict = loop.toEvict
          /\ loop'.current = loop.current /\ loop'.page = loop.page
      BY <1>0, <3>1, <3>2, <3>3, Zenon DEF LoopType
    <3>5. \A v \in todo : Exists(v)'
      BY <3>1, <3>2 DEF Exists, ledger
    <3>6. LoopOK'
      BY <1>4, <3>1, <3>4, <3>5 DEF LoopOK
    <3>7. ControlOK'
      BY <1>0, <3>1 DEF ControlOK, Phases
    <3> QED
      BY <3>4, <3>6, <3>7
  <2>2. CASE ~PenaltiesDue
    <3>1. phase' = "rewards" /\ UNCHANGED <<lastEpoch, loop, block, calls>>
      BY <2>2 DEF EndDistribution
    <3>2. ControlOK' /\ LoopType'
      BY <1>0, <3>1 DEF ControlOK, Phases, LoopType
    <3> QED
      BY <1>0, <1>4, <3>1, <3>2, LoopIdle
  <2> QED
    BY <2>1, <2>2
<1> QED
  BY <1>1, <1>2, <1>3, <1>5 DEF IInv

(* A validator loses its votes and its eviction is recorded.               *)
LEMMA StopVotingTypes ==
  ASSUME LedgerOK, ActivityOK, eligible \in Int, NEW v \in Validator, Exists(v),
         StopVoting(v), UNCHANGED lastActive
  PROVE  ActivityOK' /\ eligible' \in Int
<1>1. factor \in [Validator -> 0..BasisPointsScale]
      /\ lastActive' \in [Validator -> Blocks]
      /\ evicting \in [Validator -> BOOLEAN]
  BY Zenon DEF ActivityOK
<1>2. val[v].stake \in Int /\ factor[v] \in Nat
  BY <1>1, ScaledIsNat DEF LedgerOK, Exists, BoundedRec, ValidatorRec
<1>3. voteCountWithFactor(val[v].stake, factor[v]) \in Int
  BY <1>2, VoteCountIsInt
<1>4. eligible' \in Int
  BY <1>3 DEF StopVoting
<1>5. factor' \in [Validator -> 0..BasisPointsScale]
  <2>1. 0 \in 0..BasisPointsScale
    BY DEF BasisPointsScale
  <2>2. factor' = [factor EXCEPT ![v] = 0]
    BY DEF StopVoting
  <2> QED
    BY <1>1, <2>1, <2>2
<1>6. evicting' \in [Validator -> BOOLEAN]
  BY <1>1, Zenon DEF StopVoting
<1> QED
  BY <1>1, <1>4, <1>5, <1>6, Zenon DEF ActivityOK

(* forceEvictValidator: a page of at most budget delegators is taken.      *)
LEMMA ForceEvictPreserves ==
  ASSUME IInv, phase \in {"resume", "evict"}, loop.current = Nil,
         NEW v \in Validator, v \in loop.todo, forceEvictValidator(v)
  PROVE  IInv'
<1>0. LedgerOK /\ LoopType /\ LoopOK /\ ActivityOK /\ ControlOK /\ CountsOK
  BY DEF IInv
<1> DEFINE delegators == {d \in Delegator : Delegated(d, v)}
<1>1. LedgerOK'
  BY <1>0 DEF LedgerOK, ledger, forceEvictValidator
<1>2. Exists(v)
  BY <1>0, Zenon DEF LoopOK
<1>3. ActivityOK' /\ eligible' \in Int
  <2>1. CASE evicting[v]
    <3>1. UNCHANGED <<eligible, factor, evicting, lastActive>>
      BY <2>1 DEF forceEvictValidator
    <3>2. ActivityOK'
      BY <1>0, <3>1, Zenon DEF ActivityOK
    <3> QED
      BY <1>0, <3>1, <3>2 DEF CountsOK
  <2>2. CASE ~evicting[v]
    <3>1. StopVoting(v) /\ UNCHANGED lastActive
      BY <2>2, Zenon DEF forceEvictValidator
    <3>2. eligible \in Int
      BY <1>0 DEF CountsOK
    <3> QED
      BY <1>0, <1>2, <3>1, <3>2, StopVotingTypes
  <2> QED
    BY <2>1, <2>2
<1>4. CountsOK'
  BY <1>0, <1>3 DEF CountsOK, forceEvictValidator, ledger
<1>5. ControlOK'
  BY <1>0 DEF ControlOK, forceEvictValidator
<1>6. PICK page \in SUBSET delegators :
        /\ Cardinality(page) = IF Cardinality(delegators) <= loop.budget
                               THEN Cardinality(delegators) ELSE loop.budget
        /\ loop' = [loop EXCEPT !.todo = @ \ {v}, !.current = v, !.page = page,
                                !.end = (page = delegators),
                                !.budget = @ - Cardinality(page)]
  BY Zenon DEF forceEvictValidator
<1>7. delegators \subseteq Delegator
  BY Zenon
<1>8. \A d \in page : Delegated(d, v)
  BY Zenon
<1> HIDE DEF delegators
<1>9. loop.budget - Cardinality(page) \in Nat
  <2>1. IsFiniteSet(delegators) /\ IsFiniteSet(page)
    BY <1>7, InputAssumption, FS_Subset
  <2>2. Cardinality(delegators) \in Nat /\ Cardinality(page) \in Nat
    BY <2>1, FS_CardinalityType
  <2>3. loop.budget \in Nat
    BY <1>0, Zenon DEF LoopType
  <2> QED
    BY <1>6, <2>2, <2>3
<1>10. /\ LoopType'
       /\ loop'.todo = loop.todo \ {v} /\ loop'.toEvict = loop.toEvict
       /\ loop'.current = v /\ loop'.page = page
  <2>1. page \in SUBSET Delegator /\ (page = delegators) \in BOOLEAN
    BY <1>7, Zenon
  <2> QED
    BY <1>0, <1>6, <1>9, <2>1, Zenon DEF LoopType
<1>11. phase' = phase /\ val' = val /\ del' = del
  BY DEF forceEvictValidator, ledger
<1>12. LoopOK'
  <2>1. v # Nil /\ val'[v] # Nil
    BY <1>2, <1>11, NilAssumption DEF Exists
  <2>2. \A d \in page : del'[d][v] # Nil
    BY <1>8, <1>11 DEF Delegated
  <2>3. \A w \in loop'.todo \cup loop'.toEvict : val'[w] # Nil
    BY <1>0, <1>10, <1>11 DEF LoopOK, Exists
  <2>4. phase' # "scan" => loop'.toEvict = {}
    BY <1>0, <1>10, <1>11 DEF LoopOK
  <2> QED
    BY <1>10, <1>11, <2>1, <2>2, <2>3, <2>4 DEF LoopOK, Exists, Delegated
<1> QED
  BY <1>1, <1>3, <1>4, <1>5, <1>10, <1>12 DEF IInv

(* undelegateInternal: one delegation of an evicted validator.             *)
LEMMA UndelegateInternalPreserves ==
  ASSUME IInv, NEW d \in Delegator, undelegateInternal(d)
  PROVE  IInv'
<1>0. LedgerOK /\ LoopType /\ LoopOK /\ ActivityOK /\ ControlOK /\ CountsOK
  BY DEF IInv
<1> DEFINE v == loop.current
           amount == del[d][v].stake
           r == WithoutDelegation(v, amount)
<1>1. v # Nil /\ d \in loop.page
  BY DEF undelegateInternal
<1>2. v \in Validator /\ Exists(v) /\ Delegated(d, v) /\ phase \in {"resume", "evict"}
  <2>1. v \in Validator \cup {Nil}
    BY <1>0, Zenon DEF LoopType
  <2> QED
    BY <1>0, <1>1, <2>1 DEF LoopOK
<1>3. loop' = [loop EXCEPT !.page = @ \ {d}]
  BY Zenon DEF undelegateInternal
<1>4. /\ val' = [val EXCEPT ![v] = r]
      /\ delegated' = delegated - amount
      /\ del' = [del EXCEPT ![d][v] = Nil]
      /\ lastId' = [lastId EXCEPT ![d] = @ + 1]
      /\ und' = und \cup {[delegator |-> d, validator |-> v, id |-> lastId[d] + 1,
                           amount |-> amount, block |-> block]}
      /\ st' = st /\ UNCHANGED <<activity, block, calls, phase, lastEpoch, eligible, defects>>
  BY DEF undelegateInternal
<1>5. LoopType' /\ loop'.todo = loop.todo /\ loop'.toEvict = loop.toEvict
      /\ loop'.current = v /\ loop'.page = loop.page \ {d}
  <2>1. loop.page \ {d} \in SUBSET Delegator
    BY <1>0, Zenon DEF LoopType
  <2> QED
    BY <1>0, <1>3, <2>1, Zenon DEF LoopType
<1> HIDE DEF v
<1>6. amount \in Nat
  BY <1>0, <1>2 DEF LedgerOK, Delegated, DelegationRec
<1> HIDE DEF amount
<1>7. r \in BoundedRec
  <2>1. val[v] \in BoundedRec
    BY <1>0, <1>2 DEF LedgerOK, Exists
  <2>2. /\ val[v].stake - amount \in Int /\ val[v].stake - amount <= ValidatorMaximumStake
        /\ val[v].undelegations \in Nat
    BY <1>6, <2>1, ConfigAssumption DEF BoundedRec, ValidatorRec
  <2>3. Inc(val[v].undelegations) \in Nat
    BY <2>2, ConfigAssumption DEF Inc
  <2>4. r = [val[v] EXCEPT !.stake = val[v].stake - amount,
                           !.undelegations = Inc(val[v].undelegations)]
    BY DEF WithoutDelegation
  <2> QED
    BY <2>1, <2>2, <2>3, <2>4 DEF BoundedRec, ValidatorRec
<1> HIDE DEF r
<1>8. LedgerOK'
  <2>1. block \in Nat
    BY <1>0, InputAssumption DEF ControlOK, Blocks
  <2>2. lastId' \in [Delegator -> Nat] /\ und' \subseteq UndelegationRec
    BY <1>0, <1>2, <1>4, <1>6, <2>1, UndUpdate
  <2>3. val' \in [Validator -> BoundedRec \cup {Nil}]
    BY <1>0, <1>2, <1>4, <1>7, ValUpdate
  <2>4. del' \in [Delegator -> [Validator -> DelegationRec \cup {Nil}]]
    BY <1>0, <1>2, <1>4, DelUpdate
  <2> QED
    BY <1>0, <1>4, <2>2, <2>3, <2>4 DEF LedgerOK
<1>9. ActivityOK'
  BY <1>0, <1>4, ActivityFrame
<1>10. CountsOK' /\ ControlOK'
  BY <1>0, <1>4, <1>6 DEF CountsOK, ControlOK
<1>11. LoopOK'
  <2>1. \A w \in Validator : val[w] # Nil => val'[w] # Nil
    BY <1>0, <1>2, <1>4, <1>7, NilAssumption DEF LedgerOK, BoundedRec
  <2>2. \A e \in loop.page \ {d} : del'[e][v] # Nil
    <3>1. \A e \in loop.page : e \in Delegator /\ del[e][v] # Nil
      BY <1>0, <1>1, Zenon DEF LoopOK, Delegated, LoopType, v
    <3> QED
      BY <1>0, <1>2, <1>4, <3>1 DEF LedgerOK
  <2>3. loop.todo \cup loop.toEvict \subseteq Validator
    BY <1>0, Zenon DEF LoopType
  <2>4. \A w \in loop.todo \cup loop.toEvict : val'[w] # Nil
    BY <1>0, <1>2, <2>1, <2>3 DEF LoopOK, Exists
  <2>5. phase' # "scan" => loop'.toEvict = {}
    BY <1>0, <1>4, <1>5 DEF LoopOK
  <2>6. val'[v] # Nil
    BY <1>2, <2>1 DEF Exists
  <2> QED
    BY <1>1, <1>2, <1>4, <1>5, <2>2, <2>4, <2>5, <2>6 DEF LoopOK, Exists, Delegated
<1> QED
  BY <1>5, <1>8, <1>9, <1>10, <1>11 DEF IInv

(* The end of one eviction: its cursor is kept or cleared.                 *)
LEMMA EndEvictionPreserves ==
  ASSUME IInv, EndEviction
  PROVE  IInv'
<1>0. LedgerOK /\ LoopType /\ LoopOK /\ ActivityOK /\ ControlOK /\ CountsOK
  BY DEF IInv
<1>1. LedgerOK' /\ CountsOK' /\ ControlOK'
  BY <1>0 DEF LedgerOK, ledger, CountsOK, ControlOK, EndEviction
<1>2. ActivityOK'
  <2>1. UNCHANGED <<factor, lastActive>>
        /\ evicting' = [evicting EXCEPT ![loop.current] = ~loop.end]
    BY Zenon DEF EndEviction
  <2>2. (~loop.end) \in BOOLEAN
    BY Zenon
  <2> QED
    BY <1>0, <2>1, <2>2, Zenon DEF ActivityOK
<1>3. loop.page = {} /\ UNCHANGED <<val, del, phase>>
      /\ loop' = [loop EXCEPT !.current = Nil, !.end = FALSE]
  BY Zenon DEF EndEviction, ledger
<1>4. LoopType' /\ loop'.todo = loop.todo /\ loop'.toEvict = loop.toEvict
      /\ loop'.current = Nil /\ loop'.page = loop.page
  BY <1>0, <1>3, Zenon DEF LoopType
<1>5. LoopOK'
  BY <1>0, <1>3, <1>4 DEF LoopOK, Exists
<1> QED
  BY <1>1, <1>2, <1>4, <1>5 DEF IInv

(* From resuming evictions to the scan of the validators.                  *)
LEMMA EndResumePreserves ==
  ASSUME IInv, EndResume
  PROVE  IInv'
<1>0. LedgerOK /\ LoopType /\ LoopOK /\ ActivityOK /\ ControlOK /\ CountsOK
  BY DEF IInv
<1> DEFINE todo == {v \in Validator : Exists(v)}
<1>1. LedgerOK' /\ CountsOK' /\ ControlOK'
  BY <1>0 DEF LedgerOK, ledger, CountsOK, ControlOK, EndResume, Phases
<1>2. ActivityOK'
  BY <1>0, ActivityFrame DEF EndResume
<1>3. loop' = [loop EXCEPT !.todo = todo] /\ loop.current = Nil /\ phase = "resume"
      /\ phase' = "scan" /\ UNCHANGED val
  BY DEF EndResume, ledger
<1>4. todo \in SUBSET Validator /\ \A v \in todo : val'[v] # Nil
  BY <1>3 DEF Exists
<1> HIDE DEF todo
<1>5. LoopType' /\ loop'.todo = todo /\ loop'.toEvict = loop.toEvict
      /\ loop'.current = loop.current /\ loop'.page = loop.page
  BY <1>0, <1>3, <1>4, TodoType
<1>6. LoopOK'
  BY <1>0, <1>3, <1>4, <1>5 DEF LoopOK, Exists
<1> QED
  BY <1>1, <1>2, <1>5, <1>6 DEF IInv

(* The 5% decay stays within the scale.                                    *)
LEMMA DecayType ==
  ASSUME NEW f \in 0..BasisPointsScale
  PROVE  Decay(f) \in 0..BasisPointsScale
<1>1. f \in Nat /\ f <= 10000
  BY DEF BasisPointsScale
<1>2. (f * 95) \div 100 \in Nat /\ (f * 95) \div 100 <= 10000
  BY <1>1
<1> QED
  BY <1>2 DEF Decay, BasisPointsScale

(* The scan of one validator: exempt, active, or penalised.                *)
LEMMA ScanPreserves ==
  ASSUME IInv, NEW v \in Validator, Scan(v)
  PROVE  IInv'
<1>0. LedgerOK /\ LoopType /\ LoopOK /\ ActivityOK /\ ControlOK /\ CountsOK
  BY DEF IInv
<1>1. LedgerOK' /\ ControlOK'
  BY <1>0 DEF LedgerOK, ledger, ControlOK, Scan
<1>2. /\ phase = "scan" /\ phase' = phase /\ v \in loop.todo
      /\ UNCHANGED <<val, delegated, defects, evicting>>
  BY DEF Scan, ledger
<1>3. Exists(v)
  BY <1>0, <1>2 DEF LoopOK
<1>4. factor \in [Validator -> 0..BasisPointsScale]
      /\ lastActive \in [Validator -> Blocks]
      /\ evicting \in [Validator -> BOOLEAN]
  BY <1>0, Zenon DEF ActivityOK
<1> DEFINE spared == \/ val[v].stake = 0 \/ evicting[v]
                     \/ lastActive[v] = 0 \/ ActiveInEpoch(v)
<1>5. /\ ActivityOK' /\ eligible' \in Int
      /\ LoopType' /\ loop'.todo \subseteq loop.todo
      /\ loop'.toEvict \subseteq loop.toEvict \cup {v}
      /\ loop'.current = loop.current /\ loop'.page = loop.page
  <2>1. CASE spared
    <3>1. /\ loop' = [loop EXCEPT !.todo = loop.todo \ {v}]
          /\ lastActive' = lastActive \/ lastActive' = [lastActive EXCEPT ![v] = block]
          /\ UNCHANGED <<factor, eligible>>
      BY <2>1, Zenon DEF Scan
    <3>2. loop.todo \ {v} \in SUBSET Validator
      BY <1>0, Zenon DEF LoopType
    <3>3. /\ LoopType' /\ loop'.todo = loop.todo \ {v} /\ loop'.toEvict = loop.toEvict
          /\ loop'.current = loop.current /\ loop'.page = loop.page
      BY <1>0, <3>1, <3>2, TodoType
    <3>4. lastActive' \in [Validator -> Blocks]
      BY <1>0, <1>4, <3>1 DEF ControlOK
    <3>5. ActivityOK'
      BY <1>2, <1>4, <3>1, <3>4, Zenon DEF ActivityOK
    <3>6. eligible' \in Int
      BY <1>0, <3>1 DEF CountsOK
    <3> QED
      BY <3>3, <3>5, <3>6, Zenon
  <2>2. CASE ~spared
    <3> DEFINE low == (val[v].stake * Decay(factor[v])) \div BasisPointsScale
                        < EligibilityBalanceThreshold
               toEvict == IF low THEN loop.toEvict \cup {v} ELSE loop.toEvict
    <3>1. Penalise(v)
      BY <2>2, Zenon DEF Scan
    <3>2. /\ factor' = [factor EXCEPT ![v] = Decay(factor[v])] /\ lastActive' = lastActive
          /\ eligible' = eligible + voteCountWithFactor(val[v].stake, Decay(factor[v]))
                                  - voteCountWithFactor(val[v].stake, factor[v])
      BY <3>1 DEF Penalise
    <3>3. loop' = [loop EXCEPT !.todo = loop.todo \ {v}, !.toEvict = toEvict]
      BY <3>1, Zenon DEF Penalise
    <3>4. toEvict \subseteq loop.toEvict \cup {v}
      BY Zenon
    <3> HIDE DEF toEvict
    <3>5. loop.todo \ {v} \in SUBSET Validator /\ toEvict \in SUBSET Validator
      BY <1>0, <3>4, Zenon DEF LoopType
    <3>6. /\ LoopType' /\ loop'.todo = loop.todo \ {v} /\ loop'.toEvict = toEvict
          /\ loop'.current = loop.current /\ loop'.page = loop.page
      BY <1>0, <3>3, <3>5, Zenon DEF LoopType
    <3>7. factor[v] \in 0..BasisPointsScale /\ Decay(factor[v]) \in 0..BasisPointsScale
      BY <1>4, DecayType
    <3>8. factor' \in [Validator -> 0..BasisPointsScale]
      BY <1>4, <3>2, <3>7
    <3>9. val[v].stake \in Int
      BY <1>0, <1>3 DEF LedgerOK, Exists, BoundedRec, ValidatorRec
    <3>10. /\ voteCountWithFactor(val[v].stake, Decay(factor[v])) \in Int
           /\ voteCountWithFactor(val[v].stake, factor[v]) \in Int
      BY <3>7, <3>9, ScaledIsNat, VoteCountIsInt
    <3>11. eligible' \in Int
      BY <1>0, <3>2, <3>10 DEF CountsOK
    <3>12. ActivityOK'
      BY <1>2, <1>4, <3>2, <3>8, Zenon DEF ActivityOK
    <3> QED
      BY <3>4, <3>6, <3>11, <3>12, Zenon
  <2> QED
    BY <2>1, <2>2
<1>6. CountsOK'
  BY <1>0, <1>2, <1>5 DEF CountsOK
<1>7. LoopOK'
  <2>1. loop.current = Nil /\ loop.page = {}
    BY <1>0, <1>2 DEF LoopOK
  <2>2. \A w \in loop'.todo \cup loop'.toEvict : val'[w] # Nil
    BY <1>0, <1>2, <1>3, <1>5 DEF LoopOK, Exists
  <2> QED
    BY <1>2, <1>5, <2>1, <2>2 DEF LoopOK, Exists
<1> QED
  BY <1>1, <1>5, <1>6, <1>7 DEF IInv

(* From the scan to the evictions.                                         *)
LEMMA EndScanPreserves ==
  ASSUME IInv, EndScan
  PROVE  IInv'
<1>0. LedgerOK /\ LoopType /\ LoopOK /\ ActivityOK /\ ControlOK /\ CountsOK
  BY DEF IInv
<1>1. LedgerOK' /\ CountsOK' /\ ControlOK'
  BY <1>0 DEF LedgerOK, ledger, CountsOK, ControlOK, EndScan, Phases
<1>2. ActivityOK'
  BY <1>0, ActivityFrame DEF EndScan
<1>3. loop' = [loop EXCEPT !.todo = loop.toEvict, !.toEvict = {}] /\ phase = "scan"
      /\ phase' = "evict" /\ UNCHANGED val
  BY DEF EndScan, ledger
<1>4. LoopType' /\ loop'.todo = loop.toEvict /\ loop'.toEvict = {}
      /\ loop'.current = loop.current /\ loop'.page = loop.page
  BY <1>0, <1>3, Zenon DEF LoopType
<1>5. LoopOK'
  BY <1>0, <1>3, <1>4 DEF LoopOK, Exists
<1> QED
  BY <1>1, <1>2, <1>4, <1>5 DEF IInv

(* The penalties of a block are done.                                      *)
LEMMA EndPenaltiesPreserves ==
  ASSUME IInv, EndPenalties
  PROVE  IInv'
<1>0. LedgerOK /\ LoopType /\ LoopOK /\ ActivityOK /\ ControlOK /\ CountsOK
  BY DEF IInv
<1>1. LedgerOK' /\ CountsOK' /\ ControlOK'
  BY <1>0 DEF LedgerOK, ledger, CountsOK, ControlOK, EndPenalties, Phases
<1>2. ActivityOK'
  BY <1>0, ActivityFrame DEF EndPenalties
<1>3. loop' = NoLoop /\ phase' = "rewards"
  BY DEF EndPenalties
<1>4. LoopType' /\ LoopOK'
  BY <1>3 DEF LoopType, LoopOK, NoLoop
<1> QED
  BY <1>1, <1>2, <1>4 DEF IInv

(* The eviction of one validator begins, or only stops its votes when the  *)
(* budget of the block is used up.                                         *)
LEMMA StartEvictionPreserves ==
  ASSUME IInv, NEW v \in Validator, StartEviction(v)
  PROVE  IInv'
<1>0. LedgerOK /\ LoopType /\ LoopOK /\ ActivityOK /\ ControlOK /\ CountsOK
  BY DEF IInv
<1>1. phase = "evict" /\ loop.current = Nil /\ v \in loop.todo
  BY DEF StartEviction
<1>2. CASE forceEvictValidator(v)
  BY <1>1, <1>2, ForceEvictPreserves
<1>3. CASE /\ loop.budget = 0
           /\ StopVoting(v)
           /\ loop' = [loop EXCEPT !.todo = @ \ {v}]
           /\ UNCHANGED <<ledger, lastActive, block, calls, phase, lastEpoch, defects>>
  <2>1. loop' = [loop EXCEPT !.todo = loop.todo \ {v}] /\ UNCHANGED <<phase, val>>
    BY <1>3 DEF ledger
  <2>2. loop.todo \ {v} \in SUBSET Validator
    BY <1>0, Zenon DEF LoopType
  <2>3. LoopType' /\ loop'.todo = loop.todo \ {v} /\ loop'.toEvict = loop.toEvict
        /\ loop'.current = loop.current /\ loop'.page = loop.page
    BY <1>0, <2>1, <2>2, TodoType
  <2>4. LoopOK'
    BY <1>0, <1>1, <2>1, <2>3 DEF LoopOK, Exists
  <2>5. Exists(v) /\ eligible \in Int
    BY <1>0, <1>1 DEF LoopOK, CountsOK
  <2>6. ActivityOK' /\ eligible' \in Int
    BY <1>0, <1>3, <2>5, StopVotingTypes
  <2>7. LedgerOK' /\ CountsOK' /\ ControlOK'
    BY <1>0, <1>3, <2>6 DEF LedgerOK, ledger, CountsOK, ControlOK
  <2> QED
    BY <2>3, <2>4, <2>6, <2>7 DEF IInv
<1> QED
  BY <1>2, <1>3, Zenon DEF StartEviction

-----------------------------------------------------------------------------
(* The invariant holds at genesis.                                         *)
LEMMA InitIInv == Init => IInv
<1> SUFFICES ASSUME Init PROVE IInv
  OBVIOUS
<1>1. 0 \in Blocks
  BY InputAssumption DEF Blocks
<1>2. LedgerOK
  <2>1. NoState \in StateRec
    BY DEF NoState, StateRec
  <2>2. st \in [Validator -> States]
    BY <2>1 DEF Init, States
  <2> QED
    BY <2>2 DEF Init, LedgerOK
<1>3. ActivityOK
  <2>1. BasisPointsScale \in 0..BasisPointsScale
    BY DEF BasisPointsScale
  <2> QED
    BY <1>1, <2>1, Zenon DEF Init, ActivityOK
<1>4. CountsOK /\ ControlOK
  BY <1>1 DEF Init, CountsOK, ControlOK, Phases
<1>5. LoopType /\ LoopOK
  BY DEF Init, LoopType, LoopOK, NoLoop
<1> QED
  BY <1>2, <1>3, <1>4, <1>5 DEF IInv

(* A call of the contract preserves the invariant.                         *)
LEMMA TransactionPreserves ==
  ASSUME IInv, Transaction
  PROVE  IInv'
<1>0. Amounts \subseteq Nat /\ Commissions \subseteq Nat
  BY InputAssumption
<1>1. ASSUME Call("txs"), UNCHANGED control, ContractOK'
      PROVE  IInv'
  BY <1>1, CallFrame
<1>2. ASSUME NEW v \in Validator, NEW d \in Delegator, NEW a \in Amounts,
             NEW c \in Commissions, registerValidator(v, d, a, c)
      PROVE  IInv'
  BY <1>0, <1>1, <1>2, RegisterPreserves
     DEF registerValidator, registerValidatorWithoutChecks
<1>3. ASSUME NEW d \in Delegator, NEW v \in Validator, NEW a \in Amounts, Delegate(d, v, a)
      PROVE  IInv'
  BY <1>0, <1>1, <1>3, DelegatePreserves DEF Delegate, delegate
<1>4. ASSUME NEW d \in Delegator, NEW v \in Validator, NEW a \in Amounts, undelegate(d, v, a)
      PROVE  IInv'
  BY <1>0, <1>1, <1>4, UndelegatePreserves DEF undelegate
<1>5. ASSUME NEW d \in Delegator, NEW v \in Validator, NEW a \in Amounts,
             NEW t \in Validator, redelegate(d, v, t, a)
      PROVE  IInv'
  BY <1>0, <1>1, <1>5, RedelegatePreserves DEF redelegate
<1>6. ASSUME NEW d \in Delegator, NEW v \in Validator, claimRewards(d, v)
      PROVE  IInv'
  <2>1. {v} \in SUBSET Validator
    OBVIOUS
  <2>2. Call("txs") /\ ClaimFrom(d, {v})
    BY <1>6 DEF claimRewards
  <2> QED
    BY <1>1, <2>1, <2>2, ClaimPreserves DEF ClaimFrom
<1>7. ASSUME NEW d \in Delegator, NEW v \in Validator, claimCommissionRewards(d, v)
      PROVE  IInv'
  BY <1>1, <1>7, CommissionClaimPreserves DEF claimCommissionRewards
<1>8. ASSUME NEW d \in Delegator, NEW v \in Validator, NEW c \in Commissions,
             setCommission(d, v, c)
      PROVE  IInv'
  BY <1>0, <1>1, <1>8, SetCommissionPreserves DEF setCommission
<1>9. ASSUME NEW u \in und, confirmUndelegate(u)
      PROVE  IInv'
  BY <1>1, <1>9, ConfirmPreserves DEF confirmUndelegate
<1>10. ASSUME NEW u \in und, cancelUndelegate(u)
       PROVE  IInv'
  BY <1>1, <1>10, CancelPreserves DEF cancelUndelegate
<1>11. ASSUME NEW d \in Delegator, claimAllRewards(d)
       PROVE  IInv'
  <2>1. PICK from \in SUBSET Validator : Call("txs") /\ ClaimFrom(d, from)
    BY <1>11, ClaimsSome
  <2> QED
    BY <1>1, <2>1, ClaimPreserves DEF ClaimFrom
<1> QED
  BY <1>2, <1>3, <1>4, <1>5, <1>6, <1>7, <1>8, <1>9, <1>10, <1>11, Zenon
     DEF Transaction

(* Genesis, the distribution of rewards and the penalties preserve it.     *)
LEMMA OtherStepsPreserve ==
  ASSUME IInv, Genesis \/ Distribution \/ Penalties \/ EndBlock
  PROVE  IInv'
<1>0. Amounts \subseteq Nat /\ Commissions \subseteq Nat /\ Rewards \subseteq Nat
  BY InputAssumption
<1>1. ASSUME NEW v \in Validator, NEW d \in Delegator, NEW c \in Commissions,
             GenesisValidator(v, d, c)
      PROVE  IInv'
  <2>1. c \in Nat /\ 0 \in Nat
    BY <1>0
  <2>2. Call("genesis") /\ registerValidatorWithoutChecks(v, d, 0, c)
    BY <1>1 DEF GenesisValidator
  <2>3. ContractOK'
    BY <2>1, <2>2, RegisterPreserves
  <2>4. UNCHANGED control
    BY <2>2 DEF registerValidatorWithoutChecks
  <2> QED
    BY <2>2, <2>3, <2>4, CallFrame
<1>2. ASSUME NEW v \in Validator, NEW d \in Delegator, NEW a \in Amounts,
             GenesisDelegation(d, v, a)
      PROVE  IInv'
  BY <1>0, <1>2, DelegatePreserves, CallFrame DEF GenesisDelegation, delegate
<1>3. EndGenesis => IInv'
  BY NextBlockPreserves DEF EndGenesis
<1>4. EndBlock => IInv'
  BY NextBlockPreserves DEF EndBlock
<1>5. ASSUME NEW listed \in SUBSET Validator, NEW author \in Validator,
             NEW r \in Rewards, DistributeRewards(listed, author, r)
      PROVE  IInv'
  BY <1>0, <1>5, DistributePreserves
<1>6. ASSUME NEW v \in Validator, NEW active \in BOOLEAN, NEW r \in Rewards,
             NEW f \in Rewards, RewardValidator(v, active, r, f)
      PROVE  IInv'
  <2>1. r \in Nat /\ f \in Nat
    BY <1>0
  <2> QED
    BY <1>6, <2>1, RewardPreserves, Zenon
<1>7. ASSUME NEW v \in Validator, ResumeEviction(v)
      PROVE  IInv'
  BY <1>7, ForceEvictPreserves DEF ResumeEviction
<1>8. CASE Genesis
  BY <1>1, <1>2, <1>3, <1>8, Zenon DEF Genesis
<1>9. CASE Distribution
  BY <1>5, <1>6, <1>9, EndDistributionPreserves, Zenon DEF Distribution
<1>10. CASE Penalties
  BY <1>7, <1>10, EndResumePreserves, ScanPreserves, EndScanPreserves,
     StartEvictionPreserves, UndelegateInternalPreserves, EndEvictionPreserves,
     EndPenaltiesPreserves, Zenon DEF Penalties
<1> QED
  BY <1>4, <1>8, <1>9, <1>10

(* The invariant contains the type invariant and the maximum stake.        *)
LEMMA IInvImplies == IInv => TypeOK /\ MaxStakeRespected
<1> SUFFICES ASSUME IInv PROVE TypeOK /\ MaxStakeRespected
  OBVIOUS
<1>0. LedgerOK /\ LoopType /\ LoopOK /\ ActivityOK /\ ControlOK /\ CountsOK
  BY DEF IInv
<1>1. val \in [Validator -> ValidatorRec \cup {Nil}]
  BY <1>0 DEF LedgerOK, BoundedRec
<1>2. TypeOK
  BY <1>0, <1>1, Zenon
     DEF TypeOK, LedgerOK, LoopType, ActivityOK, ControlOK, CountsOK, States
<1>3. MaxStakeRespected
  BY <1>0, ConfigAssumption
     DEF LedgerOK, BoundedRec, MaxStakeRespected, ValidatorStake, Exists
<1> QED
  BY <1>2, <1>3

(* Every step preserves the invariant.                                     *)
LEMMA StepPreserves == IInv /\ [Next]_vars => IInv'
<1> SUFFICES ASSUME IInv, [Next]_vars PROVE IInv'
  OBVIOUS
<1>1. CASE Next
  BY <1>1, TransactionPreserves, OtherStepsPreserve, Zenon DEF Next
<1>2. CASE UNCHANGED vars
  <2>1. LedgerOK' /\ CountsOK' /\ ControlOK' /\ LoopType'
    BY <1>2 DEF IInv, LedgerOK, CountsOK, ControlOK, LoopType, vars, ledger, control
  <2>2. ActivityOK'
    BY <1>2, ActivityFrame DEF IInv, vars
  <2>3. LoopOK'
    BY <1>2 DEF IInv, LoopOK, Exists, Delegated, vars, ledger, control
  <2> QED
    BY <2>1, <2>2, <2>3 DEF IInv
<1> QED
  BY <1>1, <1>2

(***************************************************************************)
(* Whatever sequence of calls, reward distributions, penalties and         *)
(* evictions the contract goes through, in whatever configuration,         *)
(* everything it stores keeps its type: no reference count, delegation or  *)
(* rewards pool goes negative, the voting power factor stays within its    *)
(* scale, and no step reads an absent validator, delegation or state.      *)
(***************************************************************************)
THEOREM TypeCorrect == Spec => []TypeOK
<1>1. IInv => TypeOK
  BY IInvImplies
<1> QED
  BY InitIInv, StepPreserves, <1>1, PTL DEF Spec

(***************************************************************************)
(* delegate, redelegate, cancelUndelegate and registerValidator check the  *)
(* maximum stake each in its own place; no sequence of them, nor the       *)
(* settlement of rewards or an eviction in between, takes a validator over *)
(* ValidatorMaximumStake.                                                  *)
(***************************************************************************)
THEOREM StakeBounded == Spec => []MaxStakeRespected
<1>1. IInv => MaxStakeRespected
  BY IInvImplies
<1> QED
  BY InitIInv, StepPreserves, <1>1, PTL DEF Spec

-----------------------------------------------------------------------------
(* The voting power factor after n penalties.                              *)

(* The recursive definition has a solution.                                *)
LEMMA DecayEquation ==
  \A n \in Nat : DecayedFactor[n] = IF n = 0 THEN BasisPointsScale ELSE Decay(DecayedFactor[n - 1])
<1> DEFINE Item(g, i) == IF i = 0 THEN BasisPointsScale ELSE Decay(g[i - 1])
           Eq(g, n) == \A i \in 0..n : g[i] = Item(g, i)
           Bad == {n \in Nat : ~ \E g : Eq(g, n)}
<1> HIDE DEF Bad
<1>1. Bad = {}
  <2> SUFFICES ASSUME Bad # {} PROVE FALSE
    OBVIOUS
  <2>1. PICK n \in Bad : \A m \in Bad : n <= m
    BY LeastNatural DEF Bad
  <2>2. n \in Nat /\ ~ \E g : Eq(g, n)
    BY <2>1 DEF Bad
  <2>3. CASE n = 0
    <3> DEFINE g == [i \in 0..0 |-> BasisPointsScale]
    <3>1. Eq(g, 0)
      OBVIOUS
    <3> QED BY <3>1, <2>2, <2>3
  <2>4. CASE n # 0
    <3>1. n - 1 \in Nat /\ n - 1 \notin Bad
      BY <2>1, <2>2, <2>4
    <3>2. PICK g : Eq(g, n - 1)
      BY <3>1 DEF Bad
    <3> DEFINE h == [i \in 0..n |-> IF i = n THEN Item(g, n) ELSE g[i]]
    <3>3. ASSUME NEW i \in 0..n PROVE h[i] = Item(h, i)
      <4>1. CASE i = 0
        BY <4>1, <3>2, <2>4, <3>1
      <4>2. CASE i # 0
        <5>1. h[i - 1] = g[i - 1]
          BY <4>2, <2>2
        <5>2. CASE i = n
          BY <5>1, <5>2, <4>2
        <5>3. CASE i # n
          BY <5>1, <5>3, <4>2, <3>2, <2>2
        <5> QED BY <5>2, <5>3
      <4> QED BY <4>1, <4>2
    <3>4. Eq(h, n)
      BY <3>3
    <3> QED BY <3>4, <2>2
  <2> QED BY <2>3, <2>4
<1>2. \A n \in Nat : \E g : Eq(g, n)
  BY <1>1 DEF Bad
<1>3. ASSUME NEW n \in Nat, NEW g, NEW h, Eq(g, n), Eq(h, n), NEW i \in 0..n PROVE g[i] = h[i]
  <2> DEFINE T == {j \in Nat : j <= n /\ g[j] # h[j]}
  <2> HIDE DEF T
  <2> SUFFICES ASSUME T # {} PROVE FALSE
    BY DEF T
  <2>1. PICK j \in T : \A k \in T : j <= k
    BY LeastNatural DEF T
  <2>2. j \in 0..n /\ g[j] # h[j]
    BY <2>1 DEF T
  <2>3. CASE j = 0
    BY <2>2, <2>3, <1>3
  <2>4. CASE j # 0
    <3>1. j - 1 \in Nat /\ j - 1 <= n /\ j - 1 \notin T
      BY <2>1, <2>2, <2>4
    <3>2. g[j - 1] = h[j - 1]
      BY <3>1 DEF T
    <3> QED
      BY <3>2, <2>2, <2>4, <1>3
  <2> QED BY <2>3, <2>4
<1> DEFINE H(n) == CHOOSE g : Eq(g, n)
           f == [n \in Nat |-> H(n)[n]]
<1> HIDE DEF Eq
<1>4. \A n \in Nat : Eq(H(n), n)
  BY <1>2
<1> HIDE DEF H
<1>5. ASSUME NEW n \in Nat PROVE f[n] = Item(f, n)
  <2>1. H(n)[n] = Item(H(n), n)
    BY <1>4 DEF Eq
  <2>2. CASE n = 0
    BY <2>1, <2>2
  <2>3. CASE n # 0
    <3>1. n - 1 \in Nat /\ n - 1 \in 0..(n - 1)
      BY <2>3
    <3>2. Eq(H(n), n - 1)
      BY <1>4, <3>1 DEF Eq
    <3>3. H(n)[n - 1] = H(n - 1)[n - 1]
      BY <1>3, <1>4, <3>1, <3>2
    <3> QED
      BY <2>1, <2>3, <3>1, <3>3
  <2> QED BY <2>2, <2>3
<1>6. f = [n \in Nat |-> Item(f, n)]
  BY <1>5
<1>7. DecayedFactor = CHOOSE k : k = [n \in Nat |-> Item(k, n)]
  BY DEF DecayedFactor
<1>8. DecayedFactor = [n \in Nat |-> Item(DecayedFactor, n)]
  <2> HIDE DEF f
  <2> QED BY <1>6, <1>7, Zenon
<1> QED
  BY <1>8

(* A penalty takes power, and less from less.                              *)
LEMMA DecayFacts ==
  ASSUME NEW f \in 0..BasisPointsScale, NEW g \in 0..BasisPointsScale, f <= g
  PROVE  Decay(f) \in 0..BasisPointsScale /\ Decay(f) <= f /\ Decay(f) <= Decay(g)
<1>1. Decay(f) \in 0..BasisPointsScale /\ Decay(f) <= f
  BY DEF Decay, BasisPointsScale
<1>2. f * 95 \in Nat /\ g * 95 \in Nat /\ f * 95 <= g * 95
  BY DEF BasisPointsScale
<1>3. \A a, b \in Nat : a <= b => a \div 100 <= b \div 100
  OBVIOUS
<1>4. Decay(f) <= Decay(g)
  BY <1>2, <1>3 DEF Decay
<1> QED
  BY <1>1, <1>4

(* A penalty leaves a factor.                                              *)
LEMMA DecayShrinks ==
  ASSUME NEW f \in 0..BasisPointsScale
  PROVE  Decay(f) \in 0..BasisPointsScale /\ Decay(f) <= f
BY DEF Decay, BasisPointsScale

(* The factor falls with the number of penalties.                          *)
LEMMA DecayedFactorFalls ==
  /\ DecayedFactor[0] = BasisPointsScale
  /\ \A n \in Nat : DecayedFactor[n] \in 0..BasisPointsScale
  /\ \A m, n \in Nat : m <= n => DecayedFactor[n] <= DecayedFactor[m]
<1>0. DecayedFactor[0] = BasisPointsScale
  BY DecayEquation
<1>1. ASSUME NEW n \in Nat PROVE DecayedFactor[n] \in 0..BasisPointsScale
  <2> DEFINE T == {j \in Nat : DecayedFactor[j] \notin 0..BasisPointsScale}
  <2> HIDE DEF T
  <2> SUFFICES ASSUME T # {} PROVE FALSE
    BY DEF T
  <2>1. PICK j \in T : \A k \in T : j <= k
    BY LeastNatural DEF T
  <2>2. j \in Nat /\ DecayedFactor[j] \notin 0..BasisPointsScale
    BY <2>1 DEF T
  <2>3. CASE j = 0
    BY <2>2, <2>3, <1>0 DEF BasisPointsScale
  <2>4. CASE j # 0
    <3>1. j - 1 \in Nat /\ j - 1 \notin T
      BY <2>1, <2>2, <2>4
    <3>2. DecayedFactor[j - 1] \in 0..BasisPointsScale
      BY <3>1 DEF T
    <3>3. DecayedFactor[j] = Decay(DecayedFactor[j - 1])
      BY <2>2, <2>4, DecayEquation
    <3>4. Decay(DecayedFactor[j - 1]) \in 0..BasisPointsScale
      BY <3>2, DecayShrinks
    <3> QED
      BY <2>2, <3>3, <3>4
  <2> QED BY <2>3, <2>4
<1>2. ASSUME NEW m \in Nat, NEW n \in Nat, m <= n PROVE DecayedFactor[n] <= DecayedFactor[m]
  <2> DEFINE T == {j \in Nat : ~(DecayedFactor[m + j] <= DecayedFactor[m])}
  <2>0. n - m \in Nat /\ m + (n - m) = n
    BY <1>2
  <2> HIDE DEF T
  <2> SUFFICES ASSUME T # {} PROVE FALSE
    BY <2>0 DEF T
  <2>1. PICK j \in T : \A k \in T : j <= k
    BY LeastNatural DEF T
  <2>2. j \in Nat /\ ~(DecayedFactor[m + j] <= DecayedFactor[m])
    BY <2>1 DEF T
  <2>a. DecayedFactor[m] \in Nat
    BY <1>1, ScaledIsNat
  <2>3. CASE j = 0
    <3>1. m + j = m
      BY <2>3
    <3> QED
      BY <2>2, <2>a, <3>1
  <2>4. CASE j # 0
    <3>1. j - 1 \in Nat /\ j - 1 \notin T /\ m + (j - 1) \in Nat /\ (m + j) - 1 = m + (j - 1)
          /\ m + j \in Nat /\ m + j # 0
      BY <2>1, <2>2, <2>4
    <3>2. DecayedFactor[m + (j - 1)] <= DecayedFactor[m]
      BY <3>1 DEF T
    <3>3. DecayedFactor[m + j] = Decay(DecayedFactor[m + (j - 1)])
      BY <3>1, DecayEquation
    <3>4. DecayedFactor[m + (j - 1)] \in 0..BasisPointsScale
      BY <3>1, <1>1
    <3>5. Decay(DecayedFactor[m + (j - 1)]) <= DecayedFactor[m + (j - 1)]
          /\ Decay(DecayedFactor[m + (j - 1)]) \in 0..BasisPointsScale
      BY <3>4, DecayShrinks
    <3>6. DecayedFactor[m + (j - 1)] \in Nat /\ Decay(DecayedFactor[m + (j - 1)]) \in Nat
      BY <3>4, <3>5, ScaledIsNat
    <3> QED
      BY <2>2, <2>a, <3>2, <3>3, <3>5, <3>6
  <2> QED BY <2>3, <2>4
<1> QED
  BY <1>0, <1>1, <1>2
-----------------------------------------------------------------------------
(* Epoch boundaries.                                                       *)

(* Multiplication keeps the order of natural numbers.                      *)
LEMMA TimesOrdered ==
  ASSUME NEW a \in Nat, NEW b \in Nat, NEW c \in Nat, a <= b
  PROVE  a * c \in Nat /\ b * c \in Nat /\ a * c <= b * c
OBVIOUS

(* A boundary is a number of whole epochs.                                 *)
LEMMA WholeEpochs ==
  ASSUME NEW a \in Nat, NEW e \in Nat \ {0}, a % e = 0
  PROVE  \E k \in Nat : a = k * e
OBVIOUS

(* Two boundaries are at least an epoch apart.                             *)
LEMMA BoundariesApart ==
  ASSUME NEW a \in Nat, NEW b \in Nat, a < b,
         a % InactivityEpochBlocks = 0, b % InactivityEpochBlocks = 0
  PROVE  a + InactivityEpochBlocks <= b
<1> DEFINE e == InactivityEpochBlocks
<1>0. e \in Nat \ {0}
  BY ConfigAssumption
<1>1. a % e = 0 /\ b % e = 0
  OBVIOUS
<1> HIDE DEF e
<1>2. PICK p \in Nat : a = p * e
  BY <1>0, <1>1, WholeEpochs
<1>3. PICK q \in Nat : b = q * e
  BY <1>0, <1>1, WholeEpochs
<1>4. ~(q <= p)
  BY <1>0, <1>2, <1>3, TimesOrdered
<1>5. (p + 1) * e <= q * e /\ (p + 1) * e = p * e + e
  BY <1>0, <1>4, TimesOrdered
<1> QED
  BY <1>2, <1>3, <1>5 DEF e

(* Boundaries up to e whose epoch began after a.                           *)
Missed(e, a) ==
  LET since == e - InactivityEpochBlocks - a
  IN  IF since <= 0 THEN 0 ELSE (since + InactivityEpochBlocks - 1) \div InactivityEpochBlocks

(* The count of missed epochs of a validator, now and after a step.        *)
LEMMA EpochsMissedIs ==
  \A v : /\ EpochsMissed(v) = Missed(lastEpoch, lastActive[v])
         /\ EpochsMissed(v)' = Missed(lastEpoch', lastActive'[v])
BY DEF EpochsMissed, Missed

(* An epoch that ends now is missed by those not active in it.             *)
LEMMA MissedFacts ==
  ASSUME NEW e \in Nat, NEW a \in Nat
  PROVE  Missed(e, a) \in Nat /\ (Missed(e, a) > 0 <=> a < e - InactivityEpochBlocks)
<1> DEFINE since == e - InactivityEpochBlocks - a
           x == since + InactivityEpochBlocks - 1
<1>0. InactivityEpochBlocks \in Nat /\ InactivityEpochBlocks > 0
  BY ConfigAssumption
<1>1. CASE since <= 0
  BY <1>0, <1>1 DEF Missed
<1>2. CASE ~(since <= 0)
  <2>1. x \in Nat /\ x >= InactivityEpochBlocks /\ a < e - InactivityEpochBlocks
    BY <1>0, <1>2
  <2>2. Missed(e, a) = x \div InactivityEpochBlocks
    BY <1>2 DEF Missed
  <2> HIDE DEF x
  <2>3. x \div InactivityEpochBlocks \in Nat /\ x \div InactivityEpochBlocks >= 1
    <3> DEFINE q == x \div InactivityEpochBlocks
    <3>1. q \in Nat /\ x < (q + 1) * InactivityEpochBlocks
      BY <1>0, <2>1
    <3> HIDE DEF q
    <3>2. q # 0
      BY <1>0, <2>1, <3>1
    <3> QED
      BY <3>1, <3>2 DEF q
  <2> QED
    BY <2>1, <2>2, <2>3
<1> QED
  BY <1>1, <1>2

(* A later boundary adds at least one, if there is anything to count.      *)
LEMMA MissedGrows ==
  ASSUME NEW e \in Nat, NEW f \in Nat, NEW a \in Nat, e + InactivityEpochBlocks <= f
  PROVE  /\ Missed(e, a) <= Missed(f, a)
         /\ Missed(f, a) > 0 => Missed(e, a) <= Missed(f, a) - 1
<1> DEFINE x == e - InactivityEpochBlocks - a
           y == f - InactivityEpochBlocks - a
           c == InactivityEpochBlocks
<1>a. Missed(e, a) \in Nat /\ Missed(f, a) \in Nat
  BY MissedFacts
<1>0. c \in Nat /\ c > 0 /\ Missed(e, a) \in Nat /\ Missed(f, a) \in Nat
  BY <1>a, ConfigAssumption
<1>1. CASE x <= 0
  <2>1. Missed(e, a) = 0
    BY <1>1 DEF Missed
  <2> QED
    BY <2>1, <1>0
<1>2. CASE ~(x <= 0)
  <2> DEFINE p == (x + c - 1) \div c
             q == (y + c - 1) \div c
  <2>1. Missed(e, a) = p /\ Missed(f, a) = q
    BY <1>0, <1>2 DEF Missed
  <2>2. x + c - 1 \in Nat /\ y + c - 1 \in Nat /\ x + c <= y
    BY <1>0, <1>2
  <2> HIDE DEF x, y, c
  <2>3. p \in Nat /\ p * c <= x + c - 1
    <3> DEFINE z == x + c - 1
    <3> HIDE DEF z
    <3>1. z \div c \in Nat /\ (z \div c) * c <= z
      BY <1>0, <2>2 DEF z
    <3> QED
      BY <3>1 DEF z
  <2>4. q \in Nat /\ y + c - 1 < (q + 1) * c
    <3> DEFINE z == y + c - 1
    <3> HIDE DEF z
    <3>1. z \div c \in Nat /\ z < (z \div c + 1) * c
      BY <1>0, <2>2 DEF z
    <3> QED
      BY <3>1 DEF z
  <2> HIDE DEF p, q
  <2>5. (p + 1) * c = p * c + c /\ x \in Int /\ y \in Int /\ p * c \in Nat /\ (q + 1) * c \in Nat
    BY <1>0, <2>3, <2>4 DEF x, y, c
  <2>6. (p + 1) * c < (q + 1) * c
    BY <1>0, <2>2, <2>3, <2>4, <2>5
  <2>7. ~(q + 1 <= p + 1)
    BY <1>0, <2>3, <2>4, <2>6, TimesOrdered
  <2> QED
    BY <2>1, <2>3, <2>4, <2>7
<1> QED
  BY <1>1, <1>2
-----------------------------------------------------------------------------
(* Penalties and epochs.                                                   *)

(* The scan of this boundary has not come to v yet.                        *)
Unscanned(v) == phase = "resume" \/ (phase = "scan" /\ v \in loop.todo)

(* The penalties v may have had so far.                                    *)
Penalties_(v) ==
  IF Unscanned(v) /\ EpochsMissed(v) > 0 THEN EpochsMissed(v) - 1 ELSE EpochsMissed(v)

(* v was inactive in an epoch, and not for want of a record.               *)
Convicted(v) == EpochsMissed(v) > 0 /\ lastActive[v] # 0

(***************************************************************************)
(* The inductive invariant: a validator without a record of activity has   *)
(* its full power, so that a scan may begin one; the last boundary is this *)
(* block while penalties are applied; one that was not scanned yet misses  *)
(* one penalty; and those to be evicted were inactive.                     *)
(***************************************************************************)
PowerInStep(v) ==
  /\ lastActive[v] = 0 => factor[v] = BasisPointsScale
  /\ factor[v] = 0 => EpochsMissed(v) > 0
  /\ factor[v] # 0 => factor[v] >= DecayedFactor[Penalties_(v)]

EpochInStep ==
  /\ lastEpoch % InactivityEpochBlocks = 0 /\ lastEpoch <= block
  /\ phase \in {"resume", "scan", "evict"} => lastEpoch = block
  /\ phase # "genesis" => block > 0

LoopInStep ==
  /\ phase = "resume" => \A v \in loop.todo : evicting[v] /\ v # loop.current
  /\ \A v \in loop.toEvict : Convicted(v)
  /\ phase = "evict" => \A v \in loop.todo : Convicted(v)

InStep == (\A v \in Validator : PowerInStep(v)) /\ EpochInStep /\ LoopInStep

(* The types of what the invariant compares.                               *)
LEMMA MissedTypes ==
  ASSUME IInv, NEW v \in Validator
  PROVE  /\ lastEpoch \in Nat /\ lastActive[v] \in Nat /\ factor[v] \in 0..BasisPointsScale
         /\ block \in Nat /\ EpochsMissed(v) \in Nat /\ Penalties_(v) \in Nat
         /\ EpochsMissed(v) > 0 <=> lastActive[v] < lastEpoch - InactivityEpochBlocks
<1>1. lastEpoch \in Nat /\ block \in Nat
  BY InputAssumption DEF IInv, ControlOK, Blocks
<1>2. ActivityOK
  BY DEF IInv
<1>3. lastActive \in [Validator -> Blocks] /\ factor \in [Validator -> 0..BasisPointsScale]
  BY <1>2, Zenon DEF ActivityOK
<1>4. lastActive[v] \in Nat /\ factor[v] \in 0..BasisPointsScale
  BY <1>3, InputAssumption DEF Blocks
<1>5. EpochsMissed(v) = Missed(lastEpoch, lastActive[v])
  BY EpochsMissedIs
<1>6. EpochsMissed(v) \in Nat /\ (EpochsMissed(v) > 0 <=> lastActive[v] < lastEpoch - InactivityEpochBlocks)
  BY <1>1, <1>4, <1>5, MissedFacts
<1>7. Penalties_(v) \in Nat
  BY <1>6 DEF Penalties_
<1> QED
  BY <1>1, <1>4, <1>6, <1>7

(* The same after a step.                                                  *)
LEMMA MissedTypesNext ==
  ASSUME IInv', NEW v \in Validator
  PROVE  /\ lastEpoch' \in Nat /\ lastActive'[v] \in Nat /\ factor'[v] \in 0..BasisPointsScale
         /\ block' \in Nat /\ EpochsMissed(v)' \in Nat /\ Penalties_(v)' \in Nat
         /\ EpochsMissed(v)' > 0 <=> lastActive'[v] < lastEpoch' - InactivityEpochBlocks
<1>1. lastEpoch' \in Nat /\ block' \in Nat
  BY InputAssumption DEF IInv, ControlOK, Blocks
<1>2. ActivityOK'
  BY DEF IInv
<1>3. lastActive' \in [Validator -> Blocks] /\ factor' \in [Validator -> 0..BasisPointsScale]
  BY <1>2, Zenon DEF ActivityOK
<1>4. lastActive'[v] \in Nat /\ factor'[v] \in 0..BasisPointsScale
  BY <1>3, InputAssumption DEF Blocks
<1>5. EpochsMissed(v)' = Missed(lastEpoch', lastActive'[v])
  BY EpochsMissedIs
<1>6. EpochsMissed(v)' \in Nat /\ (EpochsMissed(v)' > 0 <=> lastActive'[v] < lastEpoch' - InactivityEpochBlocks)
  BY <1>1, <1>4, <1>5, MissedFacts
<1>7. Penalties_(v)' \in Nat
  BY <1>6 DEF Penalties_
<1> QED
  BY <1>1, <1>4, <1>6, <1>7

(* The bounds of the factors are numbers, at most the full power.          *)
LEMMA FullIsMost ==
  ASSUME NEW n \in Nat
  PROVE  BasisPointsScale # 0 /\ DecayedFactor[n] \in Nat /\ BasisPointsScale >= DecayedFactor[n]
<1> DEFINE f == DecayedFactor[n]
<1>1. f \in 0..BasisPointsScale
  BY DecayedFactorFalls
<1> HIDE DEF f
<1>2. f \in Nat /\ BasisPointsScale # 0 /\ BasisPointsScale >= f
  BY <1>1 DEF BasisPointsScale
<1> QED
  BY <1>2 DEF f

(* A validator with full power satisfies every bound.                      *)
LEMMA FullPower ==
  ASSUME IInv', NEW v \in Validator, factor'[v] = BasisPointsScale
  PROVE  PowerInStep(v)'
<1>1. Penalties_(v)' \in Nat
  BY MissedTypesNext
<1>3. BasisPointsScale # 0 /\ BasisPointsScale >= DecayedFactor[Penalties_(v)']
  BY <1>1, FullIsMost
<1> QED
  BY <1>3 DEF PowerInStep

(* A validator whose record does not change, and that is scanned once.     *)
LEMMA SamePower ==
  ASSUME IInv, IInv', NEW v \in Validator, PowerInStep(v),
         factor'[v] = factor[v], lastActive'[v] = lastActive[v], lastEpoch' = lastEpoch,
         Unscanned(v)' => Unscanned(v)
  PROVE  PowerInStep(v)'
<1>1. EpochsMissed(v)' = EpochsMissed(v)
  BY EpochsMissedIs
<1>2. EpochsMissed(v) \in Nat /\ Penalties_(v) \in Nat /\ Penalties_(v)' \in Nat
      /\ factor[v] \in 0..BasisPointsScale
  BY MissedTypes, MissedTypesNext
<1>3. Penalties_(v) <= Penalties_(v)'
  BY <1>1, <1>2 DEF Penalties_
<1>4. DecayedFactor[Penalties_(v)'] <= DecayedFactor[Penalties_(v)]
      /\ DecayedFactor[Penalties_(v)'] \in Nat /\ DecayedFactor[Penalties_(v)] \in Nat
  BY <1>2, <1>3, DecayedFactorFalls, FullIsMost
<1>5. factor[v] >= DecayedFactor[Penalties_(v)] => factor[v] >= DecayedFactor[Penalties_(v)']
  <2>1. factor[v] \in Nat
    BY <1>2, ScaledIsNat
  <2> QED
    BY <2>1, <1>4
<1> QED
  BY <1>1, <1>5 DEF PowerInStep

(* Outside the penalties the loop has nobody to evict.                     *)
LEMMA IdleInStep ==
  ASSUME IInv', phase' \notin {"resume", "scan", "evict"}
  PROVE  LoopInStep'
<1>1. loop'.toEvict = {}
  BY DEF IInv, LoopOK
<1> QED
  BY <1>1 DEF LoopInStep

(* Records stay, or are cleared.                                           *)
Cleared ==
  \A v \in Validator : \/ factor'[v] = factor[v] /\ lastActive'[v] = lastActive[v]
                       \/ factor'[v] = BasisPointsScale

(* A step outside the penalties.                                           *)
LEMMA QuietInStep ==
  ASSUME IInv, IInv', InStep, Cleared, lastEpoch' = lastEpoch, block <= block',
         phase' \notin {"resume", "scan", "evict"}, block' > 0 \/ phase' = "genesis"
  PROVE  InStep'
<1>1. ASSUME NEW v \in Validator PROVE PowerInStep(v)'
  <2>1. CASE factor'[v] = BasisPointsScale
    BY <2>1, FullPower
  <2>2. CASE factor'[v] = factor[v] /\ lastActive'[v] = lastActive[v]
    <3>1. ~Unscanned(v)'
      BY DEF Unscanned
    <3> QED
      BY <2>2, <3>1, SamePower DEF InStep
  <2> QED
    BY <2>1, <2>2 DEF Cleared
<1>2. EpochInStep'
  <2>1. lastEpoch \in Nat /\ block \in Nat /\ block' \in Nat
    BY InputAssumption DEF IInv, ControlOK, Blocks
  <2> QED
    BY <2>1 DEF InStep, EpochInStep
<1>3. LoopInStep'
  BY IdleInStep
<1> QED
  BY <1>1, <1>2, <1>3 DEF InStep

(* The records of one validator are cleared or refreshed, or none are.     *)
LEMMA ClearedOne ==
  ASSUME ActivityOK, NEW v \in Validator, NEW b,
         \/ UNCHANGED <<factor, lastActive>>
         \/ /\ factor' = [factor EXCEPT ![v] = BasisPointsScale]
            /\ lastActive' = [lastActive EXCEPT ![v] = b]
  PROVE  Cleared
<1>1. factor \in [Validator -> 0..BasisPointsScale] /\ lastActive \in [Validator -> Blocks]
  BY Zenon DEF ActivityOK
<1> QED
  BY <1>1 DEF Cleared

(* The methods of the contract: penalties are not being applied.           *)
LEMMA TransactionInStep ==
  ASSUME IInv, IInv', InStep, Transaction
  PROVE  InStep'
<1>0. ActivityOK
  BY DEF IInv
<1>1. ASSUME Call("txs"), UNCHANGED control, Cleared PROVE InStep'
  <2>1. phase = "txs" /\ phase' = phase /\ block' = block /\ lastEpoch' = lastEpoch
    BY <1>1 DEF Call, control
  <2>2. block > 0 /\ block <= block'
    BY <2>1, InputAssumption DEF InStep, EpochInStep, IInv, ControlOK, Blocks
  <2> QED
    BY <1>1, <2>1, <2>2, QuietInStep
<1>2. ASSUME UNCHANGED activity PROVE Cleared
  BY <1>2 DEF activity, Cleared
<1>3. ASSUME NEW v \in Validator, NEW d \in Delegator, NEW a \in Amounts,
             NEW c \in Commissions, registerValidator(v, d, a, c)
      PROVE  InStep'
  BY <1>1, <1>2, <1>3 DEF registerValidator, registerValidatorWithoutChecks
<1>4. ASSUME NEW d \in Delegator, NEW v \in Validator, NEW a \in Amounts, Delegate(d, v, a)
      PROVE  InStep'
  BY <1>1, <1>2, <1>4 DEF Delegate, delegate
<1>5. ASSUME NEW d \in Delegator, NEW v \in Validator, NEW a \in Amounts, undelegate(d, v, a)
      PROVE  InStep'
  BY <1>1, <1>2, <1>5 DEF undelegate
<1>6. ASSUME NEW d \in Delegator, NEW f \in Validator, NEW a \in Amounts,
             NEW t \in Validator, redelegate(d, f, t, a)
      PROVE  InStep'
  <2>1. Call("txs") /\ UNCHANGED control
    BY <1>6 DEF redelegate
  <2>2. \/ UNCHANGED <<factor, lastActive>>
        \/ /\ factor' = [factor EXCEPT ![f] = BasisPointsScale]
           /\ lastActive' = [lastActive EXCEPT ![f] = 0]
    BY <1>6 DEF redelegate
  <2> QED
    BY <1>0, <1>1, <2>1, <2>2, ClearedOne
<1>7. ASSUME NEW d \in Delegator, NEW v \in Validator, claimRewards(d, v)
      PROVE  InStep'
  BY <1>1, <1>2, <1>7 DEF claimRewards, ClaimFrom
<1>8. ASSUME NEW d \in Delegator, NEW v \in Validator, claimCommissionRewards(d, v)
      PROVE  InStep'
  <2>1. Call("txs") /\ UNCHANGED control
    BY <1>8 DEF claimCommissionRewards
  <2>2. \/ UNCHANGED <<factor, lastActive>>
        \/ /\ factor' = [factor EXCEPT ![v] = BasisPointsScale]
           /\ lastActive' = [lastActive EXCEPT ![v] = 0]
    BY <1>8 DEF claimCommissionRewards, DeleteValidator, activity
  <2> QED
    BY <1>0, <1>1, <2>1, <2>2, ClearedOne
<1>9. ASSUME NEW d \in Delegator, NEW v \in Validator, NEW c \in Commissions,
             setCommission(d, v, c)
      PROVE  InStep'
  BY <1>1, <1>2, <1>9 DEF setCommission
<1>10. ASSUME NEW u \in und, confirmUndelegate(u)
       PROVE  InStep'
  <2>1. Call("txs") /\ UNCHANGED control
    BY <1>10 DEF confirmUndelegate
  <2>2. u.validator \in Validator
    BY DEF IInv, LedgerOK, UndelegationRec
  <2>3. \/ UNCHANGED <<factor, lastActive>>
        \/ /\ factor' = [factor EXCEPT ![u.validator] = BasisPointsScale]
           /\ lastActive' = [lastActive EXCEPT ![u.validator] = 0]
    BY <1>10 DEF confirmUndelegate, DeleteValidator, activity
  <2> QED
    BY <1>0, <1>1, <2>1, <2>2, <2>3, ClearedOne
<1>11. ASSUME NEW u \in und, cancelUndelegate(u)
       PROVE  InStep'
  BY <1>1, <1>2, <1>11 DEF cancelUndelegate
<1>12. ASSUME NEW d \in Delegator, claimAllRewards(d)
       PROVE  InStep'
  BY <1>1, <1>2, <1>12, ClaimsSome DEF ClaimFrom
<1> QED
  BY <1>3, <1>4, <1>5, <1>6, <1>7, <1>8, <1>9, <1>10, <1>11, <1>12, Zenon DEF Transaction

(* Genesis, the ends of blocks, and the payments of a distribution.        *)
LEMMA PaymentInStep ==
  ASSUME IInv, IInv', InStep,
         \/ Genesis \/ EndBlock
         \/ \E listed \in SUBSET Validator, author \in Validator, r \in Rewards :
              DistributeRewards(listed, author, r)
         \/ \E v \in Validator, active \in BOOLEAN, r \in Rewards, f \in Rewards :
              RewardValidator(v, active, r, f)
  PROVE  InStep'
<1>0. ActivityOK /\ block \in Nat /\ lastEpoch \in Nat
  BY InputAssumption DEF IInv, ControlOK, Blocks
<1>1. ASSUME UNCHANGED activity PROVE Cleared
  BY <1>1 DEF activity, Cleared
<1>2. ASSUME NEW v \in Validator, NEW d \in Delegator, NEW c \in Commissions,
             GenesisValidator(v, d, c)
      PROVE  InStep'
  <2>1. /\ phase' = "genesis" /\ block' = block /\ lastEpoch' = lastEpoch /\ UNCHANGED activity
    BY <1>2 DEF GenesisValidator, Call, registerValidatorWithoutChecks, control
  <2> QED
    BY <1>0, <1>1, <2>1, QuietInStep
<1>3. ASSUME NEW v \in Validator, NEW d \in Delegator, NEW a \in Amounts,
             GenesisDelegation(d, v, a)
      PROVE  InStep'
  <2>1. /\ phase' = "genesis" /\ block' = block /\ lastEpoch' = lastEpoch /\ UNCHANGED activity
    BY <1>3 DEF GenesisDelegation, Call, delegate, control
  <2> QED
    BY <1>0, <1>1, <2>1, QuietInStep
<1>4. ASSUME EndGenesis \/ EndBlock PROVE InStep'
  <2>1. /\ phase' = "txs" /\ block' = block + 1 /\ lastEpoch' = lastEpoch /\ UNCHANGED activity
    BY <1>4 DEF EndGenesis, EndBlock, NextBlock
  <2>2. block <= block' /\ block' > 0
    BY <1>0, <2>1
  <2> QED
    BY <1>1, <2>1, <2>2, QuietInStep
<1>5. ASSUME NEW listed \in SUBSET Validator, NEW author \in Validator, NEW r \in Rewards,
             DistributeRewards(listed, author, r)
      PROVE  InStep'
  <2>1. /\ phase' = "distribute" /\ block' = block /\ lastEpoch' = lastEpoch /\ UNCHANGED activity
        /\ phase # "genesis"
    BY <1>5 DEF DistributeRewards
  <2>2. block > 0
    BY <2>1 DEF InStep, EpochInStep
  <2> QED
    BY <1>0, <1>1, <2>1, <2>2, QuietInStep
<1>6. ASSUME NEW v \in Validator, NEW active \in BOOLEAN, NEW r \in Rewards, NEW f \in Rewards,
             RewardValidator(v, active, r, f)
      PROVE  InStep'
  <2>1. /\ phase = "distribute" /\ phase' = phase /\ block' = block /\ lastEpoch' = lastEpoch
    BY <1>6, Zenon DEF RewardValidator
  <2>2. \/ UNCHANGED <<factor, lastActive>>
        \/ /\ factor' = [factor EXCEPT ![v] = BasisPointsScale]
           /\ lastActive' = [lastActive EXCEPT ![v] = block]
    BY <1>6, Zenon DEF RewardValidator
  <2>3. block > 0
    BY <2>1 DEF InStep, EpochInStep
  <2>4. Cleared
    BY <1>0, <2>2, ClearedOne
  <2> QED
    BY <1>0, <2>1, <2>3, <2>4, QuietInStep
<1>7. CASE Genesis
  BY <1>2, <1>3, <1>4, <1>7, Zenon DEF Genesis
<1> QED
  BY <1>4, <1>5, <1>6, <1>7, Zenon

(* The end of a distribution: at a boundary nobody has been scanned yet.   *)
LEMMA EndDistributionInStep ==
  ASSUME IInv, IInv', InStep, EndDistribution
  PROVE  InStep'
<1>0. /\ phase = "distribute" /\ block' = block /\ factor' = factor /\ lastActive' = lastActive
      /\ evicting' = evicting
  BY DEF EndDistribution, activity
<1>1. block \in Nat /\ lastEpoch \in Nat /\ block > 0
  BY <1>0, InputAssumption DEF IInv, ControlOK, Blocks, InStep, EpochInStep
<1>2. CASE ~PenaltiesDue
  <2>1. phase' = "rewards" /\ lastEpoch' = lastEpoch
    BY <1>2 DEF EndDistribution
  <2>2. Cleared
    BY <1>0 DEF Cleared
  <2> QED
    BY <1>0, <1>1, <2>1, <2>2, QuietInStep
<1>3. CASE PenaltiesDue
  <2>1. /\ phase' = "resume" /\ lastEpoch' = block /\ lastEpoch < block
        /\ block % InactivityEpochBlocks = 0
        /\ loop' = [loop EXCEPT !.todo = {v \in Validator : Exists(v) /\ evicting[v]},
                                !.budget = MaxEvictionsPerBlock]
    BY <1>3 DEF EndDistribution, PenaltiesDue, AtEpochBoundary
  <2>2. lastEpoch + InactivityEpochBlocks <= block
    BY <1>1, <2>1, BoundariesApart DEF InStep, EpochInStep
  <2>3. ASSUME NEW v \in Validator PROVE PowerInStep(v)'
    <3>1. /\ EpochsMissed(v) = Missed(lastEpoch, lastActive[v])
          /\ EpochsMissed(v)' = Missed(block, lastActive[v])
      BY <1>0, <2>1, EpochsMissedIs
    <3>2. /\ EpochsMissed(v) \in Nat /\ EpochsMissed(v)' \in Nat /\ lastActive[v] \in Nat
          /\ factor[v] \in 0..BasisPointsScale
      BY MissedTypes, MissedTypesNext
    <3>3. /\ EpochsMissed(v) <= EpochsMissed(v)'
          /\ EpochsMissed(v)' > 0 => EpochsMissed(v) <= EpochsMissed(v)' - 1
      BY <1>1, <2>2, <3>1, <3>2, MissedGrows
    <3>4. ~Unscanned(v) /\ Unscanned(v)'
      BY <1>0, <2>1 DEF Unscanned
    <3>5. /\ Penalties_(v) = EpochsMissed(v)
          /\ Penalties_(v)' \in Nat /\ EpochsMissed(v) <= Penalties_(v)'
      BY <3>2, <3>3, <3>4 DEF Penalties_
    <3>6. /\ DecayedFactor[Penalties_(v)'] <= DecayedFactor[EpochsMissed(v)]
          /\ DecayedFactor[Penalties_(v)'] \in Nat /\ DecayedFactor[EpochsMissed(v)] \in Nat
      BY <3>2, <3>5, DecayedFactorFalls, FullIsMost
    <3>7. factor[v] \in Nat
      BY <3>2, ScaledIsNat
    <3>8. PowerInStep(v)
      BY DEF InStep
    <3>9. /\ lastActive[v] = 0 => factor[v] = BasisPointsScale
          /\ factor[v] = 0 => EpochsMissed(v) > 0
          /\ factor[v] # 0 => factor[v] >= DecayedFactor[EpochsMissed(v)]
      BY <3>5, <3>8 DEF PowerInStep
    <3>10. factor[v] # 0 => factor[v] >= DecayedFactor[Penalties_(v)']
      BY <3>6, <3>7, <3>9
    <3>11. factor[v] = 0 => EpochsMissed(v)' > 0
      BY <3>2, <3>3, <3>9
    <3> QED
      BY <1>0, <3>9, <3>10, <3>11 DEF PowerInStep
  <2>4. EpochInStep'
    BY <1>0, <1>1, <2>1 DEF EpochInStep
  <2>5. LoopInStep'
    <3>1. loop \in [todo : SUBSET Validator, toEvict : SUBSET Validator,
                    budget : Nat, current : Validator \cup {Nil},
                    page : SUBSET Delegator, end : BOOLEAN]
      BY DEF IInv, LoopType
    <3>2. loop'.todo = {v \in Validator : Exists(v) /\ evicting[v]} /\ loop'.current = loop.current
          /\ loop'.toEvict = loop.toEvict
      BY <2>1, <3>1
    <3>3. loop.current = Nil /\ loop.toEvict = {}
      BY <1>0 DEF IInv, LoopOK
    <3>4. \A v \in loop'.todo : evicting'[v] /\ v # loop'.current
      BY <1>0, <3>2, <3>3, NilAssumption, Zenon
    <3> QED
      BY <2>1, <3>2, <3>3, <3>4 DEF LoopInStep
  <2> QED
    BY <2>3, <2>4, <2>5 DEF InStep
<1> QED
  BY <1>2, <1>3

(* The fields of the loop.                                                 *)
LEMMA LoopIs ==
  ASSUME IInv
  PROVE  loop \in [todo : SUBSET Validator, toEvict : SUBSET Validator,
                   budget : Nat, current : Validator \cup {Nil},
                   page : SUBSET Delegator, end : BOOLEAN]
BY DEF IInv, LoopType

(* A step within the penalties of a block.                                 *)
LEMMA EpochFrame ==
  ASSUME InStep, block' = block, lastEpoch' = lastEpoch,
         phase \in {"resume", "scan", "evict"}, phase' \in {"resume", "scan", "evict", "rewards"}
  PROVE  EpochInStep'
BY DEF InStep, EpochInStep

(* Those to be evicted stay convicted while their records stay.            *)
LEMMA ConvictedFrame ==
  ASSUME NEW v, Convicted(v), lastActive'[v] = lastActive[v], lastEpoch' = lastEpoch
  PROVE  Convicted(v)'
BY DEF Convicted, EpochsMissed

(* A step that changes no record and begins no scan.                       *)
LEMMA UnchangedPower ==
  ASSUME IInv, IInv', InStep, UNCHANGED <<factor, lastActive, lastEpoch>>,
         \A v \in Validator : Unscanned(v)' => Unscanned(v)
  PROVE  \A v \in Validator : PowerInStep(v)'
BY SamePower DEF InStep

(* The end of the first step of the penalties.                             *)
LEMMA EndResumeInStep ==
  ASSUME IInv, IInv', InStep, EndResume
  PROVE  InStep'
<1>1. /\ phase = "resume" /\ phase' = "scan" /\ UNCHANGED <<factor, lastActive, lastEpoch, block>>
      /\ loop' = [loop EXCEPT !.todo = {v \in Validator : Exists(v)}]
  BY DEF EndResume, activity
<1>2. loop'.toEvict = {}
  BY <1>1, LoopIs DEF IInv, LoopOK
<1>3. \A v \in Validator : PowerInStep(v)'
  BY <1>1, UnchangedPower DEF Unscanned
<1>4. EpochInStep'
  BY <1>1, EpochFrame
<1>5. LoopInStep'
  BY <1>1, <1>2 DEF LoopInStep
<1> QED
  BY <1>3, <1>4, <1>5 DEF InStep

(* The end of the scan: those collected are evicted.                       *)
LEMMA EndScanInStep ==
  ASSUME IInv, IInv', InStep, EndScan
  PROVE  InStep'
<1>1. /\ phase = "scan" /\ phase' = "evict" /\ UNCHANGED <<factor, lastActive, lastEpoch, block>>
      /\ loop' = [loop EXCEPT !.todo = loop.toEvict, !.toEvict = {}]
  BY DEF EndScan, activity
<1>2. loop'.toEvict = {} /\ loop'.todo = loop.toEvict
  BY <1>1, LoopIs
<1>3. \A v \in Validator : PowerInStep(v)'
  BY <1>1, UnchangedPower DEF Unscanned
<1>4. EpochInStep'
  BY <1>1, EpochFrame
<1>5. \A v \in loop'.todo : Convicted(v)'
  BY <1>1, <1>2, ConvictedFrame DEF InStep, LoopInStep
<1>6. LoopInStep'
  BY <1>1, <1>2, <1>5 DEF LoopInStep
<1> QED
  BY <1>3, <1>4, <1>6 DEF InStep

(* The end of the penalties.                                               *)
LEMMA EndPenaltiesInStep ==
  ASSUME IInv, IInv', InStep, EndPenalties
  PROVE  InStep'
<1>1. /\ phase = "evict" /\ phase' = "rewards" /\ UNCHANGED <<factor, lastActive, lastEpoch, block>>
  BY DEF EndPenalties, activity
<1>2. \A v \in Validator : PowerInStep(v)'
  BY <1>1, UnchangedPower DEF Unscanned
<1>3. EpochInStep'
  BY <1>1, EpochFrame
<1>4. LoopInStep'
  BY <1>1, IdleInStep
<1> QED
  BY <1>2, <1>3, <1>4 DEF InStep

(* A delegation taken by an eviction, and the end of the eviction.         *)
LEMMA EvictionInStep ==
  ASSUME IInv, IInv', InStep, (\E d \in Delegator : undelegateInternal(d)) \/ EndEviction
  PROVE  InStep'
<1>0. LoopOK /\ ActivityOK
  BY DEF IInv
<1>1. /\ UNCHANGED <<factor, lastActive, lastEpoch, block, phase>> /\ loop.current # Nil
  BY DEF undelegateInternal, EndEviction, activity
<1>2. phase \in {"resume", "evict"}
  BY <1>0, <1>1, Zenon DEF LoopOK
<1>3. loop'.todo = loop.todo /\ loop'.toEvict = loop.toEvict
      /\ (loop'.current = loop.current \/ loop'.current = Nil)
  BY LoopIs DEF undelegateInternal, EndEviction
<1>4. \A v \in Validator : v # loop.current => evicting'[v] = evicting[v]
  <2>1. evicting \in [Validator -> BOOLEAN]
    BY <1>0, Zenon DEF ActivityOK
  <2>2. evicting' = evicting \/ evicting' = [evicting EXCEPT ![loop.current] = ~loop.end]
    BY Zenon DEF undelegateInternal, EndEviction, activity
  <2> QED
    BY <2>1, <2>2, Zenon
<1>5. \A v \in Validator : PowerInStep(v)'
  BY <1>1, <1>3, UnchangedPower DEF Unscanned
<1>6. EpochInStep'
  BY <1>1, <1>2, EpochFrame
<1>7. LoopInStep'
  <2>0. loop.todo \subseteq Validator
    BY LoopIs
  <2>1. ASSUME phase' = "resume", NEW v \in loop'.todo PROVE evicting'[v] /\ v # loop'.current
    <3>1. v \in Validator /\ evicting[v] /\ v # loop.current
      BY <1>1, <1>3, <2>0, <2>1, Zenon DEF InStep, LoopInStep
    <3>2. v # Nil
      BY <3>1, NilAssumption
    <3> QED
      BY <1>3, <1>4, <3>1, <3>2, Zenon
  <2>2. \A v \in loop'.toEvict : Convicted(v)'
    BY <1>1, <1>3, ConvictedFrame DEF InStep, LoopInStep
  <2>3. phase' = "evict" => \A v \in loop'.todo : Convicted(v)'
    BY <1>1, <1>3, ConvictedFrame DEF InStep, LoopInStep
  <2> QED
    BY <2>1, <2>2, <2>3, Zenon DEF LoopInStep
<1> QED
  BY <1>5, <1>6, <1>7 DEF InStep

(* A convicted validator may lose all its power.                           *)
LEMMA StoppedPower ==
  ASSUME IInv, IInv', NEW v \in Validator, Convicted(v), factor'[v] = 0,
         lastActive'[v] = lastActive[v], lastEpoch' = lastEpoch
  PROVE  PowerInStep(v)'
<1>1. Convicted(v)'
  BY ConvictedFrame
<1> QED
  BY <1>1 DEF PowerInStep, Convicted

(* Beginning an eviction, or resuming one.                                 *)
LEMMA StartInStep ==
  ASSUME IInv, IInv', InStep, NEW v \in Validator, ResumeEviction(v) \/ StartEviction(v)
  PROVE  InStep'
<1>0. ActivityOK /\ LoopOK
  BY DEF IInv
<1>1. /\ UNCHANGED <<lastActive, lastEpoch, block, phase>> /\ phase \in {"resume", "evict"}
      /\ v \in loop.todo /\ loop.current = Nil
  BY DEF ResumeEviction, StartEviction, forceEvictValidator
<1>2. /\ loop'.todo = loop.todo \ {v} /\ loop'.toEvict = loop.toEvict
      /\ loop'.current \in {v, Nil}
  BY <1>1, LoopIs DEF ResumeEviction, StartEviction, forceEvictValidator
<1>3. factor \in [Validator -> 0..BasisPointsScale] /\ evicting \in [Validator -> BOOLEAN]
  BY <1>0, Zenon DEF ActivityOK
<1>4. \/ factor' = factor /\ evicting' = evicting
      \/ ~evicting[v] /\ factor' = [factor EXCEPT ![v] = 0] /\ evicting' = [evicting EXCEPT ![v] = TRUE]
      \/ phase = "evict" /\ factor' = [factor EXCEPT ![v] = 0] /\ evicting' = [evicting EXCEPT ![v] = TRUE]
  BY Zenon DEF ResumeEviction, StartEviction, forceEvictValidator, StopVoting
<1>5. \A w \in Validator : w # v => factor'[w] = factor[w] /\ evicting'[w] = evicting[w]
  BY <1>3, <1>4, Zenon
<1>6. factor'[v] = factor[v] \/ (factor'[v] = 0 /\ Convicted(v))
  <2>1. CASE phase = "resume"
    <3>1. evicting[v]
      BY <1>1, <2>1, Zenon DEF InStep, LoopInStep
    <3> QED
      BY <1>4, <2>1, <3>1
  <2>2. CASE phase = "evict"
    <3>1. Convicted(v)
      BY <1>1, <2>2 DEF InStep, LoopInStep
    <3>2. factor' = factor \/ factor' = [factor EXCEPT ![v] = 0]
      BY <1>4, Zenon
    <3> QED
      BY <3>1, <3>2, <1>3
  <2> QED
    BY <1>1, <2>1, <2>2
<1>7. ASSUME NEW w \in Validator PROVE PowerInStep(w)'
  <2>1. Unscanned(w)' => Unscanned(w)
    BY <1>1, <1>2 DEF Unscanned
  <2>2. PowerInStep(w) /\ lastActive'[w] = lastActive[w] /\ lastEpoch' = lastEpoch
    BY <1>1 DEF InStep
  <2>3. CASE factor'[w] = factor[w]
    BY <2>1, <2>2, <2>3, SamePower
  <2>4. CASE w = v /\ factor'[v] = 0 /\ Convicted(v)
    BY <2>2, <2>4, StoppedPower
  <2> QED
    BY <1>5, <1>6, <2>3, <2>4
<1>8. EpochInStep'
  BY <1>1, EpochFrame
<1>9. LoopInStep'
  <2>0. loop.todo \subseteq Validator
    BY LoopIs
  <2>1. ASSUME phase' = "resume", NEW w \in loop'.todo PROVE evicting'[w] /\ w # loop'.current
    <3>1. w \in Validator /\ w # v /\ w \in loop.todo /\ evicting[w]
      BY <1>1, <1>2, <2>0, <2>1, Zenon DEF InStep, LoopInStep
    <3>2. w # Nil
      BY <3>1, NilAssumption
    <3>3. w # loop'.current
      BY <1>2, <3>1, <3>2
    <3> QED
      BY <1>5, <3>1, <3>3, Zenon
  <2>2. \A w \in loop'.toEvict : Convicted(w)'
    BY <1>1, <1>2, ConvictedFrame DEF InStep, LoopInStep
  <2>3. phase' = "evict" => \A w \in loop'.todo : Convicted(w)'
    BY <1>1, <1>2, ConvictedFrame DEF InStep, LoopInStep
  <2> QED
    BY <2>1, <2>2, <2>3, Zenon DEF LoopInStep
<1> QED
  BY <1>7, <1>8, <1>9 DEF InStep

(* A penalty: one more epoch, one more factor.                             *)
LEMMA PenalisedPower ==
  ASSUME IInv, IInv', NEW v \in Validator, PowerInStep(v), Unscanned(v), ~Unscanned(v)',
         Convicted(v), factor'[v] = Decay(factor[v]),
         lastActive'[v] = lastActive[v], lastEpoch' = lastEpoch
  PROVE  PowerInStep(v)'
<1>1. Convicted(v)' /\ EpochsMissed(v)' = EpochsMissed(v)
  BY ConvictedFrame, EpochsMissedIs
<1>2. EpochsMissed(v) \in Nat /\ EpochsMissed(v) > 0 /\ factor[v] \in 0..BasisPointsScale
  BY MissedTypes DEF Convicted
<1> DEFINE n == EpochsMissed(v)
<1>3. Penalties_(v) = n - 1 /\ Penalties_(v)' = n /\ n - 1 \in Nat /\ n # 0 /\ n \in Nat
  BY <1>1, <1>2 DEF Penalties_
<1>4. CASE factor[v] = 0
  <2>1. factor'[v] = 0
    BY <1>4 DEF Decay
  <2> QED
    BY <1>1, <2>1 DEF PowerInStep, Convicted
<1>5. CASE factor[v] # 0
  <2>1. factor[v] >= DecayedFactor[n - 1]
    BY <1>3, <1>5 DEF PowerInStep
  <2> HIDE DEF n
  <2>2. DecayedFactor[n - 1] \in 0..BasisPointsScale /\ DecayedFactor[n] = Decay(DecayedFactor[n - 1])
    BY <1>3, DecayEquation, DecayedFactorFalls
  <2>3. DecayedFactor[n - 1] <= factor[v]
    <3>1. DecayedFactor[n - 1] \in Nat /\ factor[v] \in Nat
      BY <1>2, <2>2, ScaledIsNat
    <3> QED
      BY <2>1, <3>1
  <2>4. /\ Decay(DecayedFactor[n - 1]) <= Decay(factor[v])
    BY <1>2, <2>2, <2>3, DecayFacts
  <2>5. Decay(DecayedFactor[n - 1]) \in Nat /\ Decay(factor[v]) \in Nat
    BY <1>2, <2>2, DecayShrinks, ScaledIsNat
  <2>6. factor'[v] >= DecayedFactor[Penalties_(v)']
    BY <1>3, <2>2, <2>4, <2>5
  <2> QED
    BY <1>1, <2>6 DEF PowerInStep, Convicted
<1> QED
  BY <1>4, <1>5

(* One validator of the scan.                                              *)
LEMMA ScanInStep ==
  ASSUME IInv, IInv', InStep, NEW v \in Validator, Scan(v)
  PROVE  InStep'
<1>0. ActivityOK /\ block \in Nat /\ InactivityEpochBlocks \in Nat
  BY InputAssumption, ConfigAssumption DEF IInv, ControlOK, Blocks
<1>1. /\ UNCHANGED <<lastEpoch, block, phase>> /\ phase = "scan" /\ v \in loop.todo /\ lastEpoch = block
  BY DEF Scan, InStep, EpochInStep
<1>2. factor \in [Validator -> 0..BasisPointsScale] /\ lastActive \in [Validator -> Blocks]
  BY <1>0, Zenon DEF ActivityOK
<1>3. \/ /\ loop' = [loop EXCEPT !.todo = @ \ {v}] /\ factor' = factor
         /\ \/ lastActive' = lastActive
            \/ lastActive[v] = 0 /\ lastActive' = [lastActive EXCEPT ![v] = block]
      \/ lastActive[v] # 0 /\ ~ActiveInEpoch(v) /\ Penalise(v)
  BY Zenon DEF Scan
<1>4. loop'.todo = loop.todo \ {v} /\ loop'.toEvict \subseteq loop.toEvict \cup {v}
  BY <1>3, LoopIs DEF Penalise
<1>5. \A w \in Validator : w # v => factor'[w] = factor[w] /\ lastActive'[w] = lastActive[w]
  BY <1>2, <1>3 DEF Penalise
<1>6. \A w \in Validator : lastActive[w] # 0 => lastActive'[w] = lastActive[w]
  BY <1>2, <1>3, <1>5 DEF Penalise
<1>7. ASSUME lastActive[v] # 0, ~ActiveInEpoch(v) PROVE Convicted(v)
  <2>1. lastActive[v] \in Nat /\ (EpochsMissed(v) > 0 <=> lastActive[v] < lastEpoch - InactivityEpochBlocks)
    BY MissedTypes
  <2>2. lastActive[v] < lastEpoch - InactivityEpochBlocks
    BY <1>0, <1>1, <1>7, <2>1 DEF ActiveInEpoch
  <2> QED
    BY <1>7, <2>1, <2>2 DEF Convicted
<1>8. Unscanned(v) /\ ~Unscanned(v)' /\ \A w \in Validator : Unscanned(w)' => Unscanned(w)
  BY <1>1, <1>4 DEF Unscanned
<1>9. ASSUME NEW w \in Validator PROVE PowerInStep(w)'
  <2>1. PowerInStep(w)
    BY DEF InStep
  <2>2. CASE factor'[w] = factor[w] /\ lastActive'[w] = lastActive[w]
    BY <1>1, <1>8, <2>1, <2>2, SamePower
  <2>3. CASE w = v /\ factor' = factor /\ lastActive[v] = 0
    <3>1. factor'[v] = BasisPointsScale
      BY <2>1, <2>3 DEF PowerInStep
    <3> QED
      BY <2>3, <3>1, FullPower
  <2>4. CASE w = v /\ lastActive[v] # 0 /\ ~ActiveInEpoch(v) /\ Penalise(v)
    <3>1. factor'[v] = Decay(factor[v]) /\ lastActive'[v] = lastActive[v]
      BY <1>2, <2>4 DEF Penalise
    <3> QED
      BY <1>1, <1>7, <1>8, <2>1, <2>4, <3>1, PenalisedPower
  <2> QED
    BY <1>3, <1>5, <2>2, <2>3, <2>4
<1>10. EpochInStep'
  BY <1>1, EpochFrame
<1>11. LoopInStep'
  <2>1. \A w \in loop.toEvict : Convicted(w)
    BY DEF InStep, LoopInStep
  <2>2. loop.toEvict \subseteq Validator
    BY LoopIs
  <2>3. ASSUME NEW w \in loop'.toEvict PROVE Convicted(w)
    <3>1. CASE loop'.toEvict = loop.toEvict
      BY <2>1, <2>3, <3>1
    <3>2. CASE lastActive[v] # 0 /\ ~ActiveInEpoch(v)
      BY <1>4, <1>7, <2>1, <2>3, <3>2
    <3> QED
      BY <1>3, <3>1, <3>2, LoopIs
  <2>4. \A w \in loop'.toEvict : Convicted(w)'
    <3>1. \A w \in loop'.toEvict : w \in Validator /\ lastActive[w] # 0
      BY <1>4, <2>2, <2>3 DEF Convicted
    <3> QED
      BY <1>1, <1>6, <2>3, <3>1, ConvictedFrame
  <2> QED
    BY <1>1, <2>4 DEF LoopInStep
<1> QED
  BY <1>9, <1>10, <1>11 DEF InStep

(* Every step preserves the invariant.                                     *)
LEMMA StepInStep == IInv /\ IInv' /\ InStep /\ [Next]_vars => InStep'
<1> SUFFICES ASSUME IInv, IInv', InStep, [Next]_vars PROVE InStep'
  OBVIOUS
<1>1. CASE Transaction
  BY <1>1, TransactionInStep
<1>2. CASE Genesis \/ EndBlock
  BY <1>2, PaymentInStep, Zenon
<1>3. CASE Distribution
  BY <1>3, PaymentInStep, EndDistributionInStep, Zenon DEF Distribution
<1>4. CASE Penalties
  BY <1>4, StartInStep, EndResumeInStep, ScanInStep, EndScanInStep, EvictionInStep,
     EndPenaltiesInStep, Zenon DEF Penalties
<1>5. CASE UNCHANGED vars
  <2>1. /\ UNCHANGED <<factor, lastActive, evicting>> /\ UNCHANGED <<block, phase, loop, lastEpoch>>
    BY <1>5, Zenon DEF vars, activity, control
  <2>2. \A v \in Validator : PowerInStep(v)'
    BY <2>1, UnchangedPower DEF Unscanned
  <2>3. EpochInStep'
    BY <2>1 DEF InStep, EpochInStep
  <2>4. LoopInStep'
    <3>1. \A v : Convicted(v) => Convicted(v)'
      BY <2>1, ConvictedFrame
    <3> QED
      BY <2>1, <3>1, Zenon DEF InStep, LoopInStep
  <2> QED
    BY <2>2, <2>3, <2>4 DEF InStep
<1> QED
  BY <1>1, <1>2, <1>3, <1>4, <1>5, Zenon DEF Next

(* It holds initially: nobody has a record, and nobody lost power.         *)
LEMMA InitInStep == Init => InStep
<1> SUFFICES ASSUME Init PROVE InStep
  OBVIOUS
<1>0. IInv
  BY InitIInv
<1>1. ASSUME NEW v \in Validator PROVE PowerInStep(v)
  <2>1. factor[v] = BasisPointsScale
    BY DEF Init
  <2>2. Penalties_(v) \in Nat
    BY <1>0, MissedTypes
  <2>3. BasisPointsScale # 0 /\ BasisPointsScale >= DecayedFactor[Penalties_(v)]
    BY <2>2, FullIsMost
  <2> QED
    BY <2>1, <2>3 DEF PowerInStep
<1>2. EpochInStep
  <2>1. 0 % InactivityEpochBlocks = 0
    BY ConfigAssumption
  <2> QED
    BY <2>1 DEF Init, EpochInStep
<1>3. LoopInStep
  BY DEF Init, LoopInStep, NoLoop
<1> QED
  BY <1>1, <1>2, <1>3 DEF InStep

(***************************************************************************)
(* applyInactivityPenalties: for every length of an epoch, every eviction  *)
(* budget and every number of distributions in a batch, a validator loses  *)
(* 5% at most once for each epoch it missed, and all of its power only     *)
(* when it missed one.                                                     *)
(***************************************************************************)
THEOREM PowerDecaysOncePerEpoch == Spec => []DecayOncePerEpoch
<1>1. IInv /\ InStep => DecayOncePerEpoch
  <2> SUFFICES ASSUME IInv, InStep, NEW v \in Validator
               PROVE  IF factor[v] = 0 THEN EpochsMissed(v) > 0
                      ELSE factor[v] >= DecayedFactor[EpochsMissed(v)]
    BY DEF DecayOncePerEpoch
  <2>1. PowerInStep(v)
    BY DEF InStep
  <2>2. EpochsMissed(v) \in Nat /\ Penalties_(v) \in Nat /\ factor[v] \in Nat
    BY MissedTypes, ScaledIsNat
  <2>3. Penalties_(v) <= EpochsMissed(v)
    BY <2>2 DEF Penalties_
  <2>4. /\ DecayedFactor[EpochsMissed(v)] <= DecayedFactor[Penalties_(v)]
        /\ DecayedFactor[EpochsMissed(v)] \in Nat /\ DecayedFactor[Penalties_(v)] \in Nat
    BY <2>2, <2>3, DecayedFactorFalls, FullIsMost
  <2> QED
    BY <2>1, <2>2, <2>4 DEF PowerInStep
<1> QED
  BY <1>1, InitIInv, StepPreserves, InitInStep, StepInStep, PTL DEF Spec

-----------------------------------------------------------------------------
(* Progress of a distribution.                                             *)

Advances ==
  \/ Stage' < Stage
  \/ Stage' = Stage /\ Cardinality(loop.todo') < Cardinality(loop.todo)
  \/ Stage' = Stage /\ loop.todo' = loop.todo /\ OnPage' < OnPage

(* A set that loses an element gets smaller.                               *)
LEMMA LosesOne ==
  ASSUME NEW S, IsFiniteSet(S), NEW x \in S
  PROVE  Cardinality(S \ {x}) < Cardinality(S) /\ Cardinality(S) \in Nat
<1>1. Cardinality(S \ {x}) = Cardinality(S) - 1 /\ Cardinality(S) \in Nat
  BY FS_RemoveElement, FS_CardinalityType
<1> QED
  BY <1>1

(* Loops work on finite sets.                                              *)
LEMMA LoopFinite ==
  ASSUME IInv
  PROVE  IsFiniteSet(loop.todo) /\ IsFiniteSet(loop.page)
<1>1. loop.todo \subseteq Validator /\ loop.page \subseteq Delegator
  BY LoopIs
<1> QED
  BY <1>1, InputAssumption, FS_Subset

(* A loop that takes a validator off its list.                             *)
LEMMA TakesOff ==
  ASSUME IInv, NEW v \in loop.todo, loop'.todo = loop.todo \ {v}, phase' = phase
  PROVE  Advances
<1>1. Cardinality(loop.todo \ {v}) < Cardinality(loop.todo)
  BY LoopFinite, LosesOne
<1>2. Stage' = Stage
  BY DEF Stage
<1> QED
  BY <1>1, <1>2 DEF Advances

(* The end of a stage.                                                     *)
LEMMA NextStage ==
  ASSUME \/ phase = "distribute" /\ phase' \in {"resume", "rewards"}
         \/ phase = "resume" /\ phase' = "scan"
         \/ phase = "scan" /\ phase' = "evict"
         \/ phase = "evict" /\ phase' = "rewards"
  PROVE  Advances
BY DEF Advances, Stage

(* Every step of a distribution advances.                                  *)
LEMMA StepAdvances ==
  ASSUME IInv, Next, Distributing
  PROVE  Advances
<1>0. phase \notin {"genesis", "txs", "rewards"}
  BY DEF Distributing
<1>a. ~Call("txs")
  BY <1>0 DEF Call
<1>1. ~Transaction
  <2>1. \A d, v, a, c : ~registerValidator(v, d, a, c)
    BY <1>a, SMT DEF registerValidator
  <2>2. \A d, v, a : ~Delegate(d, v, a)
    BY <1>a, SMT DEF Delegate
  <2>3. \A d, v, a : ~undelegate(d, v, a)
    BY <1>a, SMT DEF undelegate
  <2>4. \A d, v, t, a : ~redelegate(d, v, t, a)
    BY <1>a, SMT DEF redelegate
  <2>5. \A d, v, c : /\ ~claimRewards(d, v) /\ ~claimCommissionRewards(d, v)
                     /\ ~setCommission(d, v, c) /\ ~claimAllRewards(d)
    BY <1>a, Zenon DEF claimRewards, claimCommissionRewards, setCommission, claimAllRewards
  <2>6. \A u : ~confirmUndelegate(u) /\ ~cancelUndelegate(u)
    BY <1>a, Zenon DEF confirmUndelegate, cancelUndelegate
  <2> QED
    BY <2>1, <2>2, <2>3, <2>4, <2>5, <2>6, Zenon DEF Transaction
<1>2. ~Genesis /\ ~EndBlock
  BY <1>0 DEF Genesis, GenesisValidator, GenesisDelegation, EndGenesis, EndBlock, Call
<1>3. CASE Distribution
  <2>1. ASSUME NEW listed \in SUBSET Validator, NEW author \in Validator, NEW r \in Rewards,
               DistributeRewards(listed, author, r)
        PROVE  FALSE
    BY <1>0, <2>1 DEF DistributeRewards
  <2>2. ASSUME NEW v \in Validator, NEW active \in BOOLEAN, NEW r \in Rewards, NEW f \in Rewards,
               RewardValidator(v, active, r, f)
        PROVE  Advances
    <3>1. v \in loop.todo /\ loop' = [loop EXCEPT !.todo = @ \ {v}] /\ phase' = phase
      BY <2>2, Zenon DEF RewardValidator
    <3>2. loop'.todo = loop.todo \ {v}
      BY <3>1, LoopIs
    <3> QED
      BY <3>1, <3>2, TakesOff
  <2>3. ASSUME EndDistribution PROVE Advances
    <3>1. phase = "distribute" /\ phase' \in {"resume", "rewards"}
      BY <2>3 DEF EndDistribution
    <3> QED
      BY <3>1, NextStage
  <2> QED
    BY <1>3, <2>1, <2>2, <2>3, Zenon DEF Distribution
<1>4. CASE Penalties
  <2>1. ASSUME NEW v \in Validator, ResumeEviction(v) \/ StartEviction(v) PROVE Advances
    <3>1. v \in loop.todo /\ phase' = phase
      BY <2>1 DEF ResumeEviction, StartEviction, forceEvictValidator
    <3>2. loop'.todo = loop.todo \ {v}
      BY <2>1, LoopIs DEF ResumeEviction, StartEviction, forceEvictValidator
    <3> QED
      BY <3>1, <3>2, TakesOff
  <2>2. ASSUME NEW v \in Validator, Scan(v) PROVE Advances
    <3>1. v \in loop.todo /\ phase' = phase
      BY <2>2 DEF Scan
    <3>2. loop'.todo = loop.todo \ {v}
      BY <2>2, LoopIs DEF Scan, Penalise
    <3> QED
      BY <3>1, <3>2, TakesOff
  <2>3. EndResume \/ EndScan \/ EndPenalties => Advances
    BY NextStage DEF EndResume, EndScan, EndPenalties
  <2>4. ASSUME NEW d \in Delegator, undelegateInternal(d) PROVE Advances
    <3>1. /\ d \in loop.page /\ phase' = phase
          /\ loop'.todo = loop.todo /\ loop'.page = loop.page \ {d} /\ loop'.current = loop.current
      BY <2>4, LoopIs DEF undelegateInternal
    <3>2. Cardinality(loop.page \ {d}) < Cardinality(loop.page) /\ Cardinality(loop.page) \in Nat
          /\ Cardinality(loop.page \ {d}) \in Nat
      BY <3>1, LoopFinite, LosesOne, FS_RemoveElement, FS_CardinalityType
    <3>3. OnPage' < OnPage
      BY <3>1, <3>2 DEF OnPage
    <3>4. Stage' = Stage
      BY <3>1 DEF Stage
    <3> QED
      BY <3>1, <3>3, <3>4 DEF Advances
  <2>5. ASSUME EndEviction PROVE Advances
    <3>1. /\ phase' = phase /\ loop.current # Nil /\ loop'.current = Nil
          /\ loop'.todo = loop.todo /\ loop'.page = loop.page
      BY <2>5, LoopIs DEF EndEviction
    <3>2. Cardinality(loop.page) \in Nat
      BY LoopFinite, FS_CardinalityType
    <3>3. OnPage' < OnPage
      BY <3>1, <3>2 DEF OnPage
    <3>4. Stage' = Stage
      BY <3>1 DEF Stage
    <3> QED
      BY <3>1, <3>3, <3>4 DEF Advances
  <2> QED
    BY <1>4, <2>1, <2>2, <2>3, <2>4, <2>5, Zenon DEF Penalties
<1> QED
  BY <1>1, <1>2, <1>3, <1>4 DEF Next

(***************************************************************************)
(* DistributeRewards and applyInactivityPenalties: with any number of      *)
(* validators, delegators and evictions in progress, each iteration of     *)
(* their loops leaves less to do, in the order of stages, validators and   *)
(* delegators of a page.                                                   *)
(***************************************************************************)
THEOREM DistributionsShrink == Spec => DistributionAdvances
<1>1. IInv /\ [Next]_vars =>
        [Distributing =>
           \/ Stage' < Stage
           \/ Stage' = Stage /\ Cardinality(loop.todo') < Cardinality(loop.todo)
           \/ Stage' = Stage /\ loop.todo' = loop.todo /\ OnPage' < OnPage]_vars
  BY StepAdvances DEF Advances
<1> QED
  BY <1>1, InitIInv, StepPreserves, PTL DEF Spec, DistributionAdvances

-----------------------------------------------------------------------------
(* How the stakes move.                                                    *)

StakeSum(v) == SumFunctionOnSet([d \in Delegator |-> StakeOf(d, v)], Delegator)

StakeTotal == SumFunctionOnSet([v \in Validator |-> ValidatorStake(v)], Validator)

(* The stake of validator v grows by amount; no other changes.             *)
Grows(v, amount) ==
  \A w \in Validator :
    ValidatorStake(w)' = IF w = v THEN ValidatorStake(w) + amount ELSE ValidatorStake(w)

(* The delegation of d to v grows by amount; no other changes.             *)
GrowsFor(d, v, amount) ==
  \A e \in Delegator, w \in Validator :
    StakeOf(e, w)' = IF e = d /\ w = v THEN StakeOf(e, w) + amount ELSE StakeOf(e, w)

(* No stake of a validator, and no delegation, changes.                    *)
StakesKept ==
  /\ \A w \in Validator : ValidatorStake(w)' = ValidatorStake(w)
  /\ \A e \in Delegator, w \in Validator : StakeOf(e, w)' = StakeOf(e, w)

(* Stakes are numbers, those of delegations are not negative.              *)
LEMMA StakeTypes ==
  ASSUME LedgerOK
  PROVE  /\ \A v \in Validator : ValidatorStake(v) \in Int
         /\ \A d \in Delegator, v \in Validator : StakeOf(d, v) \in Nat
<1>1. ASSUME NEW v \in Validator PROVE ValidatorStake(v) \in Int
  BY DEF LedgerOK, ValidatorStake, Exists, BoundedRec, ValidatorRec
<1>2. ASSUME NEW d \in Delegator, NEW v \in Validator PROVE StakeOf(d, v) \in Nat
  BY DEF LedgerOK, StakeOf, Delegated, DelegationRec
<1> QED
  BY <1>1, <1>2

(* The same after a step.                                                  *)
LEMMA StakeTypesNext ==
  ASSUME LedgerOK'
  PROVE  /\ \A v \in Validator : ValidatorStake(v)' \in Int
         /\ \A d \in Delegator, v \in Validator : StakeOf(d, v)' \in Nat
<1>1. ASSUME NEW v \in Validator PROVE ValidatorStake(v)' \in Int
  BY DEF LedgerOK, ValidatorStake, Exists, BoundedRec, ValidatorRec
<1>2. ASSUME NEW d \in Delegator, NEW v \in Validator PROVE StakeOf(d, v)' \in Nat
  BY DEF LedgerOK, StakeOf, Delegated, DelegationRec
<1> QED
  BY <1>1, <1>2

(* The total follows the stake of one validator.                           *)
LEMMA TotalGrows ==
  ASSUME LedgerOK, LedgerOK', NEW v \in Validator, NEW amount \in Int, Grows(v, amount)
  PROVE  StakeTotal' = StakeTotal + amount
<1>1. PICK f : f = [w \in Validator |-> ValidatorStake(w)]
  OBVIOUS
<1>2. PICK e : e = [w \in Validator |-> ValidatorStake(w)']
  OBVIOUS
<1>3. /\ \A w \in Validator : f[w] \in Int /\ e[w] \in Int /\ (w # v => e[w] = f[w])
      /\ e[v] = f[v] + amount
  <2>1. /\ \A w \in Validator : ValidatorStake(w) \in Int
        /\ \A w \in Validator : ValidatorStake(w)' \in Int
    BY StakeTypes, StakeTypesNext
  <2> QED
    BY <1>1, <1>2, <2>1 DEF Grows
<1>4. SumFunctionOnSet(e, Validator) = SumFunctionOnSet(f, Validator) + e[v] - f[v]
  BY <1>3, InputAssumption, SumChange
<1>5. SumFunctionOnSet(f, Validator) \in Int
  BY <1>3, InputAssumption, SumInt
<1>6. SumFunctionOnSet(e, Validator) = SumFunctionOnSet(f, Validator) + amount
  BY <1>3, <1>4, <1>5
<1> QED
  BY <1>1, <1>2, <1>6 DEF StakeTotal

(* The sum of the delegations to a validator follows one of them.          *)
LEMMA SumGrows ==
  ASSUME LedgerOK, LedgerOK', NEW d \in Delegator, NEW v \in Validator, NEW amount \in Int,
         \A e \in Delegator :
           StakeOf(e, v)' = IF e = d THEN StakeOf(e, v) + amount ELSE StakeOf(e, v)
  PROVE  StakeSum(v)' = StakeSum(v) + amount
<1>1. PICK f : f = [x \in Delegator |-> StakeOf(x, v)]
  OBVIOUS
<1>2. PICK g : g = [x \in Delegator |-> StakeOf(x, v)']
  OBVIOUS
<1>3. /\ \A x \in Delegator : f[x] \in Int /\ g[x] \in Int /\ (x # d => g[x] = f[x])
      /\ g[d] = f[d] + amount
  <2>1. /\ \A x \in Delegator : StakeOf(x, v) \in Nat
        /\ \A x \in Delegator : StakeOf(x, v)' \in Nat
    BY StakeTypes, StakeTypesNext
  <2> QED
    BY <1>1, <1>2, <2>1
<1>4. SumFunctionOnSet(g, Delegator) = SumFunctionOnSet(f, Delegator) + g[d] - f[d]
  BY <1>3, InputAssumption, SumChange
<1>5. SumFunctionOnSet(f, Delegator) \in Int
  BY <1>3, InputAssumption, SumInt
<1>6. SumFunctionOnSet(g, Delegator) = SumFunctionOnSet(f, Delegator) + amount
  BY <1>3, <1>4, <1>5
<1> QED
  BY <1>1, <1>2, <1>6 DEF StakeSum

(* Sums of stakes that do not change do not change.                        *)
LEMMA SumKept ==
  ASSUME NEW v \in Validator, \A e \in Delegator : StakeOf(e, v)' = StakeOf(e, v)
  PROVE  StakeSum(v)' = StakeSum(v)
<1>1. PICK f : f = [x \in Delegator |-> StakeOf(x, v)]
  OBVIOUS
<1>2. PICK g : g = [x \in Delegator |-> StakeOf(x, v)']
  OBVIOUS
<1>3. f = g
  BY <1>1, <1>2
<1> QED
  BY <1>1, <1>2, <1>3 DEF StakeSum

(* The total does not change when no stake does.                           *)
LEMMA TotalKept ==
  ASSUME \A w \in Validator : ValidatorStake(w)' = ValidatorStake(w)
  PROVE  StakeTotal' = StakeTotal
<1>1. PICK f : f = [w \in Validator |-> ValidatorStake(w)]
  OBVIOUS
<1>2. PICK g : g = [w \in Validator |-> ValidatorStake(w)']
  OBVIOUS
<1>3. f = g
  BY <1>1, <1>2
<1> QED
  BY <1>1, <1>2, <1>3 DEF StakeTotal

(* A validator is stored with another stake.                               *)
LEMMA ValStored ==
  ASSUME LedgerOK, NEW v \in Validator, NEW r \in BoundedRec, NEW amount \in Int,
         r.stake = ValidatorStake(v) + amount, val' = [val EXCEPT ![v] = r]
  PROVE  Grows(v, amount)
<1>1. r # Nil
  BY NilAssumption DEF BoundedRec
<1>2. val'[v] = r /\ \A w \in Validator : w # v => val'[w] = val[w]
  BY DEF LedgerOK
<1> QED
  BY <1>1, <1>2 DEF Grows, ValidatorStake, Exists

(* A delegation is stored with another stake, or removed.                  *)
LEMMA DelStored ==
  ASSUME LedgerOK, NEW d \in Delegator, NEW v \in Validator,
         NEW r \in DelegationRec \cup {Nil}, NEW amount \in Int,
         (IF r = Nil THEN 0 ELSE r.stake) = StakeOf(d, v) + amount,
         del' = [del EXCEPT ![d][v] = r]
  PROVE  GrowsFor(d, v, amount)
<1>1. /\ del'[d][v] = r
      /\ \A e \in Delegator, w \in Validator : ~(e = d /\ w = v) => del'[e][w] = del[e][w]
  BY DEF LedgerOK
<1> QED
  BY <1>1 DEF GrowsFor, StakeOf, Delegated

(* registerValidator: the stake and the delegation of the owner.           *)
LEMMA RegisterMoves ==
  ASSUME IInv, NEW owner \in Delegator, NEW v \in Validator, NEW amount \in Nat,
         NEW commission \in Nat,
         registerValidatorWithoutChecks(v, owner, amount, commission), LedgerOK'
  PROVE  Grows(v, amount) /\ GrowsFor(owner, v, amount)
<1>0. LedgerOK /\ block \in Blocks /\ ~Exists(v) /\ ~Delegated(owner, v)
  BY DEF IInv, ControlOK, registerValidatorWithoutChecks
<1>1. PICK r : r = [stake |-> amount, commission |-> commission,
                    lastCommissionChange |-> block, last |-> block,
                    undelegations |-> 0, pool |-> 0, commissionPool |-> 0,
                    owner |-> owner]
  OBVIOUS
<1>2. val' = [val EXCEPT ![v] = r] /\ r.stake = amount
  BY <1>1 DEF registerValidatorWithoutChecks
<1>3. val'[v] = r /\ val'[v] \in BoundedRec \cup {Nil} /\ r # Nil
  <2>1. val'[v] = r /\ val'[v] \in BoundedRec \cup {Nil}
    BY <1>0, <1>2 DEF LedgerOK
  <2>2. r # Nil
    <3>1. r \in ValidatorRec
      <4>1. commission \in 0..MaxCommission
        <5>1. commission <= MaxCommission
          BY DEF registerValidatorWithoutChecks
        <5> QED
          BY <5>1 DEF MaxCommission, BasisPointsScale
      <4> QED
        BY <1>0, <1>1, <4>1 DEF ValidatorRec
    <3> QED
      BY <3>1, NilAssumption
  <2> QED
    BY <2>1, <2>2
<1>4. Grows(v, amount)
  <2>1. ValidatorStake(v) = 0 /\ amount \in Int /\ amount = 0 + amount
    BY <1>0 DEF ValidatorStake
  <2>2. r \in BoundedRec /\ r.stake = ValidatorStake(v) + amount
    BY <1>2, <1>3, <2>1
  <2> QED
    BY <1>0, <1>2, <2>1, <2>2, ValStored
<1>5. GrowsFor(owner, v, amount)
  <2>1. StakeOf(owner, v) = 0
    BY <1>0 DEF StakeOf
  <2>2. CASE amount > 0
    <3>1. PICK x : x = [stake |-> amount, last |-> block]
      OBVIOUS
    <3>2. x \in DelegationRec /\ x.stake = amount /\ x # Nil
      BY <1>0, <3>1, NilAssumption DEF DelegationRec
    <3>3. del' = [del EXCEPT ![owner][v] = x]
      BY <2>2, <3>1 DEF registerValidatorWithoutChecks
    <3>4. (IF x = Nil THEN 0 ELSE x.stake) = StakeOf(owner, v) + amount /\ amount \in Int
      BY <2>1, <3>2
    <3> QED
      BY <1>0, <3>2, <3>3, <3>4, DelStored
  <2>3. CASE ~(amount > 0)
    <3>1. del' = del /\ amount = 0
      BY <2>3 DEF registerValidatorWithoutChecks
    <3>2. \A e \in Delegator, w \in Validator : StakeOf(e, w)' = StakeOf(e, w) /\ StakeOf(e, w) \in Nat
      BY <1>0, <3>1, StakeTypes DEF StakeOf, Delegated
    <3> QED
      BY <3>1, <3>2 DEF GrowsFor
  <2> QED
    BY <2>2, <2>3
<1> QED
  BY <1>4, <1>5

(* The stake of a delegation that is credited, or debited.                 *)
LEMMA CreditMoves ==
  ASSUME LedgerOK, NEW d \in Delegator, NEW v \in Validator, NEW amount \in Nat, block \in Blocks
  PROVE  /\ Credited(d, v, amount) \in DelegationRec /\ Credited(d, v, amount) # Nil
         /\ Credited(d, v, amount).stake = StakeOf(d, v) + amount
<1>1. StakeOf(d, v) \in Nat
  BY StakeTypes
<1>2. Credited(d, v, amount) = [stake |-> amount + StakeOf(d, v), last |-> block]
  BY DEF Credited, StakeOf
<1>3. Credited(d, v, amount) \in DelegationRec /\ Credited(d, v, amount).stake = StakeOf(d, v) + amount
  BY <1>1, <1>2 DEF DelegationRec
<1> QED
  BY <1>3, NilAssumption

(* What is taken from a delegation is its difference.                      *)
LEMMA DebitMoves ==
  ASSUME LedgerOK, NEW d \in Delegator, NEW v \in Validator, NEW amount \in Nat, block \in Blocks,
         MayWithdraw(d, v, amount)
  PROVE  /\ Debited(d, v, amount) \in DelegationRec \cup {Nil}
         /\ (IF Debited(d, v, amount) = Nil THEN 0 ELSE Debited(d, v, amount).stake)
              = StakeOf(d, v) + (-amount)
<1>1. del[d][v] \in DelegationRec /\ Delegated(d, v) /\ amount <= del[d][v].stake
  BY DEF LedgerOK, Delegated, MayWithdraw
<1>2. del[d][v].stake \in Nat /\ StakeOf(d, v) = del[d][v].stake
  BY <1>1 DEF DelegationRec, StakeOf
<1>3. CASE del[d][v].stake = amount
  BY <1>2, <1>3 DEF Debited
<1>4. CASE del[d][v].stake # amount
  <2>1. PICK x : x = Debited(d, v, amount)
    OBVIOUS
  <2>2. x = [stake |-> del[d][v].stake - amount, last |-> block]
    BY <1>4, <2>1 DEF Debited
  <2>3. x \in DelegationRec /\ x.stake = del[d][v].stake - amount
    BY <1>1, <1>2, <2>2 DEF DelegationRec
  <2>4. x # Nil
    BY <2>3, NilAssumption
  <2> QED
    BY <1>2, <2>1, <2>3, <2>4
<1> QED
  BY <1>3, <1>4

(* The stakes of the records the methods store.                            *)
LEMMA ValMoves ==
  ASSUME LedgerOK, block \in Blocks, NEW v \in Validator, Exists(v), CanSettle(v), NEW amount \in Nat
  PROVE  /\ ValCredited(v, amount).stake = ValidatorStake(v) + amount
         /\ ValCancelled(v, amount).stake = ValidatorStake(v) + amount
         /\ ValUndelegated(v, amount).stake = ValidatorStake(v) + (-amount)
         /\ ValidatorStake(v) = val[v].stake /\ val[v].stake \in Int
<1>1. PICK s : s = ValSettled(v)
  OBVIOUS
<1>2. s \in BoundedRec /\ s.stake = val[v].stake
  BY <1>1, SettleTypes
<1>3. s \in ValidatorRec
  BY <1>2 DEF BoundedRec
<1>4. ValidatorStake(v) = s.stake /\ s.stake \in Int
  BY <1>2, <1>3 DEF ValidatorStake, ValidatorRec
<1>5. ValCredited(v, amount).stake = s.stake + amount
  BY <1>1, <1>3 DEF ValCredited, ValidatorRec
<1>6. ValCancelled(v, amount).stake = s.stake + amount
  BY <1>1, <1>3 DEF ValCancelled, ValidatorRec
<1>7. ValUndelegated(v, amount).stake = s.stake - amount
  BY <1>1, <1>3 DEF ValUndelegated, ValidatorRec
<1> QED
  BY <1>2, <1>4, <1>5, <1>6, <1>7

(* delegate.                                                               *)
LEMMA DelegateMoves ==
  ASSUME IInv, NEW d \in Delegator, NEW v \in Validator, NEW amount \in Nat,
         delegate(d, v, amount)
  PROVE  Grows(v, amount) /\ GrowsFor(d, v, amount)
<1>0. LedgerOK /\ block \in Blocks /\ Exists(v) /\ CanSettle(v) /\ FitsMaximum(v, amount)
  BY DEF IInv, ControlOK, delegate, CanCredit
<1>1. /\ val' = [val EXCEPT ![v] = ValCredited(v, amount)]
      /\ del' = [del EXCEPT ![d][v] = Credited(d, v, amount)]
  BY DEF delegate
<1>2. ValCredited(v, amount) \in BoundedRec /\ ValCredited(v, amount).stake = ValidatorStake(v) + amount
  BY <1>0, ValRecTypes, ValMoves
<1>3. amount \in Int
  OBVIOUS
<1>4. Grows(v, amount)
  BY <1>0, <1>1, <1>2, <1>3, ValStored
<1>5. GrowsFor(d, v, amount)
  BY <1>0, <1>1, <1>3, CreditMoves, DelStored
<1> QED
  BY <1>4, <1>5

(* undelegate.                                                             *)
LEMMA UndelegateMoves ==
  ASSUME IInv, NEW d \in Delegator, NEW v \in Validator, NEW amount \in Nat,
         undelegate(d, v, amount)
  PROVE  Grows(v, -amount) /\ GrowsFor(d, v, -amount)
<1>0. LedgerOK /\ block \in Blocks /\ Exists(v) /\ CanSettle(v) /\ MayWithdraw(d, v, amount)
  BY DEF IInv, ControlOK, undelegate, CanClaim
<1>1. /\ val' = [val EXCEPT ![v] = ValUndelegated(v, amount)]
      /\ del' = [del EXCEPT ![d][v] = Debited(d, v, amount)]
  BY DEF undelegate
<1>2. /\ ValUndelegated(v, amount) \in BoundedRec
      /\ ValUndelegated(v, amount).stake = ValidatorStake(v) + (-amount)
  BY <1>0, ValRecTypes, ValMoves
<1>3. -amount \in Int
  OBVIOUS
<1>4. Grows(v, -amount)
  BY <1>0, <1>1, <1>2, <1>3, ValStored
<1>5. GrowsFor(d, v, -amount)
  BY <1>0, <1>1, <1>3, DebitMoves, DelStored
<1> QED
  BY <1>4, <1>5

(* A validator without stake is deleted.                                   *)
LEMMA DeleteKeeps ==
  ASSUME LedgerOK, NEW v \in Validator, Exists(v), val[v].stake = 0, val' = [val EXCEPT ![v] = Nil]
  PROVE  \A w \in Validator : ValidatorStake(w)' = ValidatorStake(w)
<1>1. val'[v] = Nil /\ \A w \in Validator : w # v => val'[w] = val[w]
  BY DEF LedgerOK
<1> QED
  BY <1>1 DEF ValidatorStake, Exists

(* A validator is stored with the same stake.                              *)
LEMMA SameStake ==
  ASSUME LedgerOK, NEW v \in Validator, Exists(v), NEW r \in BoundedRec, r.stake = val[v].stake,
         val' = [val EXCEPT ![v] = r]
  PROVE  \A w \in Validator : ValidatorStake(w)' = ValidatorStake(w)
<1>1. r # Nil
  BY NilAssumption DEF BoundedRec
<1>2. val'[v] = r /\ \A w \in Validator : w # v => val'[w] = val[w]
  BY DEF LedgerOK
<1> QED
  BY <1>1, <1>2 DEF ValidatorStake, Exists

(* Delegations that are not written keep their stakes.                     *)
LEMMA DelKept ==
  ASSUME del' = del
  PROVE  \A e \in Delegator, w \in Validator : StakeOf(e, w)' = StakeOf(e, w)
BY DEF StakeOf, Delegated

(* confirmUndelegate.                                                      *)
LEMMA ConfirmKeeps ==
  ASSUME IInv, NEW u \in und, confirmUndelegate(u)
  PROVE  StakesKept
<1>0. LedgerOK /\ u \in UndelegationRec /\ u.validator \in Validator
  BY DEF IInv, LedgerOK, UndelegationRec
<1>1. PICK v \in Validator : v = u.validator
  BY <1>0
<1>2. del' = del
  BY DEF confirmUndelegate
<1>3. \A w \in Validator : ValidatorStake(w)' = ValidatorStake(w)
  <2>1. CASE ~Exists(v)
    <3>1. val' = val
      BY <1>1, <2>1 DEF confirmUndelegate
    <3> QED
      BY <3>1 DEF ValidatorStake, Exists
  <2>2. CASE Exists(v) /\ Dec(val[v].undelegations) = 0 /\ val[v].stake = 0 /\ val[v].commissionPool = 0
    <3>1. val' = [val EXCEPT ![v] = Nil]
      BY <1>1, <2>2 DEF confirmUndelegate, DeleteValidator
    <3> QED
      BY <1>0, <2>2, <3>1, DeleteKeeps
  <2>3. CASE Exists(v) /\ ~(Dec(val[v].undelegations) = 0 /\ val[v].stake = 0 /\ val[v].commissionPool = 0)
    <3>1. val' = [val EXCEPT ![v].undelegations = Dec(val[v].undelegations)]
      BY <1>1, <2>3 DEF confirmUndelegate
    <3>2. PICK r : r = [val[v] EXCEPT !.undelegations = Dec(val[v].undelegations)]
      OBVIOUS
    <3>3. val[v] \in BoundedRec
      BY <1>0, <2>3 DEF LedgerOK, Exists
    <3>4. Dec(val[v].undelegations) \in Nat
      BY <3>3 DEF Dec, BoundedRec, ValidatorRec
    <3>5. r \in BoundedRec /\ r.stake = val[v].stake
      BY <3>2, <3>3, <3>4 DEF BoundedRec, ValidatorRec
    <3>6. val' = [val EXCEPT ![v] = r]
      BY <1>0, <3>1, <3>2 DEF LedgerOK
    <3> QED
      BY <1>0, <2>3, <3>5, <3>6, SameStake
  <2> QED
    BY <2>1, <2>2, <2>3
<1> QED
  BY <1>2, <1>3, DelKept DEF StakesKept

(* cancelUndelegate, accepted or rejected after its writes.                *)
LEMMA CancelMoves ==
  ASSUME IInv, NEW u \in und, cancelUndelegate(u)
  PROVE  /\ u.validator \in Validator /\ u.delegator \in Delegator /\ u.amount \in Nat
         /\ GrowsFor(u.delegator, u.validator, u.amount)
         /\ \/ /\ Grows(u.validator, u.amount) /\ delegated' = delegated + u.amount
               /\ eligible' = eligible + VotesDelta(u.validator, u.amount)
            \/ "cancel" \in defects' /\ UNCHANGED <<val, delegated, eligible>>
<1>0. LedgerOK /\ block \in Blocks /\ u \in UndelegationRec
  BY DEF IInv, LedgerOK, ControlOK
<1>1. PICK v, d, amount : v = u.validator /\ d = u.delegator /\ amount = u.amount
  OBVIOUS
<1>2. v \in Validator /\ d \in Delegator /\ amount \in Nat /\ amount \in Int
  BY <1>0, <1>1 DEF UndelegationRec
<1>3. Exists(v) /\ CanSettle(v) /\ del' = [del EXCEPT ![d][v] = Credited(d, v, amount)]
  BY <1>1 DEF cancelUndelegate, CanCredit
<1>4. GrowsFor(d, v, amount)
  BY <1>0, <1>2, <1>3, CreditMoves, DelStored
<1>5. CASE FitsMaximum(v, amount)
  <2>1. /\ val' = [val EXCEPT ![v] = ValCancelled(v, amount)] /\ delegated' = delegated + amount
        /\ eligible' = eligible + VotesDelta(v, amount)
    BY <1>1, <1>5 DEF cancelUndelegate
  <2>2. ValCancelled(v, amount) \in BoundedRec /\ ValCancelled(v, amount).stake = ValidatorStake(v) + amount
    BY <1>0, <1>2, <1>3, <1>5, ValRecTypes, ValMoves
  <2>3. Grows(v, amount)
    BY <1>0, <1>2, <2>1, <2>2, ValStored
  <2> QED
    BY <1>1, <1>2, <1>4, <2>1, <2>3
<1>6. CASE ~FitsMaximum(v, amount)
  <2>1. "cancel" \in defects' /\ UNCHANGED <<val, delegated, eligible>>
    BY <1>1, <1>6 DEF cancelUndelegate
  <2> QED
    BY <1>1, <1>2, <1>4, <2>1
<1> QED
  BY <1>5, <1>6

(* redelegate: the stake leaves one validator for another.                 *)
LEMMA RedelegateMoves ==
  ASSUME IInv, NEW d \in Delegator, NEW f \in Validator, NEW t \in Validator,
         NEW amount \in Nat, redelegate(d, f, t, amount)
  PROVE  /\ f # t
         /\ \A w \in Validator :
              ValidatorStake(w)' = IF w = f THEN ValidatorStake(w) - amount
                                   ELSE IF w = t THEN ValidatorStake(w) + amount
                                   ELSE ValidatorStake(w)
         /\ \A e \in Delegator, w \in Validator :
              StakeOf(e, w)' = IF e = d /\ w = f THEN StakeOf(e, w) - amount
                               ELSE IF e = d /\ w = t THEN StakeOf(e, w) + amount
                               ELSE StakeOf(e, w)
<1>0. /\ LedgerOK /\ block \in Blocks /\ f # t /\ Exists(f) /\ Exists(t) /\ CanClaim(d, f)
      /\ MayWithdraw(d, f, amount) /\ CanSettle(t) /\ CanSettle(f) /\ FitsMaximum(t, amount)
  BY DEF IInv, ControlOK, redelegate, CanCredit, CanClaim
<1>1. PICK x : x = ValLeft(f, amount)
  OBVIOUS
<1>2. PICK y : y = ValCredited(t, amount)
  OBVIOUS
<1>3. /\ val' = [val EXCEPT ![f] = x, ![t] = y]
      /\ del' = [del EXCEPT ![d][f] = Debited(d, f, amount), ![d][t] = Credited(d, t, amount)]
  BY <1>1, <1>2 DEF redelegate
<1>4. y \in BoundedRec /\ y.stake = ValidatorStake(t) + amount /\ y # Nil
  <2>1. y \in BoundedRec /\ y.stake = ValidatorStake(t) + amount
    BY <1>0, <1>2, ValRecTypes, ValMoves
  <2> QED
    BY <2>1, NilAssumption DEF BoundedRec
<1>5. (IF x = Nil THEN 0 ELSE x.stake) = ValidatorStake(f) - amount
  <2>1. PICK s : s = ValSettled(f)
    OBVIOUS
  <2>2. s \in BoundedRec /\ s.stake = val[f].stake
    BY <1>0, <2>1, SettleTypes
  <2>3. s \in ValidatorRec /\ val[f].stake \in Int /\ ValidatorStake(f) = val[f].stake /\ val[f].pool \in Nat
    BY <1>0, <2>2 DEF BoundedRec, ValidatorStake, ValidatorRec, LedgerOK, Exists
  <2>4. CASE ~EmptyAfter(f, amount)
    <3>1. x = [s EXCEPT !.stake = s.stake - amount]
      BY <1>1, <2>1, <2>4 DEF ValLeft
    <3>2. x \in ValidatorRec /\ x.stake = s.stake - amount
      <4>1. s.stake - amount \in Int
        BY <2>2, <2>3
      <4> QED
        BY <2>3, <3>1, <4>1 DEF ValidatorRec
    <3>3. x # Nil
      BY <3>2, NilAssumption
    <3> QED
      BY <2>2, <2>3, <3>2, <3>3
  <2>5. CASE EmptyAfter(f, amount)
    <3>1. ValidatorStake(f) - amount = 0
      BY <2>3, <2>5 DEF EmptyAfter
    <3>2. CASE val[f].undelegations = 0
      BY <1>1, <2>5, <3>1, <3>2 DEF ValLeft
    <3>3. CASE val[f].undelegations # 0
      <4>1. x = [s EXCEPT !.stake = 0, !.pool = val[f].pool]
        BY <1>1, <2>1, <2>5, <3>3 DEF ValLeft
      <4>2. x.stake = 0
        BY <2>3, <4>1 DEF ValidatorRec
      <4> QED
        BY <3>1, <4>2
    <3> QED
      BY <3>2, <3>3
  <2> QED
    BY <2>4, <2>5
<1>6. val'[f] = x /\ val'[t] = y /\ \A w \in Validator : w # f /\ w # t => val'[w] = val[w]
  BY <1>0, <1>3 DEF LedgerOK
<1>7. ASSUME NEW w \in Validator
      PROVE  ValidatorStake(w)' = IF w = f THEN ValidatorStake(w) - amount
                                  ELSE IF w = t THEN ValidatorStake(w) + amount
                                  ELSE ValidatorStake(w)
  BY <1>0, <1>4, <1>5, <1>6 DEF ValidatorStake, Exists
<1>8. PICK p : p = Debited(d, f, amount)
  OBVIOUS
<1>9. PICK q : q = Credited(d, t, amount)
  OBVIOUS
<1>10. /\ (IF p = Nil THEN 0 ELSE p.stake) = StakeOf(d, f) - amount
       /\ q # Nil /\ q.stake = StakeOf(d, t) + amount
  <2>1. StakeOf(d, f) \in Nat
    BY <1>0, StakeTypes
  <2>2. StakeOf(d, f) + (-amount) = StakeOf(d, f) - amount
    BY <2>1
  <2> QED
    BY <1>0, <1>8, <1>9, <2>2, DebitMoves, CreditMoves
<1>11. /\ del'[d][f] = p /\ del'[d][t] = q
       /\ \A e \in Delegator, w \in Validator :
            ~(e = d /\ w = f) /\ ~(e = d /\ w = t) => del'[e][w] = del[e][w]
  BY <1>0, <1>3, <1>8, <1>9 DEF LedgerOK
<1>12. ASSUME NEW e \in Delegator, NEW w \in Validator
       PROVE  StakeOf(e, w)' = IF e = d /\ w = f THEN StakeOf(e, w) - amount
                               ELSE IF e = d /\ w = t THEN StakeOf(e, w) + amount
                               ELSE StakeOf(e, w)
  BY <1>0, <1>10, <1>11 DEF StakeOf, Delegated
<1> QED
  BY <1>0, <1>7, <1>12

(* claimRewards and claimAllRewards.                                       *)
LEMMA ClaimKeeps ==
  ASSUME IInv, NEW d \in Delegator, NEW from \in SUBSET Validator, ClaimFrom(d, from)
  PROVE  StakesKept
<1>0. LedgerOK /\ block \in Blocks
  BY DEF IInv, ControlOK
<1>1. ASSUME NEW w \in Validator PROVE ValidatorStake(w)' = ValidatorStake(w)
  <2>1. val'[w] = IF w \in from THEN ValSettled(w) ELSE val[w]
    BY DEF ClaimFrom
  <2>2. CASE w \notin from
    BY <2>1, <2>2 DEF ValidatorStake, Exists
  <2>3. CASE w \in from
    <3>1. (Exists(w) \/ Has(w, block)) /\ CanSettle(w)
      BY <2>3 DEF ClaimFrom, CanClaim, CanSettle
    <3>2. CASE Exists(w)
      <4>1. ValSettled(w) \in BoundedRec /\ ValSettled(w).stake = val[w].stake
        BY <1>0, <3>1, <3>2, SettleTypes
      <4>2. ValSettled(w) # Nil
        BY <4>1, NilAssumption DEF BoundedRec
      <4> QED
        BY <2>1, <2>3, <3>2, <4>1, <4>2 DEF ValidatorStake, Exists
    <3>3. CASE ~Exists(w)
      BY <2>1, <2>3, <3>1, <3>3 DEF ValSettled, ValidatorStake, Exists
    <3> QED
      BY <3>2, <3>3
  <2> QED
    BY <2>2, <2>3
<1>2. ASSUME NEW e \in Delegator, NEW w \in Validator PROVE StakeOf(e, w)' = StakeOf(e, w)
  <2>1. del' = [del EXCEPT ![d] = [v \in Validator |->
              IF v \in from THEN [stake |-> del[d][v].stake, last |-> block] ELSE del[d][v]]]
    BY DEF ClaimFrom
  <2>2. CASE e = d /\ w \in from
    <3>1. PICK x : x = [stake |-> del[d][w].stake, last |-> block]
      OBVIOUS
    <3>2. Delegated(d, w) /\ del'[d][w] = x
      BY <1>0, <2>1, <2>2, <3>1 DEF ClaimFrom, LedgerOK
    <3>3. x.stake = del[d][w].stake /\ x \in DelegationRec
      BY <1>0, <3>1, <3>2 DEF LedgerOK, Delegated, DelegationRec
    <3>4. x # Nil
      BY <3>3, NilAssumption
    <3> QED
      BY <2>2, <3>2, <3>3, <3>4 DEF StakeOf, Delegated
  <2>3. CASE ~(e = d /\ w \in from)
    <3>1. del'[e][w] = del[e][w]
      BY <1>0, <2>1, <2>3 DEF LedgerOK
    <3> QED
      BY <3>1 DEF StakeOf, Delegated
  <2> QED
    BY <2>2, <2>3
<1> QED
  BY <1>1, <1>2 DEF StakesKept

(* claimCommissionRewards and setCommission.                               *)
LEMMA CommissionKeeps ==
  ASSUME IInv, NEW d \in Delegator, NEW v \in Validator, NEW c \in Nat,
         claimCommissionRewards(d, v) \/ setCommission(d, v, c)
  PROVE  StakesKept
<1>0. LedgerOK /\ block \in Blocks /\ Exists(v) /\ del' = del
  BY DEF IInv, ControlOK, claimCommissionRewards, setCommission
<1>r. val[v] \in BoundedRec
  BY <1>0 DEF LedgerOK, Exists
<1>1. \A w \in Validator : ValidatorStake(w)' = ValidatorStake(w)
  <2>1. CASE claimCommissionRewards(d, v) /\ val[v].stake = 0 /\ val[v].undelegations = 0
    <3>1. val' = [val EXCEPT ![v] = Nil]
      BY <2>1 DEF claimCommissionRewards, DeleteValidator
    <3> QED
      BY <1>0, <2>1, <3>1, DeleteKeeps
  <2>2. CASE claimCommissionRewards(d, v) /\ ~(val[v].stake = 0 /\ val[v].undelegations = 0)
    <3>1. val' = [val EXCEPT ![v].commissionPool = 0]
      BY <2>2 DEF claimCommissionRewards
    <3>2. PICK r : r = [val[v] EXCEPT !.commissionPool = 0]
      OBVIOUS
    <3>3. r \in BoundedRec /\ r.stake = val[v].stake
      BY <1>r, <3>2 DEF BoundedRec, ValidatorRec
    <3>4. val' = [val EXCEPT ![v] = r]
      BY <1>0, <3>1, <3>2 DEF LedgerOK
    <3> QED
      BY <1>0, <3>3, <3>4, SameStake
  <2>3. CASE setCommission(d, v, c)
    <3>1. val' = [val EXCEPT ![v].commission = c, ![v].lastCommissionChange = block]
      BY <2>3 DEF setCommission
    <3>2. PICK r : r = [val[v] EXCEPT !.commission = c, !.lastCommissionChange = block]
      OBVIOUS
    <3>3. c \in 0..MaxCommission
      <4>1. c <= MaxCommission
        BY <2>3 DEF setCommission
      <4> QED
        BY <4>1 DEF MaxCommission, BasisPointsScale
    <3>4. r \in BoundedRec /\ r.stake = val[v].stake
      BY <1>0, <1>r, <3>2, <3>3 DEF BoundedRec, ValidatorRec
    <3>5. val' = [val EXCEPT ![v] = r]
      BY <1>0, <3>1, <3>2 DEF LedgerOK
    <3> QED
      BY <1>0, <3>4, <3>5, SameStake
  <2> QED
    BY <2>1, <2>2, <2>3
<1> QED
  BY <1>0, <1>1, DelKept DEF StakesKept

(* Rewards go to the pools.                                                *)
LEMMA RewardsKeepStakes ==
  ASSUME LedgerOK, NEW v \in Validator, Exists(v), NEW reward \in Nat, NEW fees \in Nat,
         AddValidatorRewards(v, reward, fees)
  PROVE  \A w \in Validator : ValidatorStake(w)' = ValidatorStake(w) /\ (Exists(w)' <=> Exists(w))
<1>1. PICK c : c = (reward * val[v].commission) \div MaxCommission
  OBVIOUS
<1>2. val[v] \in BoundedRec /\ val[v] \in ValidatorRec
  BY DEF LedgerOK, Exists, BoundedRec
<1>3. PICK r : r = [val[v] EXCEPT !.commissionPool = val[v].commissionPool + c + fees,
                                  !.pool = val[v].pool + (reward - c)]
  OBVIOUS
<1>4. val' = [val EXCEPT ![v].commissionPool = @ + c + fees, ![v].pool = @ + (reward - c)]
  BY <1>1 DEF AddValidatorRewards
<1>5. val' = [val EXCEPT ![v] = r]
  BY <1>3, <1>4 DEF LedgerOK
<1>6. r \in BoundedRec /\ r.stake = val[v].stake
  <2>1. /\ val[v].commission \in 0..MaxCommission
        /\ val[v].commissionPool \in Nat /\ val[v].pool \in Nat
    BY <1>2 DEF ValidatorRec
  <2>2. c \in 0..reward
    BY <1>1, <2>1, ShareBound
  <2>3. val[v].commissionPool + c + fees \in Nat /\ val[v].pool + (reward - c) \in Nat
    BY <2>1, <2>2
  <2> QED
    BY <1>2, <1>3, <2>3 DEF BoundedRec, ValidatorRec
<1>7. \A w \in Validator : ValidatorStake(w)' = ValidatorStake(w)
  BY <1>5, <1>6, SameStake
<1>8. r # Nil
  BY <1>6, NilAssumption DEF BoundedRec
<1>9. \A w \in Validator : Exists(w)' <=> Exists(w)
  BY <1>5, <1>8 DEF Exists, LedgerOK
<1> QED
  BY <1>7, <1>9

(* undelegateInternal.                                                     *)
LEMMA EvictionMoves ==
  ASSUME IInv, NEW d \in Delegator, undelegateInternal(d)
  PROVE  \E v \in Validator :
           /\ v = loop.current /\ Exists(v) /\ Delegated(d, v)
           /\ Grows(v, -del[d][v].stake) /\ GrowsFor(d, v, -del[d][v].stake)
           /\ delegated' = delegated + (-del[d][v].stake) /\ del[d][v].stake \in Nat
<1>0. LedgerOK /\ LoopType /\ LoopOK /\ CountsOK
  BY DEF IInv
<1>1. PICK v : v = loop.current
  OBVIOUS
<1>2. v # Nil /\ d \in loop.page
  BY <1>1 DEF undelegateInternal
<1>3. v \in Validator /\ Exists(v) /\ Delegated(d, v)
  <2>1. v \in Validator \cup {Nil}
    BY <1>0, <1>1, Zenon DEF LoopType
  <2> QED
    BY <1>0, <1>1, <1>2, <2>1 DEF LoopOK
<1>4. PICK amount : amount = del[d][v].stake
  OBVIOUS
<1>5. amount \in Nat /\ -amount \in Int /\ StakeOf(d, v) = amount /\ StakeOf(d, v) + (-amount) = 0
  BY <1>0, <1>3, <1>4 DEF LedgerOK, Delegated, DelegationRec, StakeOf
<1>6. PICK r : r = WithoutDelegation(v, amount)
  OBVIOUS
<1>7. /\ val' = [val EXCEPT ![v] = r] /\ del' = [del EXCEPT ![d][v] = Nil]
      /\ delegated' = delegated - amount
  BY <1>1, <1>4, <1>6 DEF undelegateInternal
<1>8. r \in BoundedRec /\ r.stake = ValidatorStake(v) + (-amount)
  <2>1. val[v] \in BoundedRec
    BY <1>0, <1>3 DEF LedgerOK, Exists
  <2>2. /\ val[v].stake - amount \in Int /\ val[v].stake - amount <= ValidatorMaximumStake
        /\ val[v].undelegations \in Nat /\ val[v].stake \in Int
    BY <1>5, <2>1, ConfigAssumption DEF BoundedRec, ValidatorRec
  <2>3. Inc(val[v].undelegations) \in Nat
    BY <2>2, ConfigAssumption DEF Inc
  <2>4. r = [val[v] EXCEPT !.stake = val[v].stake - amount,
                           !.undelegations = Inc(val[v].undelegations)]
    BY <1>6 DEF WithoutDelegation
  <2>5. r \in BoundedRec /\ r.stake = val[v].stake - amount
    BY <2>1, <2>2, <2>3, <2>4 DEF BoundedRec, ValidatorRec
  <2> QED
    BY <1>3, <1>5, <2>2, <2>5 DEF ValidatorStake
<1>9. Grows(v, -amount)
  BY <1>0, <1>3, <1>5, <1>7, <1>8, ValStored
<1>10. GrowsFor(d, v, -amount)
  BY <1>0, <1>3, <1>5, <1>7, DelStored
<1>11. delegated' = delegated + (-amount)
  BY <1>0, <1>5, <1>7 DEF CountsOK
<1> QED
  BY <1>1, <1>3, <1>4, <1>5, <1>9, <1>10, <1>11

-----------------------------------------------------------------------------
(* The stake of a validator is the sum of the delegations to it.           *)

StakeTrue ==
  /\ \A v \in Validator : ValidatorStake(v) = StakeSum(v)
  /\ delegated = StakeTotal

(* A delegation and its validator grow together.                           *)
LEMMA GrowTogether ==
  ASSUME LedgerOK, LedgerOK', StakeTrue, NEW d \in Delegator, NEW v \in Validator, NEW amount \in Int,
         Grows(v, amount), GrowsFor(d, v, amount), delegated' = delegated + amount
  PROVE  StakeTrue'
<1>1. ASSUME NEW w \in Validator PROVE ValidatorStake(w)' = StakeSum(w)'
  <2>1. CASE w = v
    <3>1. StakeSum(v)' = StakeSum(v) + amount
      BY SumGrows DEF GrowsFor
    <3> QED
      BY <2>1, <3>1 DEF Grows, StakeTrue
  <2>2. CASE w # v
    <3>1. StakeSum(w)' = StakeSum(w)
      BY <2>2, SumKept DEF GrowsFor
    <3> QED
      BY <2>2, <3>1 DEF Grows, StakeTrue
  <2> QED
    BY <2>1, <2>2
<1>2. delegated' = StakeTotal'
  BY TotalGrows DEF StakeTrue
<1> QED
  BY <1>1, <1>2 DEF StakeTrue

(* Nothing grows.                                                          *)
LEMMA KeptTogether ==
  ASSUME StakeTrue, StakesKept, delegated' = delegated
  PROVE  StakeTrue'
<1>1. ASSUME NEW w \in Validator PROVE ValidatorStake(w)' = StakeSum(w)'
  BY SumKept DEF StakesKept, StakeTrue
<1>2. StakeTotal' = StakeTotal
  BY TotalKept DEF StakesKept
<1> QED
  BY <1>1, <1>2 DEF StakeTrue

(* redelegate takes from one validator what it gives to another.           *)
LEMMA RedelegateTogether ==
  ASSUME IInv, LedgerOK', StakeTrue, NEW d \in Delegator, NEW f \in Validator, NEW t \in Validator,
         NEW amount \in Nat, redelegate(d, f, t, amount)
  PROVE  StakeTrue'
<1>0. LedgerOK /\ delegated' = delegated
  BY DEF IInv, redelegate
<1>1. /\ f # t
      /\ \A w \in Validator :
           ValidatorStake(w)' = IF w = f THEN ValidatorStake(w) - amount
                                ELSE IF w = t THEN ValidatorStake(w) + amount
                                ELSE ValidatorStake(w)
      /\ \A e \in Delegator, w \in Validator :
           StakeOf(e, w)' = IF e = d /\ w = f THEN StakeOf(e, w) - amount
                            ELSE IF e = d /\ w = t THEN StakeOf(e, w) + amount
                            ELSE StakeOf(e, w)
  BY RedelegateMoves
<1>2. ASSUME NEW w \in Validator PROVE ValidatorStake(w)' = StakeSum(w)'
  <2>t. /\ ValidatorStake(w) \in Int /\ ValidatorStake(w) = StakeSum(w) /\ -amount \in Int /\ amount \in Int
        /\ \A e \in Delegator : StakeOf(e, w) \in Nat
    BY <1>0, StakeTypes DEF StakeTrue
  <2>1. CASE w = f
    <3>1. \A e \in Delegator : StakeOf(e, w)' = IF e = d THEN StakeOf(e, w) + (-amount) ELSE StakeOf(e, w)
      BY <1>1, <2>1, <2>t
    <3>2. StakeSum(w)' = StakeSum(w) + (-amount)
      BY <1>0, <2>t, <3>1, SumGrows
    <3> QED
      BY <1>1, <2>1, <2>t, <3>2
  <2>2. CASE w = t
    <3>1. \A e \in Delegator : StakeOf(e, w)' = IF e = d THEN StakeOf(e, w) + amount ELSE StakeOf(e, w)
      BY <1>1, <2>2
    <3>2. StakeSum(w)' = StakeSum(w) + amount
      BY <1>0, <2>t, <3>1, SumGrows
    <3> QED
      BY <1>1, <2>2, <2>t, <3>2
  <2>3. CASE w # f /\ w # t
    <3>1. StakeSum(w)' = StakeSum(w)
      BY <1>1, <2>3, SumKept
    <3> QED
      BY <1>1, <2>3, <2>t, <3>1
  <2> QED
    BY <2>1, <2>2, <2>3
<1>3. StakeTotal' = StakeTotal
  <2>1. PICK g : g = [w \in Validator |-> ValidatorStake(w)]
    OBVIOUS
  <2>2. PICK h : h = [w \in Validator |-> IF w = f THEN ValidatorStake(w) - amount ELSE ValidatorStake(w)]
    OBVIOUS
  <2>3. PICK k : k = [w \in Validator |-> ValidatorStake(w)']
    OBVIOUS
  <2>4. \A w \in Validator : ValidatorStake(w) \in Int
    BY <1>0, StakeTypes
  <2>5. /\ \A w \in Validator : g[w] \in Int /\ h[w] \in Int /\ k[w] \in Int
        /\ \A w \in Validator : (w # f => h[w] = g[w]) /\ (w # t => k[w] = h[w])
        /\ h[f] = g[f] - amount /\ k[t] = h[t] + amount
    BY <1>1, <2>1, <2>2, <2>3, <2>4
  <2>6. SumFunctionOnSet(h, Validator) = SumFunctionOnSet(g, Validator) + h[f] - g[f]
    BY <2>5, InputAssumption, SumChange
  <2>7. SumFunctionOnSet(k, Validator) = SumFunctionOnSet(h, Validator) + k[t] - h[t]
    <3>1. \A w \in Validator : h[w] \in Int /\ k[w] \in Int /\ (w # t => k[w] = h[w])
      BY <2>5
    <3> QED
      BY <3>1, InputAssumption, SumChange
  <2>8. SumFunctionOnSet(g, Validator) \in Int
    BY <2>5, InputAssumption, SumInt
  <2>9. SumFunctionOnSet(k, Validator) = SumFunctionOnSet(g, Validator)
    BY <2>5, <2>6, <2>7, <2>8
  <2> QED
    BY <2>1, <2>3, <2>9 DEF StakeTotal
<1> QED
  BY <1>0, <1>2, <1>3 DEF StakeTrue

(* What a step does to the stakes: nothing, or one delegation grows with   *)
(* its validator, or one is moved; or it is a rejected cancellation.       *)
StakeStep ==
  \/ StakesKept /\ delegated' = delegated
  \/ \E d \in Delegator, v \in Validator, amount \in Int :
       Grows(v, amount) /\ GrowsFor(d, v, amount) /\ delegated' = delegated + amount
  \/ \E d \in Delegator, f \in Validator, t \in Validator, amount \in Nat : redelegate(d, f, t, amount)
  \/ "cancel" \in defects'

(* Steps that write neither validators nor delegations.                    *)
LEMMA QuietStakes ==
  ASSUME UNCHANGED <<val, del, delegated>>
  PROVE  StakeStep
<1>1. StakesKept
  BY DelKept DEF StakesKept, ValidatorStake, Exists
<1> QED
  BY <1>1 DEF StakeStep

(* The calls of the contract.                                              *)
LEMMA TransactionStakes ==
  ASSUME IInv, LedgerOK', Transaction
  PROVE  StakeStep /\ defects \subseteq defects'
<1>0. Amounts \subseteq Nat /\ Commissions \subseteq Nat /\ delegated \in Int
  BY InputAssumption DEF IInv, CountsOK
<1>1. ASSUME NEW v \in Validator, NEW d \in Delegator, NEW a \in Amounts,
             NEW c \in Commissions, registerValidator(v, d, a, c)
      PROVE  StakeStep /\ defects \subseteq defects'
  <2>1. a \in Nat /\ c \in Nat /\ a \in Int /\ registerValidatorWithoutChecks(v, d, a, c)
    BY <1>0, <1>1 DEF registerValidator
  <2>2. delegated' = delegated + a /\ defects' = defects
    BY <2>1 DEF registerValidatorWithoutChecks
  <2>3. Grows(v, a) /\ GrowsFor(d, v, a)
    BY <2>1, RegisterMoves
  <2> QED
    BY <2>1, <2>2, <2>3 DEF StakeStep
<1>2. ASSUME NEW d \in Delegator, NEW v \in Validator, NEW a \in Amounts, Delegate(d, v, a)
      PROVE  StakeStep /\ defects \subseteq defects'
  <2>1. a \in Nat /\ a \in Int /\ delegate(d, v, a)
    BY <1>0, <1>2 DEF Delegate
  <2>2. delegated' = delegated + a /\ defects' = defects
    BY <2>1 DEF delegate
  <2>3. Grows(v, a) /\ GrowsFor(d, v, a)
    BY <2>1, DelegateMoves
  <2> QED
    BY <2>1, <2>2, <2>3 DEF StakeStep
<1>3. ASSUME NEW d \in Delegator, NEW v \in Validator, NEW a \in Amounts, undelegate(d, v, a)
      PROVE  StakeStep /\ defects \subseteq defects'
  <2>1. a \in Nat /\ -a \in Int
    BY <1>0
  <2>2. delegated' = delegated - a /\ defects' = defects
    BY <1>3 DEF undelegate
  <2>3. Grows(v, -a) /\ GrowsFor(d, v, -a)
    BY <1>3, <2>1, UndelegateMoves
  <2>4. delegated' = delegated + (-a)
    BY <1>0, <2>1, <2>2
  <2> QED
    BY <2>1, <2>2, <2>3, <2>4 DEF StakeStep
<1>4. ASSUME NEW d \in Delegator, NEW v \in Validator, NEW a \in Amounts,
             NEW t \in Validator, redelegate(d, v, t, a)
      PROVE  StakeStep /\ defects \subseteq defects'
  <2>1. a \in Nat
    BY <1>0
  <2>2. defects \subseteq defects'
    BY <1>4 DEF redelegate
  <2> QED
    BY <1>4, <2>1, <2>2 DEF StakeStep
<1>5. ASSUME NEW d \in Delegator, NEW from \in SUBSET Validator, ClaimFrom(d, from)
      PROVE  StakeStep /\ defects \subseteq defects'
  <2>1. StakesKept
    BY <1>5, ClaimKeeps
  <2>2. delegated' = delegated /\ defects' = defects
    BY <1>5 DEF ClaimFrom
  <2> QED
    BY <2>1, <2>2 DEF StakeStep
<1>6. ASSUME NEW d \in Delegator, NEW v \in Validator, claimCommissionRewards(d, v)
      PROVE  StakeStep /\ defects \subseteq defects'
  <2>1. StakesKept
    BY <1>6, CommissionKeeps
  <2>2. delegated' = delegated /\ defects' = defects
    BY <1>6 DEF claimCommissionRewards
  <2> QED
    BY <2>1, <2>2 DEF StakeStep
<1>7. ASSUME NEW d \in Delegator, NEW v \in Validator, NEW c \in Commissions, setCommission(d, v, c)
      PROVE  StakeStep /\ defects \subseteq defects'
  <2>1. StakesKept
    BY <1>0, <1>7, CommissionKeeps
  <2>2. delegated' = delegated /\ defects' = defects
    BY <1>7 DEF setCommission
  <2> QED
    BY <2>1, <2>2 DEF StakeStep
<1>8. ASSUME NEW u \in und, confirmUndelegate(u)
      PROVE  StakeStep /\ defects \subseteq defects'
  <2>1. StakesKept
    BY <1>8, ConfirmKeeps
  <2>2. delegated' = delegated /\ defects' = defects
    BY <1>8 DEF confirmUndelegate
  <2> QED
    BY <2>1, <2>2 DEF StakeStep
<1>9. ASSUME NEW u \in und, cancelUndelegate(u)
      PROVE  StakeStep /\ defects \subseteq defects'
  <2>1. defects \subseteq defects'
    BY <1>9 DEF cancelUndelegate
  <2>2. /\ u.validator \in Validator /\ u.delegator \in Delegator /\ u.amount \in Nat
        /\ GrowsFor(u.delegator, u.validator, u.amount)
        /\ \/ Grows(u.validator, u.amount) /\ delegated' = delegated + u.amount
           \/ "cancel" \in defects'
    BY <1>9, CancelMoves
  <2>3. u.amount \in Int
    BY <2>2
  <2> QED
    BY <2>1, <2>2, <2>3 DEF StakeStep
<1>10. ASSUME NEW d \in Delegator, NEW v \in Validator, claimRewards(d, v)
       PROVE  StakeStep /\ defects \subseteq defects'
  <2>1. {v} \in SUBSET Validator
    OBVIOUS
  <2> QED
    BY <1>5, <1>10, <2>1 DEF claimRewards
<1>11. ASSUME NEW d \in Delegator, claimAllRewards(d)
       PROVE  StakeStep /\ defects \subseteq defects'
  BY <1>5, <1>11, ClaimsSome
<1> QED
  BY <1>1, <1>2, <1>3, <1>4, <1>6, <1>7, <1>8, <1>9, <1>10, <1>11, Zenon DEF Transaction

(* Genesis, the distribution of rewards and the penalties.                 *)
LEMMA OtherStakes ==
  ASSUME IInv, LedgerOK', Genesis \/ Distribution \/ Penalties \/ EndBlock
  PROVE  StakeStep /\ defects \subseteq defects'
<1>0. Amounts \subseteq Nat /\ Commissions \subseteq Nat /\ Rewards \subseteq Nat /\ LedgerOK
  BY InputAssumption DEF IInv
<1>q. ASSUME UNCHANGED <<ledger, defects>> PROVE StakeStep /\ defects \subseteq defects'
  BY <1>q, QuietStakes DEF ledger
<1>1. ASSUME NEW v \in Validator, NEW d \in Delegator, NEW c \in Commissions, GenesisValidator(v, d, c)
      PROVE  StakeStep /\ defects \subseteq defects'
  <2>1. c \in Nat /\ 0 \in Int /\ 0 \in Nat /\ registerValidatorWithoutChecks(v, d, 0, c)
    BY <1>0, <1>1 DEF GenesisValidator
  <2>2. delegated' = delegated + 0 /\ defects' = defects
    BY <2>1 DEF registerValidatorWithoutChecks
  <2>3. Grows(v, 0) /\ GrowsFor(d, v, 0)
    BY <2>1, RegisterMoves
  <2> QED
    BY <2>1, <2>2, <2>3 DEF StakeStep
<1>2. ASSUME NEW v \in Validator, NEW d \in Delegator, NEW a \in Amounts, GenesisDelegation(d, v, a)
      PROVE  StakeStep /\ defects \subseteq defects'
  <2>1. a \in Nat /\ a \in Int /\ delegate(d, v, a)
    BY <1>0, <1>2 DEF GenesisDelegation
  <2>2. delegated' = delegated + a /\ defects' = defects
    BY <2>1 DEF delegate
  <2>3. Grows(v, a) /\ GrowsFor(d, v, a)
    BY <2>1, DelegateMoves
  <2> QED
    BY <2>1, <2>2, <2>3 DEF StakeStep
<1>3. CASE EndGenesis \/ EndBlock \/ EndDistribution \/ EndResume \/ EndScan \/ EndEviction \/ EndPenalties
  BY <1>3, <1>q DEF EndGenesis, EndBlock, EndDistribution, EndResume, EndScan, EndEviction, EndPenalties
<1>4. ASSUME NEW listed \in SUBSET Validator, NEW author \in Validator,
             NEW r \in Rewards, DistributeRewards(listed, author, r)
      PROVE  StakeStep /\ defects \subseteq defects'
  <2>1. del' = del /\ delegated' = delegated /\ defects' = defects
    BY <1>4 DEF DistributeRewards
  <2>2. \A w \in Validator : ValidatorStake(w)' = ValidatorStake(w)
    <3>1. CASE r > 0 /\ Exists(author)
      <4>1. AddValidatorRewards(author, r, 0) /\ r \in Nat /\ 0 \in Nat
        BY <1>0, <1>4, <3>1 DEF DistributeRewards
      <4> QED
        BY <1>0, <3>1, <4>1, RewardsKeepStakes
    <3>2. CASE ~(r > 0 /\ Exists(author))
      <4>1. val' = val
        BY <1>4, <3>2 DEF DistributeRewards
      <4> QED
        BY <4>1 DEF ValidatorStake, Exists
    <3> QED
      BY <3>1, <3>2
  <2> QED
    BY <2>1, <2>2, DelKept DEF StakeStep, StakesKept
<1>5. ASSUME NEW v \in Validator, NEW active \in BOOLEAN, NEW r \in Rewards,
             NEW f \in Rewards, RewardValidator(v, active, r, f)
      PROVE  StakeStep /\ defects \subseteq defects'
  <2>1. del' = del /\ delegated' = delegated /\ defects \subseteq defects'
    BY <1>5 DEF RewardValidator
  <2>2. \A w \in Validator : ValidatorStake(w)' = ValidatorStake(w)
    <3>1. CASE Exists(v)
      <4>1. AddValidatorRewards(v, r, f) /\ r \in Nat /\ f \in Nat
        BY <1>0, <1>5, <3>1 DEF RewardValidator
      <4> QED
        BY <1>0, <3>1, <4>1, RewardsKeepStakes
    <3>2. CASE ~Exists(v)
      <4>1. val' = val
        BY <1>5, <3>2 DEF RewardValidator
      <4> QED
        BY <4>1 DEF ValidatorStake, Exists
    <3> QED
      BY <3>1, <3>2
  <2> QED
    BY <2>1, <2>2, DelKept DEF StakeStep, StakesKept
<1>6. ASSUME NEW v \in Validator, ResumeEviction(v) \/ StartEviction(v) \/ Scan(v)
      PROVE  StakeStep /\ defects \subseteq defects'
  <2>1. UNCHANGED <<ledger, defects>>
    BY <1>6, Zenon DEF ResumeEviction, StartEviction, forceEvictValidator, Scan
  <2> QED
    BY <1>q, <2>1
<1>7. ASSUME NEW d \in Delegator, undelegateInternal(d)
      PROVE  StakeStep /\ defects \subseteq defects'
  <2>1. PICK v \in Validator :
           /\ Grows(v, -del[d][v].stake) /\ GrowsFor(d, v, -del[d][v].stake)
           /\ delegated' = delegated + (-del[d][v].stake) /\ del[d][v].stake \in Nat
    BY <1>7, EvictionMoves
  <2>2. -del[d][v].stake \in Int
    BY <2>1
  <2>3. defects' = defects
    BY <1>7 DEF undelegateInternal
  <2> QED
    BY <2>1, <2>2, <2>3 DEF StakeStep
<1>8. CASE Genesis
  BY <1>1, <1>2, <1>3, <1>8, Zenon DEF Genesis
<1>9. CASE Distribution
  BY <1>3, <1>4, <1>5, <1>9, Zenon DEF Distribution
<1>10. CASE Penalties
  BY <1>3, <1>6, <1>7, <1>10, Zenon DEF Penalties
<1> QED
  BY <1>3, <1>8, <1>9, <1>10

(* Every step of the contract.                                             *)
LEMMA StepStakes ==
  ASSUME IInv, LedgerOK', [Next]_vars
  PROVE  StakeStep /\ defects \subseteq defects'
<1>1. CASE Next
  BY <1>1, TransactionStakes, OtherStakes, Zenon DEF Next
<1>2. CASE UNCHANGED vars
  BY <1>2, QuietStakes DEF vars, ledger
<1> QED
  BY <1>1, <1>2

(* No step repairs an error path that was taken.                           *)
LEMMA SparedBefore ==
  ASSUME NEW paths, defects \subseteq defects', Spared(paths)'
  PROVE  Spared(paths)
BY DEF Spared

(* Every step preserves the sums.                                          *)
LEMMA StepAccounts ==
  ASSUME IInv, IInv', StakeAccounted, [Next]_vars
  PROVE  StakeAccounted'
<1>0. LedgerOK /\ LedgerOK'
  BY DEF IInv
<1>1. StakeStep /\ defects \subseteq defects'
  BY <1>0, StepStakes
<1> SUFFICES ASSUME Spared({"cancel", "zero"})' PROVE StakeTrue'
  BY Zenon DEF StakeAccounted, StakeTrue, StakeSum, StakeTotal
<1>2. Spared({"cancel", "zero"})
  BY <1>1, SparedBefore
<1>3. StakeTrue
  BY <1>2, Zenon DEF StakeAccounted, StakeTrue, StakeSum, StakeTotal
<1>4. CASE StakesKept /\ delegated' = delegated
  BY <1>3, <1>4, KeptTogether
<1>5. CASE \E d \in Delegator, v \in Validator, amount \in Int :
             Grows(v, amount) /\ GrowsFor(d, v, amount) /\ delegated' = delegated + amount
  BY <1>0, <1>3, <1>5, GrowTogether
<1>6. CASE \E d \in Delegator, f \in Validator, t \in Validator, amount \in Nat : redelegate(d, f, t, amount)
  BY <1>0, <1>3, <1>6, RedelegateTogether
<1>7. CASE "cancel" \in defects'
  BY <1>7 DEF Spared
<1> QED
  BY <1>1, <1>4, <1>5, <1>6, <1>7 DEF StakeStep

(* At genesis there is no stake.                                           *)
LEMMA InitAccounts == Init => StakeAccounted
<1> SUFFICES ASSUME Init PROVE StakeTrue
  BY Zenon DEF StakeAccounted, StakeTrue, StakeSum, StakeTotal
<1>1. ASSUME NEW v \in Validator PROVE ValidatorStake(v) = 0 /\ StakeSum(v) = 0
  <2>1. PICK f : f = [d \in Delegator |-> StakeOf(d, v)]
    OBVIOUS
  <2>2. \A d \in Delegator : f[d] = 0
    BY <2>1 DEF Init, StakeOf, Delegated
  <2>3. SumFunctionOnSet(f, Delegator) = 0
    BY <2>2, InputAssumption, SumZero
  <2> QED
    BY <2>1, <2>3 DEF Init, ValidatorStake, Exists, StakeSum
<1>2. StakeTotal = 0
  <2>1. PICK f : f = [v \in Validator |-> ValidatorStake(v)]
    OBVIOUS
  <2>2. \A v \in Validator : f[v] = 0
    BY <1>1, <2>1
  <2>3. SumFunctionOnSet(f, Validator) = 0
    BY <2>2, InputAssumption, SumZero
  <2> QED
    BY <2>1, <2>3 DEF StakeTotal
<1> QED
  BY <1>1, <1>2 DEF StakeTrue, Init

(***************************************************************************)
(* The total stake of a validator is the sum of the delegations to it and  *)
(* amount_delegated the sum over validators, through every sequence of     *)
(* delegations, undelegations, cancellations, redelegations, evictions and *)
(* deletions, unless a cancellation was rejected for the maximum stake.    *)
(***************************************************************************)
THEOREM StakesAddUp == Spec => []StakeAccounted
<1>1. IInv /\ StakeAccounted /\ [Next]_vars => IInv' /\ StakeAccounted'
  BY StepPreserves, StepAccounts
<1> QED
  BY InitIInv, InitAccounts, <1>1, PTL DEF Spec

-----------------------------------------------------------------------------
(* eligible_vote_count is what a recount gives.                            *)

VotesTotal == SumFunctionOnSet([v \in Validator |-> Votes(v)], Validator)

VotesTrue == eligible = VotesTotal

(* Vote counts are not negative, even for a negative stake.                *)
LEMMA VoteCountIsNat ==
  ASSUME NEW stake \in Int, NEW f \in Nat
  PROVE  voteCountWithFactor(stake, f) \in Nat
<1>1. PICK eff : eff = (stake * f) \div BasisPointsScale
  OBVIOUS
<1>2. eff \in Int
  <2>1. stake * f \in Int
    OBVIOUS
  <2> QED
    BY <1>1, <2>1 DEF BasisPointsScale
<1>3. eff >= EligibilityBalanceThreshold => eff \div VoteEligibilityBalanceStep \in Nat
  <2>1. eff >= EligibilityBalanceThreshold => eff \in Nat
    BY <1>2, ConfigAssumption
  <2> QED
    BY <2>1, ConfigAssumption, DivIsNat
<1> QED
  BY <1>1, <1>3 DEF voteCountWithFactor

(* Neither without stake nor without power are there votes.                *)
LEMMA NoVotes ==
  /\ \A f \in Nat : voteCountWithFactor(0, f) = 0
  /\ \A stake \in Int : voteCountWithFactor(stake, 0) = 0
<1>1. ASSUME NEW f \in Nat PROVE voteCountWithFactor(0, f) = 0
  <2>1. (0 * f) \div BasisPointsScale = 0
    BY DEF BasisPointsScale
  <2>2. 0 \div VoteEligibilityBalanceStep = 0
    BY ConfigAssumption
  <2> QED
    BY <2>1, <2>2 DEF voteCountWithFactor
<1>2. ASSUME NEW stake \in Int PROVE voteCountWithFactor(stake, 0) = 0
  BY DEF voteCountWithFactor
<1> QED
  BY <1>1, <1>2

(* Voting power factors are natural numbers.                               *)
LEMMA FactorTypes ==
  ASSUME ActivityOK
  PROVE  \A v \in Validator : factor[v] \in Nat
<1>1. factor \in [Validator -> 0..BasisPointsScale]
  BY Zenon DEF ActivityOK
<1> QED
  BY <1>1, ScaledIsNat

(* The same after a step.                                                  *)
LEMMA FactorTypesNext ==
  ASSUME ActivityOK'
  PROVE  \A v \in Validator : factor'[v] \in Nat
<1>1. factor' \in [Validator -> 0..BasisPointsScale]
  BY Zenon DEF ActivityOK
<1> QED
  BY <1>1, ScaledIsNat

(* The votes of a validator are a natural number, before and after a step. *)
LEMMA VotesTypes ==
  ASSUME LedgerOK, ActivityOK, LedgerOK', ActivityOK'
  PROVE  \A v \in Validator : Votes(v) \in Nat /\ Votes(v)' \in Nat
<1> SUFFICES ASSUME NEW v \in Validator PROVE Votes(v) \in Nat /\ Votes(v)' \in Nat
  OBVIOUS
<1>1. /\ ValidatorStake(v) \in Int /\ ValidatorStake(v)' \in Int
      /\ factor[v] \in Nat /\ factor'[v] \in Nat
  BY StakeTypes, StakeTypesNext, FactorTypes, FactorTypesNext
<1>2. PICK p, q : p = ValidatorStake(v)' /\ q = factor'[v]
  OBVIOUS
<1>3. voteCountWithFactor(p, q) \in Nat /\ voteCountWithFactor(ValidatorStake(v), factor[v]) \in Nat
  BY <1>1, <1>2, VoteCountIsNat
<1> QED
  BY <1>2, <1>3 DEF Votes, voteCountWithFactor

(* The votes of a validator after a step, from its stake and its factor.   *)
LEMMA VotesNext ==
  ASSUME NEW v, NEW p, NEW q, ValidatorStake(v)' = p, factor'[v] = q
  PROVE  Votes(v)' = voteCountWithFactor(p, q)
BY DEF Votes, voteCountWithFactor

(* The recount follows the votes of one validator.                         *)
LEMMA RecountOne ==
  ASSUME LedgerOK, ActivityOK, LedgerOK', ActivityOK', NEW v \in Validator,
         \A w \in Validator : w # v => Votes(w)' = Votes(w)
  PROVE  VotesTotal' = VotesTotal + Votes(v)' - Votes(v) /\ VotesTotal \in Nat
<1>1. PICK f : f = [w \in Validator |-> Votes(w)]
  OBVIOUS
<1>2. PICK e : e = [w \in Validator |-> Votes(w)']
  OBVIOUS
<1>3. \A w \in Validator : f[w] \in Nat /\ e[w] \in Nat
  BY <1>1, <1>2, VotesTypes
<1>4. \A w \in Validator : f[w] \in Int /\ e[w] \in Int /\ (w # v => e[w] = f[w])
  BY <1>1, <1>2, <1>3
<1>5. SumFunctionOnSet(e, Validator) = SumFunctionOnSet(f, Validator) + e[v] - f[v]
  BY <1>4, InputAssumption, SumChange
<1>6. SumFunctionOnSet(f, Validator) \in Nat
  BY <1>3, InputAssumption, SumNat
<1> QED
  BY <1>1, <1>2, <1>5, <1>6 DEF VotesTotal

(* Votes that do not change.                                               *)
LEMMA RecountSame ==
  ASSUME VotesTrue, \A w \in Validator : Votes(w)' = Votes(w), eligible' = eligible
  PROVE  VotesTrue'
<1>1. PICK f : f = [w \in Validator |-> Votes(w)]
  OBVIOUS
<1>2. PICK g : g = [w \in Validator |-> Votes(w)']
  OBVIOUS
<1>3. f = g
  BY <1>1, <1>2
<1> QED
  BY <1>1, <1>2, <1>3 DEF VotesTrue, VotesTotal

(* A change of stake, whose votes are added as a difference.               *)
LEMMA RecountStake ==
  ASSUME LedgerOK, ActivityOK, LedgerOK', ActivityOK', VotesTrue, NEW v \in Validator, Exists(v),
         NEW amount \in Int, Grows(v, amount), factor' = factor,
         eligible' = eligible + VotesDelta(v, amount)
  PROVE  VotesTrue'
<1>0. /\ ValidatorStake(v) = val[v].stake /\ val[v].stake \in Int /\ factor[v] \in Nat
      /\ val[v].stake + amount \in Int
  <2>1. ValidatorStake(v) = val[v].stake
    BY DEF ValidatorStake
  <2> QED
    BY <2>1, StakeTypes, FactorTypes
<1>1. ValidatorStake(v)' = val[v].stake + amount /\ factor'[v] = factor[v]
  BY <1>0 DEF Grows
<1>2. Votes(v)' = voteCountWithFactor(val[v].stake + amount, factor[v])
  BY <1>1, VotesNext
<1>3. Votes(v) = voteCountWithFactor(val[v].stake, factor[v])
  BY <1>0 DEF Votes
<1>4. \A w \in Validator : w # v => Votes(w)' = Votes(w)
  BY DEF Grows, Votes, voteCountWithFactor
<1>5. VotesTotal' = VotesTotal + Votes(v)' - Votes(v) /\ VotesTotal \in Nat
  BY <1>4, RecountOne
<1>6. VotesDelta(v, amount) = Votes(v)' - Votes(v) /\ Votes(v)' \in Nat /\ Votes(v) \in Nat
  BY <1>2, <1>3, VotesTypes DEF VotesDelta
<1> QED
  BY <1>5, <1>6 DEF VotesTrue

(* A change of the voting power of v.                                      *)
LEMMA RecountPower ==
  ASSUME LedgerOK, ActivityOK, LedgerOK', ActivityOK', VotesTrue, NEW v \in Validator, Exists(v),
         \A w \in Validator : ValidatorStake(w)' = ValidatorStake(w),
         NEW f \in Nat, factor' = [factor EXCEPT ![v] = f],
         eligible' = eligible + voteCountWithFactor(val[v].stake, f)
                              - voteCountWithFactor(val[v].stake, factor[v])
  PROVE  VotesTrue'
<1>0. ValidatorStake(v) = val[v].stake
  BY DEF ValidatorStake
<1>1. factor'[v] = f /\ \A w \in Validator : w # v => factor'[w] = factor[w]
  <2>1. factor \in [Validator -> 0..BasisPointsScale]
    BY Zenon DEF ActivityOK
  <2> QED
    BY <2>1
<1>2. Votes(v)' = voteCountWithFactor(val[v].stake, f)
  BY <1>0, <1>1, VotesNext
<1>3. Votes(v) = voteCountWithFactor(val[v].stake, factor[v])
  BY <1>0 DEF Votes
<1>4. \A w \in Validator : w # v => Votes(w)' = Votes(w)
  BY <1>1 DEF Votes, voteCountWithFactor
<1>5. VotesTotal' = VotesTotal + Votes(v)' - Votes(v) /\ VotesTotal \in Nat
  BY <1>4, RecountOne
<1>6. Votes(v)' \in Nat /\ Votes(v) \in Nat
  BY VotesTypes
<1> QED
  BY <1>2, <1>3, <1>5, <1>6 DEF VotesTrue

(* A validator without stake is deleted, its power reset.                  *)
LEMMA RecountDelete ==
  ASSUME LedgerOK, ActivityOK, VotesTrue, NEW v \in Validator, ValidatorStake(v) = 0,
         \A w \in Validator : ValidatorStake(w)' = ValidatorStake(w),
         factor' = [factor EXCEPT ![v] = BasisPointsScale], eligible' = eligible
  PROVE  VotesTrue'
<1>1. factor'[v] = BasisPointsScale /\ \A w \in Validator : w # v => factor'[w] = factor[w]
  <2>1. factor \in [Validator -> 0..BasisPointsScale]
    BY Zenon DEF ActivityOK
  <2> QED
    BY <2>1
<1>2. ValidatorStake(v)' = 0 /\ BasisPointsScale \in Nat /\ factor[v] \in Nat
  BY FactorTypes DEF BasisPointsScale
<1>3. Votes(v)' = 0
  BY <1>1, <1>2, VotesNext, NoVotes
<1>4. Votes(v) = 0
  BY <1>2, NoVotes DEF Votes
<1>5. \A w \in Validator : w # v => Votes(w)' = Votes(w)
  BY <1>1 DEF Votes, voteCountWithFactor
<1>6. \A w \in Validator : Votes(w)' = Votes(w)
  BY <1>3, <1>4, <1>5
<1> QED
  BY <1>6, RecountSame

(* StopVoting: the votes that are left are never more than the total, so   *)
(* the guard of the subtraction never skips it.                            *)
LEMMA RecountStop ==
  ASSUME LedgerOK, ActivityOK, LedgerOK', ActivityOK', VotesTrue, NEW v \in Validator, Exists(v),
         val' = val, StopVoting(v)
  PROVE  VotesTrue'
<1>0. ValidatorStake(v) = val[v].stake /\ \A w \in Validator : ValidatorStake(w)' = ValidatorStake(w)
  BY DEF ValidatorStake, Exists
<1>1. PICK k : k = voteCountWithFactor(val[v].stake, factor[v])
  OBVIOUS
<1>2. Votes(v) = k /\ k \in Nat
  BY <1>0, <1>1, VotesTypes DEF Votes
<1>3. k <= eligible
  <2>1. PICK f : f = [w \in Validator |-> Votes(w)]
    OBVIOUS
  <2>2. \A w \in Validator : f[w] \in Nat
    BY <2>1, VotesTypes
  <2>3. f[v] <= SumFunctionOnSet(f, Validator)
    BY <2>2, InputAssumption, SumBounds
  <2> QED
    BY <1>2, <2>1, <2>3 DEF VotesTrue, VotesTotal
<1>4. eligible \in Int
  <2>1. VotesTotal \in Nat
    <3>1. PICK f : f = [w \in Validator |-> Votes(w)]
      OBVIOUS
    <3>2. \A w \in Validator : f[w] \in Nat
      BY <3>1, VotesTypes
    <3>3. SumFunctionOnSet(f, Validator) \in Nat
      BY <3>2, InputAssumption, SumNat
    <3> QED
      BY <3>1, <3>3 DEF VotesTotal
  <2> QED
    BY <2>1 DEF VotesTrue
<1>5. eligible' = eligible - k /\ factor' = [factor EXCEPT ![v] = 0]
  BY <1>1, <1>2, <1>3, <1>4 DEF StopVoting
<1>6. voteCountWithFactor(val[v].stake, 0) = 0
  <2>1. val[v].stake \in Int
    BY <1>0, StakeTypes
  <2> QED
    BY <2>1, NoVotes
<1>7. eligible' = eligible + voteCountWithFactor(val[v].stake, 0)
                           - voteCountWithFactor(val[v].stake, factor[v])
  BY <1>1, <1>2, <1>4, <1>5, <1>6
<1>8. 0 \in Nat
  OBVIOUS
<1> QED
  BY <1>0, <1>5, <1>7, <1>8, RecountPower

(***************************************************************************)
(* What makes the recount inductive: a validator that is not registered    *)
(* has its full power, which registration counts on, and one that is being *)
(* evicted has none, so that the delegations taken from it cost no votes.  *)
(***************************************************************************)
PowerKnown ==
  /\ \A v \in Validator : ~Exists(v) => factor[v] = BasisPointsScale
  /\ Spared({"recovery"}) =>
       /\ \A v \in Validator : evicting[v] => factor[v] = 0
       /\ loop.current # Nil => factor[loop.current] = 0

VotesStep == PowerKnown' /\ EligibleVotesExact'

(* The recount as a named fact.                                            *)
LEMMA ExactIsTrue ==
  /\ EligibleVotesExact <=> (Spared({"recovery"}) => VotesTrue)
  /\ EligibleVotesExact' <=> (Spared({"recovery"})' => VotesTrue')
BY Zenon DEF EligibleVotesExact, VotesTrue, VotesTotal

(* Steps that change no power.                                             *)
LEMMA PowerFrame ==
  ASSUME PowerKnown, defects \subseteq defects', factor' = factor, evicting' = evicting,
         \A w \in Validator : Exists(w) => Exists(w)',
         loop'.current = loop.current \/ loop'.current = Nil
  PROVE  PowerKnown'
<1>1. Spared({"recovery"})' => Spared({"recovery"})
  BY SparedBefore
<1>2. \A v \in Validator : ~Exists(v)' => factor'[v] = BasisPointsScale
  BY DEF PowerKnown
<1>3. ASSUME Spared({"recovery"})' PROVE \A v \in Validator : evicting'[v] => factor'[v] = 0
  BY <1>1, <1>3, Zenon DEF PowerKnown
<1>4. ASSUME Spared({"recovery"})' PROVE loop'.current # Nil => factor'[loop'.current] = 0
  BY <1>1, <1>4, Zenon DEF PowerKnown
<1> QED
  BY <1>2, <1>3, <1>4, Zenon DEF PowerKnown

(* A deleted validator gets its full power back.                           *)
LEMMA PowerReset ==
  ASSUME PowerKnown, ActivityOK, NEW v \in Validator, defects \subseteq defects',
         factor' = [factor EXCEPT ![v] = BasisPointsScale], evicting' = [evicting EXCEPT ![v] = FALSE],
         \A w \in Validator : w # v /\ Exists(w) => Exists(w)', loop'.current = Nil
  PROVE  PowerKnown'
<1>0. factor \in [Validator -> 0..BasisPointsScale] /\ evicting \in [Validator -> BOOLEAN]
  BY Zenon DEF ActivityOK
<1>1. Spared({"recovery"})' => Spared({"recovery"})
  BY SparedBefore
<1>2. factor'[v] = BasisPointsScale /\ \A w \in Validator : w # v => factor'[w] = factor[w]
  BY <1>0
<1>3. ~evicting'[v] /\ \A w \in Validator : w # v => evicting'[w] = evicting[w]
  BY <1>0, Zenon
<1>4. \A w \in Validator : ~Exists(w)' => factor'[w] = BasisPointsScale
  BY <1>2 DEF PowerKnown
<1>5. ASSUME Spared({"recovery"})', NEW w \in Validator, evicting'[w] PROVE factor'[w] = 0
  BY <1>1, <1>2, <1>3, <1>5, Zenon DEF PowerKnown
<1> QED
  BY <1>4, <1>5, Zenon DEF PowerKnown

(* A call finds no eviction in progress and leaves the loop alone.         *)
LEMMA CallIdle ==
  ASSUME IInv, NEW when \in {"genesis", "txs"}, Call(when), UNCHANGED control
  PROVE  loop.current = Nil /\ loop'.current = Nil
<1>1. LoopOK /\ phase \notin {"resume", "evict"} /\ loop' = loop
  BY DEF IInv, Call, control
<1>2. loop.current = Nil
  BY <1>1, Zenon DEF LoopOK
<1> QED
  BY <1>1, <1>2

(* Storing a validator makes none disappear.                               *)
LEMMA ExistsStored ==
  ASSUME LedgerOK, NEW v \in Validator, NEW r \in BoundedRec, val' = [val EXCEPT ![v] = r]
  PROVE  \A w \in Validator : Exists(w) => Exists(w)'
<1>1. r # Nil
  BY NilAssumption DEF BoundedRec
<1> QED
  BY <1>1 DEF Exists, LedgerOK

(* Stakes and powers that do not change.                                   *)
LEMMA VotesKept ==
  ASSUME VotesTrue, \A w \in Validator : ValidatorStake(w)' = ValidatorStake(w), factor' = factor,
         eligible' = eligible
  PROVE  VotesTrue'
<1>1. \A w \in Validator : Votes(w)' = Votes(w)
  BY DEF Votes, voteCountWithFactor
<1> QED
  BY <1>1, RecountSame

(* registerValidator, and the registration of a genesis validator.         *)
LEMMA RegisterVotes ==
  ASSUME IInv, IInv', PowerKnown, EligibleVotesExact, NEW owner \in Delegator, NEW v \in Validator,
         NEW amount \in Nat, NEW commission \in Nat,
         registerValidatorWithoutChecks(v, owner, amount, commission)
  PROVE  VotesStep
<1>0. LedgerOK /\ ActivityOK /\ LedgerOK' /\ ActivityOK' /\ ~Exists(v) /\ ~Exists(v) /\ CountsOK
  BY DEF IInv, registerValidatorWithoutChecks
<1>1. /\ factor' = factor /\ evicting' = evicting /\ loop' = loop /\ defects' = defects
      /\ eligible' = eligible + voteCountWithFactor(amount, BasisPointsScale)
  BY DEF registerValidatorWithoutChecks, activity, control
<1>2. Grows(v, amount)
  BY <1>0, RegisterMoves
<1>3. PowerKnown'
  <2>1. \A w \in Validator : w # v => val'[w] = val[w]
    BY <1>0 DEF registerValidatorWithoutChecks, LedgerOK
  <2>2. \A w \in Validator : Exists(w) => Exists(w)'
    BY <1>0, <2>1 DEF Exists
  <2> QED
    BY <1>1, <2>2, PowerFrame
<1>4. ASSUME Spared({"recovery"})' PROVE VotesTrue'
  <2>1. VotesTrue
    BY <1>1, <1>4, ExactIsTrue DEF Spared
  <2>2. ValidatorStake(v) = 0 /\ ValidatorStake(v)' = amount /\ factor[v] = BasisPointsScale
    BY <1>0, <1>2 DEF ValidatorStake, Grows, PowerKnown
  <2>3. BasisPointsScale \in Nat
    BY DEF BasisPointsScale
  <2>4. Votes(v) = 0
    BY <2>2, <2>3, NoVotes DEF Votes
  <2>5. Votes(v)' = voteCountWithFactor(amount, BasisPointsScale)
    BY <1>1, <2>2, VotesNext
  <2>6. \A w \in Validator : w # v => Votes(w)' = Votes(w)
    BY <1>1, <1>2 DEF Grows, Votes, voteCountWithFactor
  <2>7. VotesTotal' = VotesTotal + Votes(v)' - Votes(v) /\ VotesTotal \in Nat /\ Votes(v)' \in Nat
    BY <1>0, <2>6, RecountOne, VotesTypes
  <2> QED
    BY <1>1, <2>1, <2>4, <2>5, <2>7 DEF VotesTrue
<1> QED
  BY <1>3, <1>4, ExactIsTrue DEF VotesStep

(* A call that moves the stake of one validator.                           *)
LEMMA StakeVotes ==
  ASSUME IInv, IInv', PowerKnown, EligibleVotesExact, NEW v \in Validator, NEW r \in BoundedRec,
         NEW amount \in Int, Exists(v), val' = [val EXCEPT ![v] = r], Grows(v, amount),
         eligible' = eligible + VotesDelta(v, amount), factor' = factor, evicting' = evicting,
         loop' = loop, defects \subseteq defects'
  PROVE  VotesStep
<1>0. LedgerOK /\ ActivityOK /\ LedgerOK' /\ ActivityOK'
  BY DEF IInv
<1>1. PowerKnown'
  BY <1>0, ExistsStored, PowerFrame
<1>2. ASSUME Spared({"recovery"})' PROVE VotesTrue'
  <2>1. VotesTrue
    BY <1>2, SparedBefore, ExactIsTrue
  <2> QED
    BY <1>0, <2>1, RecountStake
<1> QED
  BY <1>1, <1>2, ExactIsTrue DEF VotesStep

(* A step that changes neither stakes nor powers.                          *)
LEMMA QuietVotes ==
  ASSUME PowerKnown, EligibleVotesExact, \A w \in Validator : ValidatorStake(w)' = ValidatorStake(w),
         \A w \in Validator : Exists(w) => Exists(w)', factor' = factor, evicting' = evicting,
         eligible' = eligible, loop'.current = loop.current \/ loop'.current = Nil,
         defects \subseteq defects'
  PROVE  VotesStep
<1>1. PowerKnown'
  BY PowerFrame
<1>2. ASSUME Spared({"recovery"})' PROVE VotesTrue'
  <2>1. VotesTrue
    BY <1>2, SparedBefore, ExactIsTrue
  <2> QED
    BY <2>1, VotesKept
<1> QED
  BY <1>1, <1>2, ExactIsTrue DEF VotesStep

(* A call that deletes a validator without stake.                          *)
LEMMA DeleteVotes ==
  ASSUME IInv, PowerKnown, EligibleVotesExact, NEW v \in Validator, Exists(v), val[v].stake = 0,
         DeleteValidator(v), eligible' = eligible, loop'.current = Nil, defects' = defects
  PROVE  VotesStep
<1>0. LedgerOK /\ ActivityOK
  BY DEF IInv
<1>1. /\ val' = [val EXCEPT ![v] = Nil] /\ factor' = [factor EXCEPT ![v] = BasisPointsScale]
      /\ evicting' = [evicting EXCEPT ![v] = FALSE]
  BY DEF DeleteValidator
<1>2. \A w \in Validator : w # v /\ Exists(w) => Exists(w)'
  BY <1>0, <1>1 DEF Exists, LedgerOK
<1>3. PowerKnown'
  BY <1>0, <1>1, <1>2, PowerReset
<1>4. ASSUME Spared({"recovery"})' PROVE VotesTrue'
  <2>1. VotesTrue
    BY <1>4, SparedBefore, ExactIsTrue
  <2>2. ValidatorStake(v) = 0 /\ \A w \in Validator : ValidatorStake(w)' = ValidatorStake(w)
    BY <1>0, <1>1, DeleteKeeps DEF ValidatorStake
  <2> QED
    BY <1>0, <1>1, <2>1, <2>2, RecountDelete
<1> QED
  BY <1>3, <1>4, ExactIsTrue DEF VotesStep

(* The recount follows the votes of two validators.                        *)
LEMMA RecountTwo ==
  ASSUME LedgerOK, ActivityOK, LedgerOK', ActivityOK', NEW f \in Validator, NEW t \in Validator, f # t,
         \A w \in Validator : w # f /\ w # t => Votes(w)' = Votes(w)
  PROVE  VotesTotal' = VotesTotal + (Votes(f)' - Votes(f)) + (Votes(t)' - Votes(t)) /\ VotesTotal \in Nat
<1>1. PICK g : g = [w \in Validator |-> Votes(w)]
  OBVIOUS
<1>2. PICK k : k = [w \in Validator |-> Votes(w)']
  OBVIOUS
<1>3. PICK h : h = [w \in Validator |-> IF w = f THEN k[w] ELSE g[w]]
  OBVIOUS
<1>4. \A w \in Validator : g[w] \in Nat /\ k[w] \in Nat
  BY <1>1, <1>2, VotesTypes
<1>5. /\ \A w \in Validator : g[w] \in Int /\ h[w] \in Int /\ (w # f => h[w] = g[w])
      /\ h[f] = k[f]
  BY <1>3, <1>4
<1>6. /\ \A w \in Validator : h[w] \in Int /\ k[w] \in Int /\ (w # t => k[w] = h[w])
      /\ h[t] = g[t]
  BY <1>1, <1>2, <1>3, <1>4
<1>7. SumFunctionOnSet(h, Validator) = SumFunctionOnSet(g, Validator) + h[f] - g[f]
  BY <1>5, InputAssumption, SumChange
<1>8. SumFunctionOnSet(k, Validator) = SumFunctionOnSet(h, Validator) + k[t] - h[t]
  BY <1>6, InputAssumption, SumChange
<1>9. SumFunctionOnSet(g, Validator) \in Nat
  BY <1>4, InputAssumption, SumNat
<1>10. SumFunctionOnSet(k, Validator) = SumFunctionOnSet(g, Validator) + (k[f] - g[f]) + (k[t] - g[t])
  <2>1. g[f] \in Nat /\ k[f] \in Nat /\ g[t] \in Nat /\ k[t] \in Nat
    BY <1>4
  <2> QED
    BY <1>5, <1>6, <1>7, <1>8, <1>9, <2>1
<1> QED
  BY <1>1, <1>2, <1>9, <1>10 DEF VotesTotal

(* redelegate: the votes of both validators.                               *)
LEMMA RedelegateVotes ==
  ASSUME IInv, IInv', PowerKnown, EligibleVotesExact, NEW d \in Delegator, NEW f \in Validator,
         NEW t \in Validator, NEW amount \in Nat, redelegate(d, f, t, amount)
  PROVE  VotesStep
<1>0. /\ LedgerOK /\ ActivityOK /\ LedgerOK' /\ ActivityOK' /\ f # t /\ Exists(f) /\ Exists(t)
      /\ CanSettle(t) /\ CanSettle(f) /\ FitsMaximum(t, amount) /\ block \in Blocks
  BY DEF IInv, ControlOK, redelegate, CanCredit, CanClaim
<1>2. /\ factor' = IF EmptyAfter(f, amount) /\ val[f].undelegations = 0
                   THEN [factor EXCEPT ![f] = BasisPointsScale] ELSE factor
      /\ evicting' = IF EmptyAfter(f, amount) /\ val[f].undelegations = 0
                     THEN [evicting EXCEPT ![f] = FALSE] ELSE evicting
      /\ eligible' = eligible + VotesDelta(f, -amount) + VotesDelta(t, amount)
      /\ defects \subseteq defects' /\ Call("txs") /\ UNCHANGED control
  BY DEF redelegate
<1>3. loop.current = Nil /\ loop'.current = Nil
  BY <1>2, CallIdle
<1>4. \A w \in Validator :
           ValidatorStake(w)' = IF w = f THEN ValidatorStake(w) - amount
                                ELSE IF w = t THEN ValidatorStake(w) + amount
                                ELSE ValidatorStake(w)
  BY RedelegateMoves
<1>5. val'[f] = ValLeft(f, amount) /\ val'[t] = ValCredited(t, amount)
      /\ \A w \in Validator : w # f /\ w # t => val'[w] = val[w]
  <2>1. val' = [val EXCEPT ![f] = ValLeft(f, amount), ![t] = ValCredited(t, amount)]
    BY DEF redelegate
  <2> QED
    BY <1>0, <2>1 DEF LedgerOK
<1>6. \A w \in Validator : w # f /\ Exists(w) => Exists(w)'
  <2>1. ValCredited(t, amount) \in BoundedRec
    BY <1>0, ValRecTypes
  <2>2. ValCredited(t, amount) # Nil
    BY <2>1, NilAssumption DEF BoundedRec
  <2> QED
    BY <1>5, <2>2 DEF Exists
<1>7. PowerKnown'
  <2>1. CASE EmptyAfter(f, amount) /\ val[f].undelegations = 0
    <3>1. factor' = [factor EXCEPT ![f] = BasisPointsScale] /\ evicting' = [evicting EXCEPT ![f] = FALSE]
      BY <1>2, <2>1, Zenon
    <3> QED
      BY <1>0, <1>2, <1>3, <1>6, <3>1, PowerReset
  <2>2. CASE ~(EmptyAfter(f, amount) /\ val[f].undelegations = 0)
    <3>1. factor' = factor /\ evicting' = evicting
      BY <1>2, <2>2, Zenon
    <3>2. val'[f] # Nil
      <4>1. PICK s : s = ValSettled(f)
        OBVIOUS
      <4>2. s \in ValidatorRec /\ s.stake \in Int /\ val[f].pool \in Nat
        BY <1>0, <4>1, SettleTypes DEF BoundedRec, ValidatorRec, LedgerOK, Exists
      <4>3. CASE ~EmptyAfter(f, amount)
        <5>1. val'[f] = [s EXCEPT !.stake = s.stake - amount]
          BY <1>5, <4>1, <4>3 DEF ValLeft
        <5>2. s.stake - amount \in Int
          BY <4>2
        <5>3. val'[f] \in ValidatorRec
          BY <4>2, <5>1, <5>2 DEF ValidatorRec
        <5> QED
          BY <5>3, NilAssumption
      <4>4. CASE EmptyAfter(f, amount)
        <5>1. val'[f] = [s EXCEPT !.stake = 0, !.pool = val[f].pool]
          BY <1>5, <2>2, <4>1, <4>4 DEF ValLeft
        <5>2. val'[f] \in BoundedRec
          BY <4>2, <5>1, EmptiedRec
        <5> QED
          BY <5>2, NilAssumption DEF BoundedRec
      <4> QED
        BY <4>3, <4>4
    <3>3. \A w \in Validator : Exists(w) => Exists(w)'
      BY <1>6, <3>2 DEF Exists
    <3> QED
      BY <1>2, <1>3, <3>1, <3>3, PowerFrame
  <2> QED
    BY <2>1, <2>2
<1>8. ASSUME Spared({"recovery"})' PROVE VotesTrue'
  <2>1. VotesTrue
    BY <1>2, <1>8, SparedBefore, ExactIsTrue
  <2>2. /\ ValidatorStake(f) = val[f].stake /\ ValidatorStake(t) = val[t].stake
        /\ val[f].stake \in Int /\ val[t].stake \in Int /\ factor[f] \in Nat /\ factor[t] \in Nat
    <3>1. ValidatorStake(f) = val[f].stake /\ ValidatorStake(t) = val[t].stake
      BY <1>0 DEF ValidatorStake
    <3> QED
      BY <1>0, <3>1, StakeTypes, FactorTypes
  <2>3. factor \in [Validator -> 0..BasisPointsScale]
    BY <1>0, Zenon DEF ActivityOK
  <2>4. factor'[t] = factor[t] /\ \A w \in Validator : w # f => factor'[w] = factor[w]
    BY <1>0, <1>2, <2>3
  <2>5. Votes(t)' = voteCountWithFactor(val[t].stake + amount, factor[t])
    <3>1. ValidatorStake(t)' = val[t].stake + amount
      BY <1>0, <1>4, <2>2
    <3> QED
      BY <2>4, <3>1, VotesNext
  <2>6. Votes(f)' = voteCountWithFactor(val[f].stake + (-amount), factor[f])
    <3>1. ValidatorStake(f)' = val[f].stake + (-amount)
      BY <1>0, <1>4, <2>2
    <3>2. CASE EmptyAfter(f, amount) /\ val[f].undelegations = 0
      <4>1. val[f].stake + (-amount) = 0 /\ factor'[f] \in Nat
        BY <1>0, <2>2, <3>2, FactorTypesNext DEF EmptyAfter
      <4>2. Votes(f)' = voteCountWithFactor(0, factor'[f])
        <5>1. PICK q : q = factor'[f]
          OBVIOUS
        <5> QED
          BY <3>1, <4>1, <5>1, VotesNext
      <4> QED
        BY <2>2, <4>1, <4>2, NoVotes
    <3>3. CASE ~(EmptyAfter(f, amount) /\ val[f].undelegations = 0)
      <4>1. factor'[f] = factor[f]
        BY <1>2, <3>3
      <4> QED
        BY <3>1, <4>1, VotesNext
    <3> QED
      BY <3>2, <3>3
  <2>7. \A w \in Validator : w # f /\ w # t => Votes(w)' = Votes(w)
    BY <1>4, <2>4 DEF Votes, voteCountWithFactor
  <2>8. VotesTotal' = VotesTotal + (Votes(f)' - Votes(f)) + (Votes(t)' - Votes(t)) /\ VotesTotal \in Nat
    BY <1>0, <2>7, RecountTwo
  <2>9. VotesDelta(f, -amount) = Votes(f)' - Votes(f) /\ VotesDelta(t, amount) = Votes(t)' - Votes(t)
    BY <2>2, <2>5, <2>6 DEF VotesDelta, Votes
  <2>10. Votes(f) \in Nat /\ Votes(f)' \in Nat /\ Votes(t) \in Nat /\ Votes(t)' \in Nat
    BY <1>0, VotesTypes
  <2> QED
    BY <1>2, <2>1, <2>8, <2>9, <2>10 DEF VotesTrue
<1> QED
  BY <1>7, <1>8, ExactIsTrue DEF VotesStep

(* Calls that store a validator with the same stake.                       *)
LEMMA SameStakeVotes ==
  ASSUME IInv, PowerKnown, EligibleVotesExact, NEW v \in Validator, Exists(v), NEW r \in BoundedRec,
         r.stake = val[v].stake, val' = [val EXCEPT ![v] = r], UNCHANGED activity, eligible' = eligible,
         loop' = loop, defects' = defects
  PROVE  VotesStep
<1>0. LedgerOK /\ factor' = factor /\ evicting' = evicting
  BY DEF IInv, activity
<1>1. \A w \in Validator : ValidatorStake(w)' = ValidatorStake(w)
  BY <1>0, SameStake
<1>2. \A w \in Validator : Exists(w) => Exists(w)'
  BY <1>0, ExistsStored
<1> QED
  BY <1>0, <1>1, <1>2, QuietVotes

(* confirmUndelegate, which may delete the validator.                      *)
LEMMA ConfirmVotes ==
  ASSUME IInv, PowerKnown, EligibleVotesExact, NEW u \in und, confirmUndelegate(u)
  PROVE  VotesStep
<1>0. LedgerOK /\ u \in UndelegationRec
  BY DEF IInv, LedgerOK
<1>1. PICK v : v = u.validator
  OBVIOUS
<1>2. v \in Validator
  BY <1>0, <1>1 DEF UndelegationRec
<1>3. Call("txs") /\ UNCHANGED control /\ eligible' = eligible /\ defects' = defects
  BY DEF confirmUndelegate
<1>4. loop'.current = Nil /\ loop' = loop
  BY <1>3, CallIdle DEF control
<1>5. CASE ~Exists(v)
  <2>1. val' = val /\ UNCHANGED activity
    BY <1>1, <1>5 DEF confirmUndelegate
  <2>2. /\ \A w \in Validator : ValidatorStake(w)' = ValidatorStake(w)
        /\ \A w \in Validator : Exists(w) => Exists(w)'
    BY <2>1 DEF ValidatorStake, Exists
  <2> QED
    BY <1>3, <1>4, <2>1, <2>2, QuietVotes DEF activity
<1>6. CASE Exists(v) /\ Dec(val[v].undelegations) = 0 /\ val[v].stake = 0 /\ val[v].commissionPool = 0
  <2>1. DeleteValidator(v)
    BY <1>1, <1>6 DEF confirmUndelegate
  <2> QED
    BY <1>2, <1>3, <1>4, <1>6, <2>1, DeleteVotes
<1>7. CASE Exists(v) /\ ~(Dec(val[v].undelegations) = 0 /\ val[v].stake = 0 /\ val[v].commissionPool = 0)
  <2>1. val' = [val EXCEPT ![v].undelegations = Dec(val[v].undelegations)] /\ UNCHANGED activity
    BY <1>1, <1>7 DEF confirmUndelegate
  <2>2. PICK r : r = [val[v] EXCEPT !.undelegations = Dec(val[v].undelegations)]
    OBVIOUS
  <2>3. val[v] \in BoundedRec
    BY <1>0, <1>2, <1>7 DEF LedgerOK, Exists
  <2>4. Dec(val[v].undelegations) \in Nat
    BY <2>3 DEF Dec, BoundedRec, ValidatorRec
  <2>5. r \in BoundedRec /\ r.stake = val[v].stake
    BY <2>2, <2>3, <2>4 DEF BoundedRec, ValidatorRec
  <2>6. val' = [val EXCEPT ![v] = r]
    BY <1>0, <1>2, <2>1, <2>2 DEF LedgerOK
  <2> QED
    BY <1>2, <1>3, <1>4, <1>7, <2>1, <2>5, <2>6, SameStakeVotes
<1> QED
  BY <1>5, <1>6, <1>7

(* claimCommissionRewards, which may delete it too, and setCommission.     *)
LEMMA CommissionVotes ==
  ASSUME IInv, PowerKnown, EligibleVotesExact, NEW d \in Delegator, NEW v \in Validator, NEW c \in Nat,
         claimCommissionRewards(d, v) \/ setCommission(d, v, c)
  PROVE  VotesStep
<1>0. LedgerOK /\ block \in Blocks /\ Exists(v)
  BY DEF IInv, ControlOK, claimCommissionRewards, setCommission
<1>r. val[v] \in BoundedRec
  BY <1>0 DEF LedgerOK, Exists
<1>3. Call("txs") /\ UNCHANGED control /\ eligible' = eligible /\ defects' = defects
  BY DEF claimCommissionRewards, setCommission
<1>4. loop'.current = Nil /\ loop' = loop
  BY <1>3, CallIdle DEF control
<1>5. CASE claimCommissionRewards(d, v) /\ val[v].stake = 0 /\ val[v].undelegations = 0
  <2>1. DeleteValidator(v)
    BY <1>5 DEF claimCommissionRewards
  <2> QED
    BY <1>0, <1>3, <1>4, <1>5, <2>1, DeleteVotes
<1>6. CASE claimCommissionRewards(d, v) /\ ~(val[v].stake = 0 /\ val[v].undelegations = 0)
  <2>1. val' = [val EXCEPT ![v].commissionPool = 0] /\ UNCHANGED activity
    BY <1>6 DEF claimCommissionRewards
  <2>2. PICK r : r = [val[v] EXCEPT !.commissionPool = 0]
    OBVIOUS
  <2>3. r \in BoundedRec /\ r.stake = val[v].stake
    BY <1>r, <2>2 DEF BoundedRec, ValidatorRec
  <2>4. val' = [val EXCEPT ![v] = r]
    BY <1>0, <2>1, <2>2 DEF LedgerOK
  <2> QED
    BY <1>0, <1>3, <1>4, <2>1, <2>3, <2>4, SameStakeVotes
<1>7. CASE setCommission(d, v, c)
  <2>1. val' = [val EXCEPT ![v].commission = c, ![v].lastCommissionChange = block] /\ UNCHANGED activity
    BY <1>7 DEF setCommission
  <2>2. PICK r : r = [val[v] EXCEPT !.commission = c, !.lastCommissionChange = block]
    OBVIOUS
  <2>3. c \in 0..MaxCommission
    <3>1. c <= MaxCommission
      BY <1>7 DEF setCommission
    <3> QED
      BY <3>1 DEF MaxCommission, BasisPointsScale
  <2>4. r \in BoundedRec /\ r.stake = val[v].stake
    BY <1>0, <1>r, <2>2, <2>3 DEF BoundedRec, ValidatorRec
  <2>5. val' = [val EXCEPT ![v] = r]
    BY <1>0, <2>1, <2>2 DEF LedgerOK
  <2> QED
    BY <1>0, <1>3, <1>4, <2>1, <2>4, <2>5, SameStakeVotes
<1> QED
  BY <1>5, <1>6, <1>7

(* claimRewards and claimAllRewards.                                       *)
LEMMA ClaimVotes ==
  ASSUME IInv, PowerKnown, EligibleVotesExact, NEW d \in Delegator, NEW from \in SUBSET Validator,
         ClaimFrom(d, from)
  PROVE  VotesStep
<1>0. LedgerOK /\ block \in Blocks
  BY DEF IInv, ControlOK
<1>1. \A w \in Validator : ValidatorStake(w)' = ValidatorStake(w)
  BY ClaimKeeps DEF StakesKept
<1>2. ASSUME NEW w \in Validator, Exists(w) PROVE Exists(w)'
  <2>1. val'[w] = IF w \in from THEN ValSettled(w) ELSE val[w]
    BY DEF ClaimFrom
  <2>2. CASE w \in from
    <3>1. CanSettle(w)
      BY <2>2 DEF ClaimFrom, CanClaim
    <3>2. ValSettled(w) \in BoundedRec
      BY <1>0, <1>2, <3>1, SettleTypes
    <3> QED
      BY <2>1, <2>2, <3>2, NilAssumption DEF BoundedRec, Exists
  <2>3. CASE w \notin from
    BY <1>2, <2>1, <2>3 DEF Exists
  <2> QED
    BY <2>2, <2>3
<1>3. /\ factor' = factor /\ evicting' = evicting /\ eligible' = eligible /\ defects' = defects
      /\ loop' = loop
  BY DEF ClaimFrom, activity, control
<1> QED
  BY <1>1, <1>2, <1>3, QuietVotes

(* The methods that move stake.                                            *)
LEMMA MovingVotes ==
  ASSUME IInv, IInv', PowerKnown, EligibleVotesExact, NEW d \in Delegator, NEW v \in Validator,
         NEW amount \in Nat, delegate(d, v, amount) \/ undelegate(d, v, amount)
  PROVE  VotesStep
<1>0. /\ LedgerOK /\ block \in Blocks /\ Exists(v) /\ CanSettle(v) /\ factor' = factor
      /\ evicting' = evicting /\ loop' = loop /\ defects' = defects
  BY DEF IInv, ControlOK, delegate, undelegate, CanCredit, CanClaim, activity, control
<1>1. CASE delegate(d, v, amount)
  <2>1. /\ val' = [val EXCEPT ![v] = ValCredited(v, amount)] /\ FitsMaximum(v, amount)
        /\ eligible' = eligible + VotesDelta(v, amount)
    BY <1>1 DEF delegate
  <2>2. ValCredited(v, amount) \in BoundedRec /\ amount \in Int
    BY <1>0, <2>1, ValRecTypes
  <2>3. Grows(v, amount)
    BY <1>1, DelegateMoves
  <2> QED
    BY <1>0, <2>1, <2>2, <2>3, StakeVotes
<1>2. CASE undelegate(d, v, amount)
  <2>1. /\ val' = [val EXCEPT ![v] = ValUndelegated(v, amount)]
        /\ eligible' = eligible + VotesDelta(v, -amount)
    BY <1>2 DEF undelegate
  <2>2. ValUndelegated(v, amount) \in BoundedRec /\ -amount \in Int
    BY <1>0, ValRecTypes
  <2>3. Grows(v, -amount)
    BY <1>2, UndelegateMoves
  <2> QED
    BY <1>0, <2>1, <2>2, <2>3, StakeVotes
<1> QED
  BY <1>1, <1>2

(* cancelUndelegate, accepted or rejected.                                 *)
LEMMA CancelVotes ==
  ASSUME IInv, IInv', PowerKnown, EligibleVotesExact, NEW u \in und, cancelUndelegate(u)
  PROVE  VotesStep
<1>0. LedgerOK /\ block \in Blocks /\ u \in UndelegationRec
  BY DEF IInv, LedgerOK, ControlOK
<1>1. PICK v, amount : v = u.validator /\ amount = u.amount
  OBVIOUS
<1>2. v \in Validator /\ amount \in Nat /\ amount \in Int
  BY <1>0, <1>1 DEF UndelegationRec
<1>3. /\ Exists(v) /\ CanSettle(v) /\ factor' = factor /\ evicting' = evicting /\ loop' = loop
      /\ defects \subseteq defects'
  BY <1>1 DEF cancelUndelegate, CanCredit, activity, control
<1>4. CASE FitsMaximum(v, amount)
  <2>1. /\ val' = [val EXCEPT ![v] = ValCancelled(v, amount)]
        /\ eligible' = eligible + VotesDelta(v, amount)
    BY <1>1, <1>4 DEF cancelUndelegate
  <2>2. ValCancelled(v, amount) \in BoundedRec /\ ValCancelled(v, amount).stake = ValidatorStake(v) + amount
    BY <1>0, <1>2, <1>3, <1>4, ValRecTypes, ValMoves
  <2>3. Grows(v, amount)
    BY <1>0, <1>2, <2>1, <2>2, ValStored
  <2> QED
    BY <1>2, <1>3, <2>1, <2>2, <2>3, StakeVotes
<1>5. CASE ~FitsMaximum(v, amount)
  <2>1. val' = val /\ eligible' = eligible
    BY <1>1, <1>5 DEF cancelUndelegate
  <2>2. /\ \A w \in Validator : ValidatorStake(w)' = ValidatorStake(w)
        /\ \A w \in Validator : Exists(w) => Exists(w)'
    BY <2>1 DEF ValidatorStake, Exists
  <2> QED
    BY <1>3, <2>1, <2>2, QuietVotes
<1> QED
  BY <1>4, <1>5

(* A new voting power for one registered validator.                        *)
LEMMA PowerSet ==
  ASSUME PowerKnown, ActivityOK, NEW v \in Validator, Exists(v), NEW f, defects \subseteq defects',
         factor' = [factor EXCEPT ![v] = f],
         \A w \in Validator : Exists(w) => Exists(w)',
         \A w \in Validator : w # v => (evicting'[w] <=> evicting[w]),
         Spared({"recovery"})' => (evicting'[v] => f = 0),
         loop'.current # Nil => f = 0 /\ loop'.current = v
  PROVE  PowerKnown'
<1>0. factor \in [Validator -> 0..BasisPointsScale]
  BY Zenon DEF ActivityOK
<1>1. Spared({"recovery"})' => Spared({"recovery"})
  BY SparedBefore
<1>2. factor'[v] = f /\ \A w \in Validator : w # v => factor'[w] = factor[w]
  BY <1>0
<1>3. \A w \in Validator : ~Exists(w)' => factor'[w] = BasisPointsScale
  BY <1>2 DEF PowerKnown
<1>4. ASSUME Spared({"recovery"})', NEW w \in Validator, evicting'[w] PROVE factor'[w] = 0
  BY <1>1, <1>2, <1>4, Zenon DEF PowerKnown
<1>5. loop'.current # Nil => factor'[loop'.current] = 0
  BY <1>2
<1> QED
  BY <1>3, <1>4, <1>5, Zenon DEF PowerKnown

(* A distribution begins; the author of the block may get a bonus.         *)
LEMMA DistributeVotes ==
  ASSUME IInv, PowerKnown, EligibleVotesExact, NEW listed \in SUBSET Validator,
         NEW author \in Validator, NEW bonus \in Nat, DistributeRewards(listed, author, bonus)
  PROVE  VotesStep
<1>0. LedgerOK /\ LoopType
  BY DEF IInv
<1>1. /\ factor' = factor /\ evicting' = evicting /\ eligible' = eligible /\ defects' = defects
      /\ loop' = [loop EXCEPT !.todo = listed]
  BY DEF DistributeRewards, activity
<1>2. loop'.current = loop.current
  BY <1>0, <1>1, TodoType
<1>3. \A w \in Validator : ValidatorStake(w)' = ValidatorStake(w) /\ (Exists(w) => Exists(w)')
  <2>1. CASE bonus > 0 /\ Exists(author)
    <3>1. AddValidatorRewards(author, bonus, 0) /\ 0 \in Nat
      BY <2>1 DEF DistributeRewards
    <3> QED
      BY <1>0, <2>1, <3>1, RewardsKeepStakes
  <2>2. CASE ~(bonus > 0 /\ Exists(author))
    <3>1. val' = val
      BY <2>2 DEF DistributeRewards
    <3> QED
      BY <3>1 DEF ValidatorStake, Exists
  <2> QED
    BY <2>1, <2>2
<1> QED
  BY <1>1, <1>2, <1>3, QuietVotes

(* A rewarded validator that was active recovers its full power.           *)
LEMMA RewardVotes ==
  ASSUME IInv, IInv', PowerKnown, EligibleVotesExact, NEW v \in Validator, NEW active \in BOOLEAN,
         NEW reward \in Nat, NEW fees \in Nat, RewardValidator(v, active, reward, fees)
  PROVE  VotesStep
<1>0. /\ LedgerOK /\ ActivityOK /\ LedgerOK' /\ ActivityOK' /\ LoopType /\ LoopOK
      /\ phase = "distribute" /\ v \in loop.todo
  BY DEF IInv, RewardValidator
<1>1. loop' = [loop EXCEPT !.todo = loop.todo \ {v}] /\ evicting' = evicting
  BY DEF RewardValidator
<1>2. loop'.current = loop.current
  <2>1. loop.todo \ {v} \in SUBSET Validator
    BY <1>0 DEF LoopType
  <2> QED
    BY <1>0, <1>1, <2>1, TodoType
<1>3. loop.current = Nil
  BY <1>0, Zenon DEF LoopOK
<1>4. \A w \in Validator : ValidatorStake(w)' = ValidatorStake(w) /\ (Exists(w) => Exists(w)')
  <2>1. CASE Exists(v)
    <3>1. AddValidatorRewards(v, reward, fees)
      BY <2>1 DEF RewardValidator
    <3> QED
      BY <1>0, <2>1, <3>1, RewardsKeepStakes
  <2>2. CASE ~Exists(v)
    <3>1. val' = val
      BY <2>2 DEF RewardValidator
    <3> QED
      BY <3>1 DEF ValidatorStake, Exists
  <2> QED
    BY <2>1, <2>2
<1>5. CASE ~(Exists(v) /\ active)
  <2>1. factor' = factor /\ eligible' = eligible /\ defects' = defects
    BY <1>5, Zenon DEF RewardValidator
  <2> QED
    BY <1>1, <1>2, <1>4, <2>1, QuietVotes
<1>6. CASE Exists(v) /\ active
  <2>1. /\ factor' = [factor EXCEPT ![v] = BasisPointsScale]
        /\ eligible' = eligible + voteCountWithFactor(val[v].stake, BasisPointsScale)
                                - voteCountWithFactor(val[v].stake, factor[v])
        /\ defects' = IF evicting[v] THEN defects \cup {"recovery"} ELSE defects
    BY <1>6, Zenon DEF RewardValidator
  <2>2. defects \subseteq defects' /\ (Spared({"recovery"})' => ~evicting[v])
    <3>1. CASE evicting[v]
      <4>1. defects' = defects \cup {"recovery"}
        BY <2>1, <3>1, Zenon
      <4> QED
        BY <4>1 DEF Spared
    <3>2. CASE ~evicting[v]
      <4>1. defects' = defects
        BY <2>1, <3>2, Zenon
      <4> QED
        BY <3>2, <4>1
    <3> QED
      BY <3>1, <3>2
  <2>3. Spared({"recovery"})' => (evicting'[v] => BasisPointsScale = 0)
    BY <1>1, <2>2
  <2>4. \A w \in Validator : w # v => (evicting'[w] <=> evicting[w])
    BY <1>1
  <2>5. loop'.current = Nil
    BY <1>2, <1>3
  <2>6. PowerKnown'
    BY <1>0, <1>4, <1>6, <2>1, <2>2, <2>3, <2>4, <2>5, PowerSet
  <2>7. ASSUME Spared({"recovery"})' PROVE VotesTrue'
    <3>1. VotesTrue
      BY <2>2, <2>7, SparedBefore, ExactIsTrue
    <3>2. BasisPointsScale \in Nat
      BY DEF BasisPointsScale
    <3> QED
      BY <1>0, <1>4, <1>6, <2>1, <3>1, <3>2, RecountPower
  <2> QED
    BY <2>6, <2>7, ExactIsTrue DEF VotesStep
<1> QED
  BY <1>5, <1>6

(* The scan of the validators: a penalised one votes with less power.      *)
LEMMA ScanVotes ==
  ASSUME IInv, IInv', PowerKnown, EligibleVotesExact, NEW v \in Validator, Scan(v)
  PROVE  VotesStep
<1>0. /\ LedgerOK /\ ActivityOK /\ LedgerOK' /\ ActivityOK' /\ LoopType /\ LoopOK
      /\ phase = "scan" /\ v \in loop.todo
  BY DEF IInv, Scan
<1>1. val' = val /\ evicting' = evicting /\ defects' = defects
  BY DEF Scan, ledger
<1>2. /\ \A w \in Validator : ValidatorStake(w)' = ValidatorStake(w)
      /\ \A w \in Validator : Exists(w) => Exists(w)'
  BY <1>1 DEF ValidatorStake, Exists
<1>3. loop.current = Nil /\ Exists(v)
  <2>1. phase # "resume" /\ phase # "evict" /\ phase \in {"resume", "scan", "evict"}
    BY <1>0
  <2>2. loop.current = Nil
    BY <2>1, <1>0, Zenon DEF LoopOK
  <2>3. v \in loop.todo \cup loop.toEvict
    BY <1>0
  <2> QED
    BY <1>0, <2>1, <2>2, <2>3 DEF LoopOK
<1>4. PICK exempt \in BOOLEAN : exempt <=> (val[v].stake = 0 \/ evicting[v])
  OBVIOUS
<1>5. CASE exempt \/ lastActive[v] = 0 \/ ActiveInEpoch(v)
  <2>1. factor' = factor /\ eligible' = eligible /\ loop' = [loop EXCEPT !.todo = loop.todo \ {v}]
    BY <1>4, <1>5, Zenon DEF Scan
  <2>2. loop.todo \ {v} \in SUBSET Validator
    BY <1>0 DEF LoopType
  <2>3. loop'.current = loop.current
    BY <1>0, <2>1, <2>2, TodoType
  <2> QED
    BY <1>1, <1>2, <2>1, <2>3, QuietVotes
<1>6. CASE ~(exempt \/ lastActive[v] = 0 \/ ActiveInEpoch(v))
  <2>1. Penalise(v) /\ ~evicting[v]
    BY <1>4, <1>6, Zenon DEF Scan
  <2>2. PICK f : f = Decay(factor[v])
    OBVIOUS
  <2>3. f \in Nat
    <3>1. factor[v] \in 0..BasisPointsScale
      BY <1>0, Zenon DEF ActivityOK
    <3> QED
      BY <2>2, <3>1, DecayType, ScaledIsNat
  <2>4. /\ factor' = [factor EXCEPT ![v] = f]
        /\ eligible' = eligible + voteCountWithFactor(val[v].stake, f)
                                - voteCountWithFactor(val[v].stake, factor[v])
    BY <2>1, <2>2 DEF Penalise
  <2>5. loop'.current = Nil
    <3>1. PICK todo, toEvict : loop' = [loop EXCEPT !.todo = todo, !.toEvict = toEvict]
      BY <2>1 DEF Penalise
    <3> QED
      BY <1>0, <1>3, <3>1 DEF LoopType
  <2>6. /\ \A w \in Validator : w # v => (evicting'[w] <=> evicting[w])
        /\ Spared({"recovery"})' => (evicting'[v] => f = 0)
    BY <1>1, <2>1
  <2>7. PowerKnown'
    BY <1>0, <1>1, <1>2, <1>3, <2>4, <2>5, <2>6, PowerSet
  <2>8. ASSUME Spared({"recovery"})' PROVE VotesTrue'
    <3>1. VotesTrue
      BY <1>1, <2>8, SparedBefore, ExactIsTrue
    <3> QED
      BY <1>0, <1>2, <1>3, <2>3, <2>4, <3>1, RecountPower
  <2> QED
    BY <2>7, <2>8, ExactIsTrue DEF VotesStep
<1> QED
  BY <1>5, <1>6

(* A validator loses its votes, whether or not its eviction begins.        *)
LEMMA StopVotes ==
  ASSUME IInv, IInv', PowerKnown, EligibleVotesExact, NEW v \in Validator, Exists(v), val' = val,
         defects' = defects, StopVoting(v), loop'.current = v \/ loop'.current = Nil
  PROVE  VotesStep
<1>0. LedgerOK /\ ActivityOK /\ LedgerOK' /\ ActivityOK' /\ evicting \in [Validator -> BOOLEAN]
  BY DEF IInv, ActivityOK
<1>1. factor' = [factor EXCEPT ![v] = 0] /\ evicting' = [evicting EXCEPT ![v] = TRUE]
  BY DEF StopVoting
<1>2. \A w \in Validator : w # v => (evicting'[w] <=> evicting[w])
  BY <1>0, <1>1, Zenon
<1>3. \A w \in Validator : Exists(w) => Exists(w)'
  BY DEF Exists
<1>4. PICK z : z = 0
  OBVIOUS
<1>5. PowerKnown'
  BY <1>0, <1>1, <1>2, <1>3, <1>4, PowerSet
<1>6. ASSUME Spared({"recovery"})' PROVE VotesTrue'
  <2>1. VotesTrue
    BY <1>6, SparedBefore, ExactIsTrue
  <2> QED
    BY <1>0, <2>1, RecountStop
<1> QED
  BY <1>5, <1>6, ExactIsTrue DEF VotesStep

(* forceEvictValidator: one that is being evicted has no votes any more.   *)
LEMMA ForceEvictVotes ==
  ASSUME IInv, IInv', PowerKnown, EligibleVotesExact, phase \in {"resume", "evict"},
         loop.current = Nil, NEW v \in Validator, v \in loop.todo, forceEvictValidator(v)
  PROVE  VotesStep
<1>0. LoopType /\ LoopOK
  BY DEF IInv
<1>1. Exists(v)
  <2>1. v \in loop.todo \cup loop.toEvict /\ phase \in {"resume", "scan", "evict"}
    OBVIOUS
  <2> QED
    BY <1>0, <2>1 DEF LoopOK
<1>2. val' = val /\ defects' = defects
  BY DEF forceEvictValidator, ledger
<1>3. loop'.current = v
  <2>1. PICK page \in SUBSET {d \in Delegator : Delegated(d, v)} :
          loop' = [loop EXCEPT !.todo = loop.todo \ {v}, !.current = v, !.page = page,
                               !.end = (page = {d \in Delegator : Delegated(d, v)}),
                               !.budget = loop.budget - Cardinality(page)]
    BY Zenon DEF forceEvictValidator
  <2> QED
    BY <1>0, <2>1 DEF LoopType
<1>4. CASE evicting[v]
  <2>1. eligible' = eligible /\ factor' = factor /\ evicting' = evicting
    BY <1>4, Zenon DEF forceEvictValidator
  <2>2. /\ \A w \in Validator : ValidatorStake(w)' = ValidatorStake(w)
        /\ \A w \in Validator : Exists(w) => Exists(w)'
    BY <1>2 DEF ValidatorStake, Exists
  <2>3. PowerKnown'
    <3>1. \A w \in Validator : ~Exists(w)' => factor'[w] = BasisPointsScale
      BY <2>1, <2>2 DEF PowerKnown
    <3>2. ASSUME Spared({"recovery"})'
          PROVE  /\ \A w \in Validator : evicting'[w] => factor'[w] = 0
                 /\ factor'[loop'.current] = 0
      <4>1. Spared({"recovery"})
        BY <1>2, <3>2, SparedBefore
      <4>2. \A w \in Validator : evicting[w] => factor[w] = 0
        BY <4>1, Zenon DEF PowerKnown
      <4> QED
        BY <1>3, <1>4, <2>1, <4>2, Zenon
    <3> QED
      BY <3>1, <3>2, Zenon DEF PowerKnown
  <2>4. ASSUME Spared({"recovery"})' PROVE VotesTrue'
    <3>1. VotesTrue
      BY <1>2, <2>4, SparedBefore, ExactIsTrue
    <3> QED
      BY <2>1, <2>2, <3>1, VotesKept
  <2> QED
    BY <2>3, <2>4, ExactIsTrue DEF VotesStep
<1>5. CASE ~evicting[v]
  <2>1. StopVoting(v)
    BY <1>5, Zenon DEF forceEvictValidator
  <2> QED
    BY <1>1, <1>2, <1>3, <2>1, StopVotes
<1> QED
  BY <1>4, <1>5

(* StartEviction, with budget or without.                                  *)
LEMMA StartVotes ==
  ASSUME IInv, IInv', PowerKnown, EligibleVotesExact, NEW v \in Validator, StartEviction(v)
  PROVE  VotesStep
<1>0. /\ LoopType /\ LoopOK /\ phase = "evict" /\ loop.current = Nil /\ v \in loop.todo
  BY DEF IInv, StartEviction
<1>1. CASE forceEvictValidator(v)
  BY <1>0, <1>1, ForceEvictVotes
<1>2. CASE ~forceEvictValidator(v)
  <2>1. StopVoting(v) /\ loop' = [loop EXCEPT !.todo = loop.todo \ {v}] /\ val' = val /\ defects' = defects
    BY <1>2 DEF StartEviction, ledger
  <2>2. loop.todo \ {v} \in SUBSET Validator
    BY <1>0 DEF LoopType
  <2>3. loop'.current = Nil
    BY <1>0, <2>1, <2>2, TodoType
  <2>4. Exists(v)
    <3>1. v \in loop.todo \cup loop.toEvict /\ phase \in {"resume", "scan", "evict"}
      BY <1>0
    <3> QED
      BY <1>0, <3>1 DEF LoopOK
  <2> QED
    BY <2>1, <2>3, <2>4, StopVotes
<1> QED
  BY <1>1, <1>2

(* undelegateInternal takes stake from a validator without power.          *)
LEMMA EvictionVotes ==
  ASSUME IInv, IInv', PowerKnown, EligibleVotesExact, NEW d \in Delegator, undelegateInternal(d)
  PROVE  VotesStep
<1>0. LedgerOK /\ ActivityOK /\ LedgerOK' /\ ActivityOK' /\ LoopType
  BY DEF IInv
<1>1. PICK v \in Validator :
           /\ v = loop.current /\ Exists(v) /\ Delegated(d, v)
           /\ Grows(v, -del[d][v].stake)
  BY EvictionMoves
<1>2. /\ factor' = factor /\ evicting' = evicting /\ eligible' = eligible /\ defects' = defects
      /\ loop.current # Nil
  BY DEF undelegateInternal, activity
<1>3. loop'.current = loop.current
  <2>1. PICK page : loop' = [loop EXCEPT !.page = page]
    BY DEF undelegateInternal
  <2> QED
    BY <1>0, <2>1 DEF LoopType
<1>4. \A w \in Validator : Exists(w) => Exists(w)'
  <2>1. PICK r : r = WithoutDelegation(v, del[d][v].stake)
    OBVIOUS
  <2>2. val' = [val EXCEPT ![v] = r]
    BY <1>1, <2>1 DEF undelegateInternal
  <2>3. \A w \in Validator : w # v => val'[w] = val[w]
    BY <1>0, <2>2 DEF LedgerOK
  <2>4. loop'.current # Nil /\ LoopOK'
    BY <1>2, <1>3 DEF IInv
  <2>5. Exists(v)'
    BY <1>1, <1>3, <2>4 DEF LoopOK, Exists
  <2> QED
    BY <2>3, <2>5 DEF Exists
<1>5. PowerKnown'
  BY <1>2, <1>3, <1>4, PowerFrame
<1>6. ASSUME Spared({"recovery"})' PROVE VotesTrue'
  <2>1. VotesTrue /\ Spared({"recovery"})
    BY <1>2, <1>6, SparedBefore, ExactIsTrue
  <2>2. factor[v] = 0 /\ factor'[v] = 0
    BY <1>1, <1>2, <2>1 DEF PowerKnown
  <2>3. ValidatorStake(v) \in Int /\ ValidatorStake(v)' \in Int
    BY <1>0, StakeTypes, StakeTypesNext
  <2>4. Votes(v) = 0
    BY <2>2, <2>3, NoVotes DEF Votes
  <2>5. Votes(v)' = 0
    <3>1. PICK p : p = ValidatorStake(v)'
      OBVIOUS
    <3>2. Votes(v)' = voteCountWithFactor(p, 0)
      BY <2>2, <3>1, VotesNext
    <3> QED
      BY <2>3, <3>1, <3>2, NoVotes
  <2>6. \A w \in Validator : w # v => Votes(w)' = Votes(w)
    BY <1>1, <1>2 DEF Grows, Votes, voteCountWithFactor
  <2>7. \A w \in Validator : Votes(w)' = Votes(w)
    BY <2>4, <2>5, <2>6
  <2> QED
    BY <1>2, <2>1, <2>7, RecountSame
<1> QED
  BY <1>5, <1>6, ExactIsTrue DEF VotesStep

(* EndEviction: the eviction goes on later or is over.                     *)
LEMMA EndEvictionVotes ==
  ASSUME IInv, PowerKnown, EligibleVotesExact, EndEviction
  PROVE  VotesStep
<1>0. LoopType /\ evicting \in [Validator -> BOOLEAN]
  BY DEF IInv, ActivityOK
<1>1. /\ factor' = factor /\ val' = val /\ eligible' = eligible /\ defects' = defects
      /\ loop.current # Nil /\ loop' = [loop EXCEPT !.current = Nil, !.end = FALSE]
      /\ evicting' = [evicting EXCEPT ![loop.current] = ~loop.end]
  BY DEF EndEviction, ledger
<1>2. loop'.current = Nil
  BY <1>0, <1>1 DEF LoopType
<1>3. /\ \A w \in Validator : ValidatorStake(w)' = ValidatorStake(w)
      /\ \A w \in Validator : Exists(w) <=> Exists(w)'
  BY <1>1 DEF ValidatorStake, Exists
<1>4. \A w \in Validator : w # loop.current => (evicting'[w] <=> evicting[w])
  BY <1>0, <1>1, Zenon
<1>5. PowerKnown'
  <2>1. \A w \in Validator : ~Exists(w)' => factor'[w] = BasisPointsScale
    BY <1>1, <1>3 DEF PowerKnown
  <2>2. ASSUME Spared({"recovery"})', NEW w \in Validator, evicting'[w] PROVE factor'[w] = 0
    <3>1. Spared({"recovery"})
      BY <1>1, <2>2, SparedBefore
    <3>2. CASE w = loop.current
      BY <1>1, <3>1, <3>2, Zenon DEF PowerKnown
    <3>3. CASE w # loop.current
      BY <1>1, <1>4, <2>2, <3>1, <3>3, Zenon DEF PowerKnown
    <3> QED
      BY <3>2, <3>3
  <2> QED
    BY <1>2, <2>1, <2>2, Zenon DEF PowerKnown
<1>6. ASSUME Spared({"recovery"})' PROVE VotesTrue'
  <2>1. VotesTrue
    BY <1>1, <1>6, SparedBefore, ExactIsTrue
  <2> QED
    BY <1>1, <1>3, <2>1, VotesKept
<1> QED
  BY <1>5, <1>6, ExactIsTrue DEF VotesStep

(* The ends of the loops and of the block.                                 *)
LEMMA BookkeepingVotes ==
  ASSUME IInv, PowerKnown, EligibleVotesExact,
         EndGenesis \/ EndDistribution \/ EndResume \/ EndScan \/ EndPenalties \/ EndBlock
           \/ UNCHANGED vars
  PROVE  VotesStep
<1>0. LoopType
  BY DEF IInv
<1>1. val' = val /\ factor' = factor /\ evicting' = evicting /\ eligible' = eligible /\ defects' = defects
  BY DEF EndGenesis, EndDistribution, EndResume, EndScan, EndPenalties, EndBlock, vars, ledger, activity
<1>2. loop'.current = loop.current \/ loop'.current = Nil
  <2>1. \/ loop' = loop \/ loop' = NoLoop
        \/ \E todo, budget : loop' = [loop EXCEPT !.todo = todo, !.budget = budget]
        \/ \E todo : loop' = [loop EXCEPT !.todo = todo]
        \/ \E todo, toEvict : loop' = [loop EXCEPT !.todo = todo, !.toEvict = toEvict]
    BY DEF EndGenesis, EndDistribution, EndResume, EndScan, EndPenalties, EndBlock, vars, control
  <2>2. CASE loop' = NoLoop
    BY <2>2 DEF NoLoop
  <2>3. CASE \E todo, budget : loop' = [loop EXCEPT !.todo = todo, !.budget = budget]
    BY <1>0, <2>3 DEF LoopType
  <2>4. CASE \E todo : loop' = [loop EXCEPT !.todo = todo]
    BY <1>0, <2>4 DEF LoopType
  <2>5. CASE \E todo, toEvict : loop' = [loop EXCEPT !.todo = todo, !.toEvict = toEvict]
    BY <1>0, <2>5 DEF LoopType
  <2> QED
    BY <2>1, <2>2, <2>3, <2>4, <2>5
<1>3. /\ \A w \in Validator : ValidatorStake(w)' = ValidatorStake(w)
      /\ \A w \in Validator : Exists(w) => Exists(w)'
  BY <1>1 DEF ValidatorStake, Exists
<1> QED
  BY <1>1, <1>2, <1>3, QuietVotes

(* Every step keeps the recount.                                           *)
LEMMA StepVotes ==
  ASSUME IInv, IInv', PowerKnown, EligibleVotesExact, [Next]_vars
  PROVE  VotesStep
<1>0. Amounts \subseteq Nat /\ Commissions \subseteq Nat /\ Rewards \subseteq Nat
  BY InputAssumption
<1>1. CASE Genesis
  <2>1. ASSUME NEW v \in Validator, NEW d \in Delegator, NEW c \in Commissions, GenesisValidator(v, d, c)
        PROVE  VotesStep
    <3>1. registerValidatorWithoutChecks(v, d, 0, c) /\ 0 \in Nat /\ c \in Nat
      BY <1>0, <2>1 DEF GenesisValidator
    <3> QED
      BY <3>1, RegisterVotes
  <2>2. ASSUME NEW v \in Validator, NEW d \in Delegator, NEW a \in Amounts, GenesisDelegation(d, v, a)
        PROVE  VotesStep
    <3>1. delegate(d, v, a) /\ a \in Nat
      BY <1>0, <2>2 DEF GenesisDelegation
    <3> QED
      BY <3>1, MovingVotes
  <2> QED
    BY <1>1, <2>1, <2>2, BookkeepingVotes DEF Genesis
<1>2. CASE Transaction
  <2>1. ASSUME NEW d \in Delegator, NEW v \in Validator, NEW a \in Amounts, NEW c \in Commissions,
               registerValidator(v, d, a, c)
        PROVE  VotesStep
    <3>1. registerValidatorWithoutChecks(v, d, a, c) /\ a \in Nat /\ c \in Nat
      BY <1>0, <2>1 DEF registerValidator
    <3> QED
      BY <3>1, RegisterVotes
  <2>2. ASSUME NEW d \in Delegator, NEW v \in Validator, NEW a \in Amounts,
               Delegate(d, v, a) \/ undelegate(d, v, a)
        PROVE  VotesStep
    <3>1. a \in Nat /\ (delegate(d, v, a) \/ undelegate(d, v, a))
      BY <1>0, <2>2 DEF Delegate
    <3> QED
      BY <3>1, MovingVotes
  <2>3. ASSUME NEW d \in Delegator, NEW v \in Validator, NEW t \in Validator, NEW a \in Amounts,
               redelegate(d, v, t, a)
        PROVE  VotesStep
    BY <1>0, <2>3, RedelegateVotes
  <2>4. ASSUME NEW d \in Delegator, NEW v \in Validator, claimRewards(d, v) PROVE VotesStep
    <3>1. ClaimFrom(d, {v}) /\ {v} \in SUBSET Validator
      BY <2>4 DEF claimRewards
    <3> QED
      BY <3>1, ClaimVotes
  <2>5. ASSUME NEW d \in Delegator, NEW v \in Validator, claimCommissionRewards(d, v) PROVE VotesStep
    <3>1. 0 \in Nat
      OBVIOUS
    <3> QED
      BY <2>5, <3>1, CommissionVotes
  <2>6. ASSUME NEW d \in Delegator, NEW v \in Validator, NEW c \in Commissions, setCommission(d, v, c)
        PROVE  VotesStep
    BY <1>0, <2>6, CommissionVotes
  <2>7. ASSUME NEW u \in und, confirmUndelegate(u) \/ cancelUndelegate(u) PROVE VotesStep
    BY <2>7, ConfirmVotes, CancelVotes
  <2>8. ASSUME NEW d \in Delegator, claimAllRewards(d) PROVE VotesStep
    <3>1. PICK from \in SUBSET Validator : ClaimFrom(d, from)
      BY <2>8, ClaimsSome
    <3> QED
      BY <3>1, ClaimVotes
  <2> QED
    BY <1>2, <2>1, <2>2, <2>3, <2>4, <2>5, <2>6, <2>7, <2>8 DEF Transaction
<1>3. CASE Distribution
  <2>1. ASSUME NEW listed \in SUBSET Validator, NEW author \in Validator, NEW r \in Rewards,
               DistributeRewards(listed, author, r)
        PROVE  VotesStep
    BY <1>0, <2>1, DistributeVotes
  <2>2. ASSUME NEW v \in Validator, NEW active \in BOOLEAN, NEW r \in Rewards, NEW f \in Rewards,
               RewardValidator(v, active, r, f)
        PROVE  VotesStep
    BY <1>0, <2>2, RewardVotes
  <2> QED
    BY <1>3, <2>1, <2>2, BookkeepingVotes DEF Distribution
<1>4. CASE Penalties
  <2>1. ASSUME NEW v \in Validator, ResumeEviction(v) PROVE VotesStep
    <3>1. phase \in {"resume", "evict"} /\ loop.current = Nil /\ v \in loop.todo /\ forceEvictValidator(v)
      BY <2>1 DEF ResumeEviction
    <3> QED
      BY <3>1, ForceEvictVotes
  <2> QED
    BY <1>4, <2>1, ScanVotes, StartVotes, EvictionVotes, EndEvictionVotes, BookkeepingVotes DEF Penalties
<1> QED
  BY <1>1, <1>2, <1>3, <1>4, BookkeepingVotes DEF Next

(* At the start there is nothing to count.                                 *)
LEMMA InitVotes == Init => PowerKnown /\ EligibleVotesExact
<1> SUFFICES ASSUME Init PROVE PowerKnown /\ EligibleVotesExact
  OBVIOUS
<1>1. /\ \A v \in Validator : ~Exists(v) /\ factor[v] = BasisPointsScale
      /\ \A v \in Validator : ~evicting[v]
      /\ loop.current = Nil /\ eligible = 0
  BY DEF Init, Exists, NoLoop
<1>2. PowerKnown
  BY <1>1, Zenon DEF PowerKnown
<1>3. \A v \in Validator : Votes(v) = 0
  <2>1. BasisPointsScale \in Nat
    BY DEF BasisPointsScale
  <2> QED
    BY <1>1, <2>1, NoVotes DEF Votes, ValidatorStake
<1>4. VotesTrue
  <2>1. PICK f : f = [v \in Validator |-> Votes(v)]
    OBVIOUS
  <2>2. \A v \in Validator : f[v] = 0
    BY <1>3, <2>1
  <2>3. SumFunctionOnSet(f, Validator) = 0
    BY <2>2, InputAssumption, SumZero
  <2> QED
    BY <1>1, <2>1, <2>3 DEF VotesTrue, VotesTotal
<1> QED
  BY <1>2, <1>4, ExactIsTrue

(***************************************************************************)
(* eligible_vote_count, which every method and every penalty updates by    *)
(* differences, is the recount over all validators, however many there     *)
(* are, unless a validator recovered its power during its own eviction.    *)
(***************************************************************************)
THEOREM VotesAddUp == Spec => []EligibleVotesExact
<1>1. IInv /\ PowerKnown /\ EligibleVotesExact /\ [Next]_vars
        => IInv' /\ PowerKnown' /\ EligibleVotesExact'
  <2> SUFFICES ASSUME IInv, PowerKnown, EligibleVotesExact, [Next]_vars
               PROVE  IInv' /\ PowerKnown' /\ EligibleVotesExact'
    OBVIOUS
  <2>1. IInv'
    BY StepPreserves
  <2> QED
    BY <2>1, StepVotes DEF VotesStep
<1> QED
  BY <1>1, InitIInv, InitVotes, PTL DEF Spec

-----------------------------------------------------------------------------
(* The references to the reward states.                                    *)

(* A minimum deposit, which makes every accepted delegation one of stake.  *)
AllPositive == \A d \in Delegator, v \in Validator : Delegated(d, v) => del[d][v].stake > 0

Positive == Spared({"zero"}) => AllPositive

PositiveStep == AllPositive /\ Spared({"zero"})' => AllPositive'

(* Storing a delegation with stake, or removing one.                       *)
LEMMA PositiveStored ==
  ASSUME LedgerOK, NEW d \in Delegator, NEW v \in Validator, NEW r,
         r # Nil => r.stake > 0, del' = [del EXCEPT ![d][v] = r]
  PROVE  PositiveStep
<1> SUFFICES ASSUME AllPositive PROVE AllPositive'
  BY DEF PositiveStep
<1>1. /\ del'[d][v] = r
      /\ \A e \in Delegator, w \in Validator : ~(e = d /\ w = v) => del'[e][w] = del[e][w]
  BY DEF LedgerOK
<1> QED
  BY <1>1 DEF AllPositive, Delegated

(* Delegations that are not touched.                                       *)
LEMMA PositiveKept ==
  ASSUME del' = del
  PROVE  PositiveStep
BY DEF PositiveStep, AllPositive, Delegated

(* registerValidator and delegate, in transactions and in the genesis.     *)
LEMMA DepositsPositive ==
  ASSUME MinimumDeposit > 0, IInv, NEW d \in Delegator, NEW v \in Validator, NEW amount \in Nat,
         delegate(d, v, amount) \/ \E c \in Nat : registerValidatorWithoutChecks(v, d, amount, c)
  PROVE  PositiveStep
<1>0. LedgerOK /\ block \in Blocks /\ MinimumDeposit \in Nat
  BY ConfigAssumption DEF IInv, ControlOK
<1> SUFFICES ASSUME AllPositive PROVE PositiveStep
  BY DEF PositiveStep
<1>1. CASE delegate(d, v, amount)
  <2>1. PICK r : r = Credited(d, v, amount)
    OBVIOUS
  <2>2. del' = [del EXCEPT ![d][v] = r] /\ (Delegated(d, v) \/ amount >= MinimumDeposit)
    BY <1>1, <2>1 DEF delegate
  <2>3. r.stake = StakeOf(d, v) + amount /\ StakeOf(d, v) \in Nat
    BY <1>0, <2>1, CreditMoves, StakeTypes
  <2>4. Delegated(d, v) => StakeOf(d, v) > 0
    BY DEF StakeOf, AllPositive
  <2>5. r.stake > 0
    BY <1>0, <2>2, <2>3, <2>4
  <2> QED
    BY <1>0, <2>2, <2>5, PositiveStored
<1>2. CASE \E c \in Nat : registerValidatorWithoutChecks(v, d, amount, c)
  <2>1. CASE amount > 0
    <3>1. PICK r : r = [stake |-> amount, last |-> block]
      OBVIOUS
    <3>2. del' = [del EXCEPT ![d][v] = r] /\ r.stake > 0
      BY <1>2, <2>1, <3>1 DEF registerValidatorWithoutChecks
    <3> QED
      BY <1>0, <3>2, PositiveStored
  <2>2. CASE ~(amount > 0)
    BY <1>2, <2>2, PositiveKept DEF registerValidatorWithoutChecks
  <2> QED
    BY <2>1, <2>2
<1> QED
  BY <1>1, <1>2

(* What a withdrawal leaves is nothing or at least the minimum deposit.    *)
LEMMA DebitedPositive ==
  ASSUME MinimumDeposit > 0, LedgerOK, NEW d \in Delegator, NEW v \in Validator, NEW amount \in Nat,
         MayWithdraw(d, v, amount)
  PROVE  Debited(d, v, amount) # Nil => Debited(d, v, amount).stake > 0
<1>1. MinimumDeposit \in Nat /\ del[d][v].stake \in Nat
  BY ConfigAssumption DEF LedgerOK, MayWithdraw, Delegated, DelegationRec
<1>2. amount # del[d][v].stake => del[d][v].stake - amount > 0
  BY <1>1 DEF MayWithdraw
<1> QED
  BY <1>2 DEF Debited

(* Withdrawals, redelegations, cancelled undelegations and claims.         *)
LEMMA MovesPositive ==
  ASSUME MinimumDeposit > 0, IInv, Transaction
  PROVE  PositiveStep
<1>0. /\ LedgerOK /\ block \in Blocks /\ MinimumDeposit \in Nat /\ Amounts \subseteq Nat
      /\ Commissions \subseteq Nat
  BY ConfigAssumption, InputAssumption DEF IInv, ControlOK
<1> SUFFICES ASSUME AllPositive PROVE PositiveStep
  BY DEF PositiveStep
<1>1. ASSUME NEW d \in Delegator, NEW v \in Validator, NEW a \in Amounts, NEW c \in Commissions,
             registerValidator(v, d, a, c)
      PROVE  PositiveStep
  BY <1>0, <1>1, DepositsPositive DEF registerValidator
<1>d. ASSUME NEW d \in Delegator, NEW v \in Validator, NEW a \in Amounts, Delegate(d, v, a)
      PROVE  PositiveStep
  BY <1>0, <1>d, DepositsPositive DEF Delegate
<1>2. ASSUME NEW d \in Delegator, NEW v \in Validator, NEW a \in Amounts, undelegate(d, v, a)
      PROVE  PositiveStep
  <2>1. PICK r : r = Debited(d, v, a)
    OBVIOUS
  <2>2. del' = [del EXCEPT ![d][v] = r] /\ MayWithdraw(d, v, a) /\ a \in Nat
    BY <1>0, <1>2, <2>1 DEF undelegate
  <2>3. r # Nil => r.stake > 0
    BY <1>0, <2>1, <2>2, DebitedPositive
  <2> QED
    BY <1>0, <2>2, <2>3, PositiveStored
<1>3. ASSUME NEW d \in Delegator, NEW f \in Validator, NEW t \in Validator, NEW a \in Amounts,
             redelegate(d, f, t, a)
      PROVE  PositiveStep
  <2>1. PICK r, q : r = Debited(d, f, a) /\ q = Credited(d, t, a)
    OBVIOUS
  <2>2. /\ del' = [del EXCEPT ![d][f] = r, ![d][t] = q] /\ MayWithdraw(d, f, a) /\ a \in Nat /\ a > 0
        /\ f # t
    BY <1>0, <1>3, <2>1 DEF redelegate
  <2>3. r # Nil => r.stake > 0
    BY <1>0, <2>1, <2>2, DebitedPositive
  <2>4. q.stake > 0
    <3>1. q.stake = StakeOf(d, t) + a /\ StakeOf(d, t) \in Nat
      BY <1>0, <2>1, <2>2, CreditMoves, StakeTypes
    <3> QED
      BY <2>2, <3>1
  <2>5. /\ del'[d][f] = r /\ del'[d][t] = q
        /\ \A e \in Delegator, w \in Validator :
             ~(e = d /\ (w = f \/ w = t)) => del'[e][w] = del[e][w]
    BY <1>0, <2>2 DEF LedgerOK
  <2>6. AllPositive'
    BY <2>3, <2>4, <2>5 DEF AllPositive, Delegated
  <2> QED
    BY <2>6 DEF PositiveStep
<1>4. ASSUME NEW u \in und, cancelUndelegate(u) PROVE PositiveStep
  <2>1. PICK d, v, a : d = u.delegator /\ v = u.validator /\ a = u.amount
    OBVIOUS
  <2>2. d \in Delegator /\ v \in Validator /\ a \in Nat
    BY <1>0, <2>1 DEF LedgerOK, UndelegationRec
  <2>3. PICK r : r = Credited(d, v, a)
    OBVIOUS
  <2>4. del' = [del EXCEPT ![d][v] = r] /\ Exists(v)
    BY <1>4, <2>1, <2>3 DEF cancelUndelegate
  <2>5. r.stake = StakeOf(d, v) + a /\ StakeOf(d, v) \in Nat
    BY <1>0, <2>2, <2>3, CreditMoves, StakeTypes
  <2>6. CASE r.stake > 0
    BY <1>0, <2>2, <2>4, <2>6, PositiveStored
  <2>7. CASE ~(r.stake > 0)
    <3>1. r.stake = 0 /\ a = 0
      BY <2>2, <2>5, <2>7
    <3>2. val[v].stake \in Int /\ val[v].stake <= ValidatorMaximumStake
      BY <1>0, <2>2, <2>4 DEF LedgerOK, Exists, BoundedRec, ValidatorRec
    <3>3. FitsMaximum(v, a)
      BY <3>1, <3>2, ConfigAssumption DEF FitsMaximum
    <3>4. "zero" \in defects'
      BY <1>4, <2>1, <2>3, <3>1, <3>3 DEF cancelUndelegate
    <3> QED
      BY <3>4 DEF PositiveStep, Spared
  <2> QED
    BY <2>6, <2>7
<1>5. ASSUME NEW d \in Delegator, NEW from \in SUBSET Validator, ClaimFrom(d, from)
      PROVE  PositiveStep
  <2>1. \A e \in Delegator, w \in Validator :
          del'[e][w] = IF e = d /\ w \in from THEN [stake |-> del[e][w].stake, last |-> block]
                       ELSE del[e][w]
    BY <1>0, <1>5 DEF ClaimFrom, LedgerOK
  <2>2. \A w \in from : Delegated(d, w)
    BY <1>5 DEF ClaimFrom
  <2>3. ASSUME NEW e \in Delegator, NEW w \in Validator, del'[e][w] # Nil PROVE del'[e][w].stake > 0
    <3>1. CASE e = d /\ w \in from
      <4>1. del'[e][w] = [stake |-> del[e][w].stake, last |-> block]
        BY <2>1, <3>1
      <4>2. del[e][w].stake > 0
        BY <2>2, <3>1 DEF AllPositive
      <4> QED
        BY <4>1, <4>2
    <3>2. CASE ~(e = d /\ w \in from)
      BY <2>1, <2>3, <3>2 DEF AllPositive, Delegated
    <3> QED
      BY <3>1, <3>2
  <2> QED
    BY <2>3 DEF PositiveStep, AllPositive, Delegated
<1>6. ASSUME NEW d \in Delegator, NEW v \in Validator, claimRewards(d, v) PROVE PositiveStep
  <2>1. ClaimFrom(d, {v}) /\ {v} \in SUBSET Validator
    BY <1>6 DEF claimRewards
  <2> QED
    BY <1>5, <2>1
<1>7. ASSUME NEW d \in Delegator, claimAllRewards(d) PROVE PositiveStep
  <2>1. PICK from \in SUBSET Validator : ClaimFrom(d, from)
    BY <1>7, ClaimsSome
  <2> QED
    BY <1>5, <2>1
<1>8. ASSUME NEW d \in Delegator, NEW v \in Validator, NEW c \in Commissions, setCommission(d, v, c)
      PROVE  PositiveStep
  BY <1>8, PositiveKept DEF setCommission
<1>c. ASSUME NEW d \in Delegator, NEW v \in Validator, claimCommissionRewards(d, v)
      PROVE  PositiveStep
  BY <1>c, PositiveKept DEF claimCommissionRewards
<1>9. ASSUME NEW u \in und, confirmUndelegate(u) PROVE PositiveStep
  BY <1>9, PositiveKept DEF confirmUndelegate
<1> QED
  BY <1>1, <1>d, <1>2, <1>3, <1>4, <1>6, <1>7, <1>8, <1>c, <1>9 DEF Transaction

(* The steps outside transactions.                                         *)
LEMMA OthersPositive ==
  ASSUME MinimumDeposit > 0, IInv, Genesis \/ Distribution \/ Penalties \/ EndBlock \/ UNCHANGED vars
  PROVE  PositiveStep
<1>0. LedgerOK /\ LoopType /\ Amounts \subseteq Nat /\ Commissions \subseteq Nat
  BY InputAssumption DEF IInv
<1>1. CASE Genesis
  <2>1. ASSUME NEW v \in Validator, NEW d \in Delegator, NEW c \in Commissions, GenesisValidator(v, d, c)
        PROVE  PositiveStep
    BY <1>0, <2>1, DepositsPositive DEF GenesisValidator
  <2>2. ASSUME NEW v \in Validator, NEW d \in Delegator, NEW a \in Amounts, GenesisDelegation(d, v, a)
        PROVE  PositiveStep
    BY <1>0, <2>2, DepositsPositive DEF GenesisDelegation
  <2>3. ASSUME EndGenesis PROVE PositiveStep
    BY <2>3, PositiveKept DEF EndGenesis, ledger
  <2> QED
    BY <1>1, <2>1, <2>2, <2>3 DEF Genesis
<1>2. CASE \E d \in Delegator : undelegateInternal(d)
  <2>1. PICK d \in Delegator : undelegateInternal(d)
    BY <1>2
  <2>2. PICK v : v = loop.current
    OBVIOUS
  <2>3. v \in Validator /\ del' = [del EXCEPT ![d][v] = Nil]
    BY <1>0, <2>1, <2>2 DEF undelegateInternal, LoopType
  <2> QED
    BY <1>0, <2>3, PositiveStored
<1>3. CASE ~(\E d \in Delegator : undelegateInternal(d)) /\ ~Genesis
  <2>1. del' = del
    BY <1>3 DEF Distribution, Penalties, DistributeRewards, RewardValidator, EndDistribution,
         ResumeEviction, forceEvictValidator, EndResume, Scan, EndScan, StartEviction, EndEviction,
         EndPenalties, EndBlock, ledger, vars
  <2> QED
    BY <2>1, PositiveKept
<1> QED
  BY <1>1, <1>2, <1>3

(* Every step keeps delegations positive.                                  *)
LEMMA StepPositive ==
  ASSUME MinimumDeposit > 0, IInv, IInv', Positive, [Next]_vars
  PROVE  Positive'
<1>1. PositiveStep
  BY MovesPositive, OthersPositive DEF Next
<1>2. defects \subseteq defects'
  BY StepStakes DEF IInv
<1>3. Spared({"zero"})' => Spared({"zero"})
  BY <1>2, SparedBefore
<1> QED
  BY <1>1, <1>3 DEF Positive, PositiveStep

(* Who refers to the state of v at block b: delegators, and v itself.      *)
Holders(v, b) == {d \in Delegator : Delegated(d, v) /\ del[d][v].last = b}

Points(r, b) == IF r # Nil /\ r.last = b THEN 1 ELSE 0

RefsHeld(v) == \A b \in Blocks : Refs(v, b) <= st[v][b].count

(* Sets that differ in at most one element.                                *)
LEMMA SetsNearlyEqual ==
  ASSUME NEW S, NEW T, NEW x, IsFiniteSet(S), IsFiniteSet(T), S \ {x} = T \ {x}
  PROVE  Cardinality(T) = Cardinality(S) - (IF x \in S THEN 1 ELSE 0) + (IF x \in T THEN 1 ELSE 0)
<1>1. Cardinality(S) \in Nat /\ Cardinality(T) \in Nat
  BY FS_CardinalityType
<1>2. Cardinality(S \ {x}) = IF x \in S THEN Cardinality(S) - 1 ELSE Cardinality(S)
  BY FS_RemoveElement
<1>3. Cardinality(T \ {x}) = IF x \in T THEN Cardinality(T) - 1 ELSE Cardinality(T)
  BY FS_RemoveElement
<1> QED
  BY <1>1, <1>2, <1>3

(* References are those of the delegators and that of the validator.       *)
LEMMA RefsParts ==
  ASSUME NEW v \in Validator, NEW b \in Blocks
  PROVE  /\ Refs(v, b) = Cardinality(Holders(v, b)) + Points(val[v], b)
         /\ Refs(v, b)' = Cardinality(Holders(v, b)') + Points(val'[v], b)
         /\ IsFiniteSet(Holders(v, b)) /\ IsFiniteSet(Holders(v, b)')
         /\ Cardinality(Holders(v, b)) \in Nat /\ Cardinality(Holders(v, b)') \in Nat
<1>1. Holders(v, b) \in SUBSET Delegator /\ Holders(v, b)' \in SUBSET Delegator
  BY DEF Holders
<1>2. IsFiniteSet(Holders(v, b)) /\ IsFiniteSet(Holders(v, b)')
  BY <1>1, InputAssumption, FS_Subset
<1>3. Cardinality(Holders(v, b)) \in Nat /\ Cardinality(Holders(v, b)') \in Nat
  BY <1>2, FS_CardinalityType
<1>4. Refs(v, b) = Cardinality(Holders(v, b)) + Points(val[v], b)
  BY DEF Refs, Holders, Points, Exists
<1>5. Refs(v, b)' = Cardinality(Holders(v, b)') + Points(val'[v], b)
  BY DEF Refs, Holders, Points, Exists
<1> QED
  BY <1>2, <1>3, <1>4, <1>5

(* The delegation of d to v changes.                                       *)
LEMMA HoldersMove ==
  ASSUME NEW d \in Delegator, NEW v \in Validator, NEW b \in Blocks,
         \A e \in Delegator : e # d => del'[e][v] = del[e][v]
  PROVE  Cardinality(Holders(v, b)')
           = Cardinality(Holders(v, b)) - (IF d \in Holders(v, b) THEN 1 ELSE 0)
               + (IF d \in Holders(v, b)' THEN 1 ELSE 0)
<1>1. PICK S, T : S = Holders(v, b) /\ T = Holders(v, b)'
  OBVIOUS
<1>2. S \ {d} = T \ {d}
  BY <1>1 DEF Holders, Delegated
<1>3. IsFiniteSet(S) /\ IsFiniteSet(T)
  BY <1>1, RefsParts
<1>4. Cardinality(T) = Cardinality(S) - (IF d \in S THEN 1 ELSE 0) + (IF d \in T THEN 1 ELSE 0)
  BY <1>2, <1>3, SetsNearlyEqual
<1> QED
  BY <1>1, <1>4

(* A validator whose reference and delegations do not change, or go away.  *)
LEMMA RefsKept ==
  ASSUME LedgerOK, NEW v \in Validator, RefsHeld(v), st'[v] = st[v],
         \A d \in Delegator : del'[d][v] = del[d][v] \/ del'[d][v] = Nil,
         \A b \in Blocks : Points(val'[v], b) = Points(val[v], b)
  PROVE  RefsHeld(v)'
<1> SUFFICES ASSUME NEW b \in Blocks PROVE Refs(v, b)' <= st'[v][b].count
  BY DEF RefsHeld
<1>1. Holders(v, b)' \in SUBSET Holders(v, b)
  BY DEF Holders, Delegated
<1>2. Cardinality(Holders(v, b)') <= Cardinality(Holders(v, b))
  BY <1>1, RefsParts, FS_Subset
<1>3. Points(val[v], b) \in Nat /\ Points(val'[v], b) = Points(val[v], b)
  BY DEF Points
<1>4. Refs(v, b) <= st'[v][b].count /\ st'[v][b].count \in Nat
  BY DEF RefsHeld, LedgerOK, States, StateRec
<1> QED
  BY <1>2, <1>3, <1>4, RefsParts

(* A validator without delegations and without a record: no references.    *)
LEMMA NoRefs ==
  ASSUME LedgerOK', NEW v \in Validator, \A d \in Delegator : del'[d][v] = Nil, val'[v] = Nil
  PROVE  RefsHeld(v)'
<1> SUFFICES ASSUME NEW b \in Blocks PROVE Refs(v, b)' <= st'[v][b].count
  BY DEF RefsHeld
<1>1. Holders(v, b)' = {}
  BY DEF Holders, Delegated
<1>2. Cardinality(Holders(v, b)') = 0 /\ Points(val'[v], b) = 0
  BY <1>1, FS_EmptySet DEF Points
<1>3. st'[v][b].count \in Nat
  BY DEF LedgerOK, States, StateRec
<1> QED
  BY <1>2, <1>3, RefsParts

(***************************************************************************)
(* Settling the rewards of v takes the reference of v from the state it    *)
(* points to and gives it to the state in memory.                          *)
(***************************************************************************)
LEMMA SettleRefs ==
  ASSUME LedgerOK, block \in Blocks, NEW v \in Validator, Exists(v) \/ Has(v, block), CanSettle(v),
         RefsHeld(v), NEW b \in Blocks
  PROVE  /\ Cardinality(Holders(v, b)) + Points(ValSettled(v), b)
              <= IF b = block THEN Settled(v).count ELSE StatesSettled(v)[b].count
         /\ Settled(v).count \in Nat /\ StatesSettled(v)[b].count \in Nat
         /\ Points(ValSettled(v), b) \in Nat
<1>0. /\ st[v][b].count \in Nat /\ st[v][block].count \in Nat /\ st[v] \in States
      /\ Refs(v, b) <= st[v][b].count
  BY DEF LedgerOK, States, StateRec, RefsHeld
<1>1. Settled(v).count \in Nat /\ StatesSettled(v)[b].count \in Nat
  BY SettleTypes DEF States, StateRec
<1>2. /\ Refs(v, b) = Cardinality(Holders(v, b)) + Points(val[v], b)
      /\ Cardinality(Holders(v, b)) \in Nat
  BY RefsParts
<1>3. Points(val[v], b) \in Nat /\ Points(ValSettled(v), b) \in Nat
  BY DEF Points
<1>4. CASE Has(v, block)
  <2>1. ValSettled(v) = val[v] /\ StatesSettled(v) = st[v] /\ Settled(v) = st[v][block]
    BY <1>4 DEF ValSettled, StatesSettled, Settled
  <2> QED
    BY <1>0, <1>1, <1>2, <1>3, <2>1
<1>5. CASE ~Has(v, block)
  <2>1. Exists(v) /\ Has(v, val[v].last) /\ val[v] \in BoundedRec /\ val[v].last \in Blocks
    BY <1>5 DEF CanSettle, LedgerOK, Exists, BoundedRec, ValidatorRec
  <2>2. PICK l : l = val[v].last
    OBVIOUS
  <2>3. l \in Blocks /\ l # block /\ st[v][l].count > 0 /\ st[v][l].count \in Nat
    BY <1>5, <2>1, <2>2 DEF Has, LedgerOK, States, StateRec
  <2>4. StatesSettled(v) = Decrement(st[v], l) /\ Settled(v).count = 1
    BY <1>5, <2>2 DEF StatesSettled, Settled
  <2>5. Points(ValSettled(v), b) = IF b = block THEN 1 ELSE 0
    <3>1. PICK r : r = ValSettled(v)
      OBVIOUS
    <3>2. r.last = block /\ r # Nil
      <4>1. r \in BoundedRec
        BY <2>1, <3>1, SettleTypes
      <4>2. r = [val[v] EXCEPT !.pool = 0, !.last = block]
        BY <1>5, <3>1 DEF ValSettled
      <4> QED
        BY <2>1, <4>1, <4>2, NilAssumption DEF BoundedRec, ValidatorRec
    <3> QED
      BY <3>1, <3>2 DEF Points
  <2>6. Points(val[v], b) = IF b = l THEN 1 ELSE 0
    BY <2>1, <2>2 DEF Points, Exists
  <2>7. CASE b = block
    <3>1. st[v][b].count = 0
      BY <1>0, <1>5, <2>7 DEF Has
    <3> QED
      BY <1>0, <1>1, <1>2, <1>3, <2>3, <2>4, <2>5, <2>6, <2>7, <3>1
  <2>8. CASE b # block /\ b = l
    <3>1. StatesSettled(v)[b].count = st[v][b].count - 1
      BY <1>0, <2>3, <2>4, <2>8 DEF Decrement, NoState, States
    <3> QED
      BY <1>0, <1>1, <1>2, <1>3, <2>5, <2>6, <2>8, <3>1
  <2>9. CASE b # block /\ b # l
    <3>1. StatesSettled(v)[b].count = st[v][b].count
      BY <1>0, <2>4, <2>9 DEF Decrement, States
    <3> QED
      BY <1>0, <1>1, <1>2, <1>3, <2>5, <2>6, <2>9, <3>1
  <2> QED
    BY <2>7, <2>8, <2>9
<1> QED
  BY <1>4, <1>5

(***************************************************************************)
(* A method that settles v, takes the reference of delegation d and stores *)
(* the state with n new references, one of them for what d has then.       *)
(***************************************************************************)
LEMMA RefsPut ==
  ASSUME LedgerOK, block \in Blocks, NEW d \in Delegator, NEW v \in Validator,
         Exists(v) \/ Has(v, block), CanCredit(d, v), RefsHeld(v), NEW n \in Nat,
         del'[d][v] = Nil \/ (del'[d][v].last = block /\ n >= 1),
         \A e \in Delegator : e # d => del'[e][v] = del[e][v],
         \A b \in Blocks : Points(val'[v], b) = Points(ValSettled(v), b),
         st'[v] = PutState(StatesCredited(d, v), v, n)
  PROVE  RefsHeld(v)'
<1> SUFFICES ASSUME NEW b \in Blocks PROVE Refs(v, b)' <= st'[v][b].count
  BY DEF RefsHeld
<1>0. CanSettle(v)
  BY DEF CanCredit
<1>1. /\ Cardinality(Holders(v, b)) + Points(ValSettled(v), b)
           <= IF b = block THEN Settled(v).count ELSE StatesSettled(v)[b].count
      /\ Settled(v).count \in Nat /\ StatesSettled(v)[b].count \in Nat
      /\ Points(ValSettled(v), b) \in Nat
  BY <1>0, SettleRefs
<1>2. Refs(v, b)' = Cardinality(Holders(v, b)') + Points(ValSettled(v), b)
  BY RefsParts
<1>3. /\ Cardinality(Holders(v, b)')
           = Cardinality(Holders(v, b)) - (IF d \in Holders(v, b) THEN 1 ELSE 0)
               + (IF d \in Holders(v, b)' THEN 1 ELSE 0)
      /\ Cardinality(Holders(v, b)) \in Nat /\ Cardinality(Holders(v, b)') \in Nat
  BY HoldersMove, RefsParts
<1>4. StatesSettled(v) \in States /\ StatesCredited(d, v) \in States
  <2>1. StatesSettled(v) \in States
    BY <1>0, SettleTypes
  <2>2. CASE Delegated(d, v)
    <3>1. CanClaim(d, v)
      BY <2>2 DEF CanCredit
    <3>2. StatesClaimed(d, v) \in States
      BY <2>2, <3>1, ClaimTypes
    <3> QED
      BY <2>1, <2>2, <3>2 DEF StatesCredited
  <2>3. CASE ~Delegated(d, v)
    BY <2>1, <2>3 DEF StatesCredited
  <2> QED
    BY <2>1, <2>2, <2>3
<1>5. CASE b = block
  <2>1. st'[v][b].count = Settled(v).count + n
    BY <1>4, <1>5 DEF PutState, States
  <2>2. d \in Holders(v, b)' => n >= 1
    BY DEF Holders, Delegated
  <2> QED
    BY <1>1, <1>2, <1>3, <1>5, <2>1, <2>2
<1>6. CASE b # block
  <2>1. st'[v][b] = StatesCredited(d, v)[b]
    BY <1>4, <1>6 DEF PutState, States
  <2>2. d \notin Holders(v, b)'
    BY <1>6 DEF Holders, Delegated
  <2>3. CASE d \in Holders(v, b)
    <3>1. Delegated(d, v) /\ del[d][v].last = b
      BY <2>3 DEF Holders
    <3>2. StatesCredited(d, v) = Decrement(StatesSettled(v), b) /\ StatesSettled(v)[b].count > 0
      BY <3>1 DEF StatesCredited, StatesClaimed, CanCredit, CanClaim
    <3>3. StatesCredited(d, v)[b].count = StatesSettled(v)[b].count - 1
      BY <1>1, <1>4, <3>2 DEF Decrement, NoState, States
    <3> QED
      BY <1>1, <1>2, <1>3, <1>6, <2>1, <2>2, <2>3, <3>3
  <2>4. CASE d \notin Holders(v, b)
    <3>1. Delegated(d, v) => del[d][v].last # b
      BY <2>4 DEF Holders
    <3>2. StatesCredited(d, v)[b] = StatesSettled(v)[b]
      BY <1>4, <3>1 DEF StatesCredited, StatesClaimed, Decrement, States
    <3> QED
      BY <1>1, <1>2, <1>3, <1>6, <2>1, <2>2, <2>4, <3>2
  <2> QED
    BY <2>3, <2>4
<1> QED
  BY <1>5, <1>6


AllHeld == \A v \in Validator : RefsHeld(v)

(* A validator that a step leaves alone.                                   *)
LEMMA RefsAlone ==
  ASSUME LedgerOK, AllHeld, NEW v \in Validator, val'[v] = val[v], st'[v] = st[v],
         \A d \in Delegator : del'[d][v] = del[d][v]
  PROVE  RefsHeld(v)'
<1>1. RefsHeld(v) /\ \A b \in Blocks : Points(val'[v], b) = Points(val[v], b)
  BY DEF AllHeld
<1> QED
  BY <1>1, RefsKept

(* Records that point to the same state.                                   *)
LEMMA PointsSame ==
  ASSUME NEW r \in ValidatorRec, NEW q \in ValidatorRec, r.last = q.last
  PROVE  \A b \in Blocks : Points(r, b) = Points(q, b)
BY NilAssumption DEF Points

(* Positive delegations add up to the stake of their validator: to none,   *)
(* only if there is none, and to that of one delegator, only if it is the  *)
(* only one.                                                               *)
LEMMA NoDelegations ==
  ASSUME LedgerOK, StakeTrue, AllPositive, NEW v \in Validator, ValidatorStake(v) = 0
  PROVE  \A d \in Delegator : ~Delegated(d, v)
<1> SUFFICES ASSUME NEW d \in Delegator, Delegated(d, v) PROVE FALSE
  OBVIOUS
<1>1. PICK f : f = [e \in Delegator |-> StakeOf(e, v)]
  OBVIOUS
<1>2. \A e \in Delegator : f[e] \in Nat
  BY <1>1, StakeTypes
<1>3. f[d] <= SumFunctionOnSet(f, Delegator)
  BY <1>2, InputAssumption, SumBounds
<1>4. SumFunctionOnSet(f, Delegator) = 0
  BY <1>1 DEF StakeTrue, StakeSum
<1>5. f[d] > 0
  BY <1>1 DEF StakeOf, AllPositive
<1> QED
  BY <1>2, <1>3, <1>4, <1>5

(* The stake of v is all from delegator d.                                 *)
LEMMA OnlyDelegator ==
  ASSUME LedgerOK, StakeTrue, AllPositive, NEW v \in Validator, NEW d \in Delegator,
         ValidatorStake(v) <= StakeOf(d, v)
  PROVE  /\ \A e \in Delegator : e # d => ~Delegated(e, v)
         /\ ValidatorStake(v) = StakeOf(d, v)
<1>1. PICK f : f = [e \in Delegator |-> StakeOf(e, v)]
  OBVIOUS
<1>2. \A e \in Delegator : f[e] \in Nat /\ f[e] \in Int
  BY <1>1, StakeTypes
<1>3. SumFunctionOnSet(f, Delegator) = f[d] + SumFunctionOnSet(f, Delegator \ {d})
  BY <1>2, InputAssumption, SumRemove
<1>4. IsFiniteSet(Delegator \ {d}) /\ \A e \in Delegator \ {d} : f[e] \in Nat
  BY <1>2, InputAssumption, FS_RemoveElement
<1>5. SumFunctionOnSet(f, Delegator \ {d}) \in Nat
  BY <1>4, SumNat
<1>6. SumFunctionOnSet(f, Delegator) = ValidatorStake(v) /\ f[d] = StakeOf(d, v)
  BY <1>1 DEF StakeTrue, StakeSum
<1>7. SumFunctionOnSet(f, Delegator \ {d}) = 0 /\ ValidatorStake(v) = StakeOf(d, v)
  BY <1>2, <1>3, <1>5, <1>6
<1>8. ASSUME NEW e \in Delegator, e # d, Delegated(e, v) PROVE FALSE
  <2>1. e \in Delegator \ {d}
    BY <1>8
  <2>2. f[e] <= SumFunctionOnSet(f, Delegator \ {d})
    BY <1>4, <2>1, SumBounds
  <2>3. f[e] > 0
    BY <1>1, <1>8 DEF StakeOf, AllPositive
  <2> QED
    BY <1>2, <1>7, <2>2, <2>3
<1> QED
  BY <1>7, <1>8

(* registerValidator: a new state, for the validator and its owner.        *)
LEMMA RegisterRefs ==
  ASSUME IInv, AllHeld, NEW owner \in Delegator, NEW v \in Validator, NEW amount \in Nat, NEW c,
         registerValidatorWithoutChecks(v, owner, amount, c)
  PROVE  AllHeld'
<1>0. /\ LedgerOK /\ block \in Blocks /\ RefsHeld(v) /\ val[v] = Nil /\ del[owner][v] = Nil
      /\ ~Has(v, block)
  BY DEF IInv, ControlOK, AllHeld, registerValidatorWithoutChecks, Exists, Delegated
<1>1. PICK r : r = [stake |-> amount, commission |-> c, lastCommissionChange |-> block, last |-> block,
                    undelegations |-> 0, pool |-> 0, commissionPool |-> 0, owner |-> owner]
  OBVIOUS
<1>2. PICK n : n = IF amount > 0 THEN 2 ELSE 1
  OBVIOUS
<1>3. PICK s : s = [rps |-> 0, count |-> n]
  OBVIOUS
<1>4. /\ val' = [val EXCEPT ![v] = r] /\ st' = [st EXCEPT ![v][block] = s]
      /\ del' = IF amount > 0 THEN [del EXCEPT ![owner][v] = [stake |-> amount, last |-> block]] ELSE del
  BY <1>1, <1>2, <1>3 DEF registerValidatorWithoutChecks
<1>5. /\ val'[v] = r /\ \A w \in Validator : w # v => val'[w] = val[w]
      /\ \A w \in Validator : w # v => st'[w] = st[w]
      /\ st'[v][block] = s /\ \A b \in Blocks : b # block => st'[v][b] = st[v][b]
  BY <1>0, <1>4 DEF LedgerOK, States
<1>6. /\ \A e \in Delegator, w \in Validator : ~(e = owner /\ w = v) => del'[e][w] = del[e][w]
      /\ del'[owner][v] = IF amount > 0 THEN [stake |-> amount, last |-> block] ELSE Nil
  BY <1>0, <1>4 DEF LedgerOK
<1>7. ASSUME NEW w \in Validator, w # v PROVE RefsHeld(w)'
  BY <1>0, <1>5, <1>6, <1>7, RefsAlone
<1>8. ASSUME NEW b \in Blocks PROVE Refs(v, b)' <= st'[v][b].count
  <2>1. /\ Refs(v, b) = Cardinality(Holders(v, b)) + Points(val[v], b) /\ Cardinality(Holders(v, b)) \in Nat
        /\ Refs(v, b)' = Cardinality(Holders(v, b)') + Points(val'[v], b)
    BY RefsParts
  <2>2. Points(val[v], b) = 0
    BY <1>0 DEF Points
  <2>3. Cardinality(Holders(v, b))
          <= st[v][b].count /\ st[v][b].count \in Nat
    BY <1>0, <2>1, <2>2 DEF RefsHeld, LedgerOK, States, StateRec
  <2>4. Cardinality(Holders(v, b)')
          = Cardinality(Holders(v, b)) - (IF owner \in Holders(v, b) THEN 1 ELSE 0)
              + (IF owner \in Holders(v, b)' THEN 1 ELSE 0)
    BY <1>6, HoldersMove
  <2>5. owner \notin Holders(v, b)
    BY <1>0 DEF Holders, Delegated
  <2>6. CASE b = block
    <3>1. st[v][b].count = 0
      BY <1>0, <2>3, <2>6 DEF Has
    <3>2. owner \in Holders(v, b)' => amount > 0
      BY <1>6 DEF Holders, Delegated
    <3>3. Points(val'[v], b) <= 1 /\ Points(val'[v], b) \in Nat
      BY DEF Points
    <3>4. st'[v][b].count = n
      BY <1>3, <1>5, <2>6
    <3> QED
      BY <1>2, <2>1, <2>3, <2>4, <2>5, <3>1, <3>2, <3>3, <3>4
  <2>7. CASE b # block
    <3>1. owner \notin Holders(v, b)'
      BY <1>6, <2>7 DEF Holders, Delegated
    <3>2. Points(val'[v], b) = 0
      BY <1>1, <1>5, <2>7 DEF Points
    <3>3. st'[v][b] = st[v][b]
      BY <1>5, <2>7
    <3> QED
      BY <2>1, <2>3, <2>4, <2>5, <3>1, <3>2, <3>3
  <2> QED
    BY <2>6, <2>7
<1>9. RefsHeld(v)'
  BY <1>8 DEF RefsHeld
<1> QED
  BY <1>7, <1>9 DEF AllHeld

(* A method that touches delegation d to v and no other.                   *)
LEMMA OneRefs ==
  ASSUME LedgerOK, AllHeld, NEW d \in Delegator, NEW v \in Validator, NEW r, NEW q, NEW states,
         val' = [val EXCEPT ![v] = r], del' = [del EXCEPT ![d][v] = q], st' = [st EXCEPT ![v] = states]
  PROVE  /\ val'[v] = r /\ del'[d][v] = q /\ st'[v] = states
         /\ \A e \in Delegator : e # d => del'[e][v] = del[e][v]
         /\ RefsHeld(v)' => AllHeld'
<1>1. /\ val'[v] = r /\ del'[d][v] = q /\ st'[v] = states
      /\ \A e \in Delegator : e # d => del'[e][v] = del[e][v]
      /\ \A w \in Validator : w # v =>
           val'[w] = val[w] /\ st'[w] = st[w] /\ \A e \in Delegator : del'[e][w] = del[e][w]
  BY DEF LedgerOK
<1>2. \A w \in Validator : w # v => RefsHeld(w)'
  BY <1>1, RefsAlone
<1> QED
  BY <1>1, <1>2 DEF AllHeld

(* What a call stores for v points where the settled record points.        *)
LEMMA ValPoints ==
  ASSUME LedgerOK, block \in Blocks, NEW v \in Validator, Exists(v), CanSettle(v), NEW amount \in Nat
  PROVE  /\ \A b \in Blocks : Points(ValUndelegated(v, amount), b) = Points(ValSettled(v), b)
         /\ FitsMaximum(v, amount) => \A b \in Blocks :
              /\ Points(ValCredited(v, amount), b) = Points(ValSettled(v), b)
              /\ Points(ValCancelled(v, amount), b) = Points(ValSettled(v), b)
<1>1. PICK s : s = ValSettled(v)
  OBVIOUS
<1>2. s \in ValidatorRec
  BY <1>1, SettleTypes DEF BoundedRec
<1>3. ValUndelegated(v, amount).last = s.last
  BY <1>1, <1>2 DEF ValUndelegated, ValidatorRec
<1>4. ValCredited(v, amount).last = s.last
  BY <1>1, <1>2 DEF ValCredited, ValidatorRec
<1>5. ValCancelled(v, amount).last = s.last
  BY <1>1, <1>2 DEF ValCancelled, ValidatorRec
<1>6. ValUndelegated(v, amount) \in ValidatorRec
  BY ValRecTypes DEF BoundedRec
<1>7. FitsMaximum(v, amount) => ValCredited(v, amount) \in ValidatorRec /\ ValCancelled(v, amount) \in ValidatorRec
  BY ValRecTypes DEF BoundedRec
<1>8. \A b \in Blocks : Points(ValUndelegated(v, amount), b) = Points(s, b)
  BY <1>2, <1>3, <1>6, PointsSame
<1>9. FitsMaximum(v, amount) => \A b \in Blocks : Points(ValCredited(v, amount), b) = Points(s, b)
  BY <1>2, <1>4, <1>7, PointsSame
<1>10. FitsMaximum(v, amount) => \A b \in Blocks : Points(ValCancelled(v, amount), b) = Points(s, b)
  BY <1>2, <1>5, <1>7, PointsSame
<1> QED
  BY <1>1, <1>8, <1>9, <1>10

(* delegate, undelegate and an accepted cancelUndelegate.                  *)
LEMMA DelegateRefs ==
  ASSUME IInv, AllHeld, NEW d \in Delegator, NEW v \in Validator, NEW amount \in Nat,
         delegate(d, v, amount)
  PROVE  AllHeld'
<1>0. /\ LedgerOK /\ block \in Blocks /\ Exists(v) /\ CanCredit(d, v) /\ FitsMaximum(v, amount)
      /\ RefsHeld(v) /\ CanSettle(v)
  BY DEF IInv, ControlOK, AllHeld, delegate, CanCredit
<1>1. PICK r, q, states : /\ r = ValCredited(v, amount) /\ q = Credited(d, v, amount)
                          /\ states = PutState(StatesCredited(d, v), v, 1)
  OBVIOUS
<1>2. /\ val' = [val EXCEPT ![v] = r] /\ del' = [del EXCEPT ![d][v] = q]
      /\ st' = [st EXCEPT ![v] = states]
  BY <1>1 DEF delegate
<1>3. /\ val'[v] = r /\ del'[d][v] = q /\ st'[v] = states
      /\ \A e \in Delegator : e # d => del'[e][v] = del[e][v]
      /\ RefsHeld(v)' => AllHeld'
  BY <1>0, <1>2, OneRefs
<1>4. \A b \in Blocks : Points(val'[v], b) = Points(ValSettled(v), b)
  BY <1>0, <1>1, <1>3, ValPoints
<1>5. del'[d][v].last = block /\ 1 >= 1 /\ 1 \in Nat
  BY <1>1, <1>3 DEF Credited
<1>6. RefsHeld(v)'
  BY <1>0, <1>1, <1>3, <1>4, <1>5, RefsPut
<1> QED
  BY <1>3, <1>6

(* A delegation that is debited.                                           *)
LEMMA UndelegateRefs ==
  ASSUME IInv, AllHeld, NEW d \in Delegator, NEW v \in Validator, NEW amount \in Nat,
         undelegate(d, v, amount)
  PROVE  AllHeld'
<1>0. /\ LedgerOK /\ block \in Blocks /\ Exists(v) /\ CanClaim(d, v) /\ MayWithdraw(d, v, amount)
      /\ RefsHeld(v) /\ CanSettle(v) /\ Delegated(d, v)
  BY DEF IInv, ControlOK, AllHeld, undelegate, CanClaim, MayWithdraw
<1>1. PICK r, q, states, n : /\ r = ValUndelegated(v, amount) /\ q = Debited(d, v, amount)
                             /\ n = KeepsDelegation(d, v, amount)
                             /\ states = PutState(StatesClaimed(d, v), v, n)
  OBVIOUS
<1>2. /\ val' = [val EXCEPT ![v] = r] /\ del' = [del EXCEPT ![d][v] = q]
      /\ st' = [st EXCEPT ![v] = states]
  BY <1>1 DEF undelegate
<1>3. /\ val'[v] = r /\ del'[d][v] = q /\ st'[v] = states
      /\ \A e \in Delegator : e # d => del'[e][v] = del[e][v]
      /\ RefsHeld(v)' => AllHeld'
  BY <1>0, <1>2, OneRefs
<1>4. \A b \in Blocks : Points(val'[v], b) = Points(ValSettled(v), b)
  BY <1>0, <1>1, <1>3, ValPoints
<1>5. n \in Nat /\ (del'[d][v] = Nil \/ (del'[d][v].last = block /\ n >= 1))
  BY <1>1, <1>3 DEF Debited, KeepsDelegation
<1>6. CanCredit(d, v) /\ StatesCredited(d, v) = StatesClaimed(d, v)
  BY <1>0 DEF CanCredit, StatesCredited
<1>7. RefsHeld(v)'
  BY <1>0, <1>1, <1>3, <1>4, <1>5, <1>6, RefsPut
<1> QED
  BY <1>3, <1>7

(* cancelUndelegate; a rejected one is one of the defects.                 *)
LEMMA CancelRefs ==
  ASSUME IInv, AllHeld, NEW u \in und, cancelUndelegate(u), Spared({"cancel", "redelegate", "zero"})'
  PROVE  AllHeld'
<1>1. PICK d, v, amount : d = u.delegator /\ v = u.validator /\ amount = u.amount
  OBVIOUS
<1>2. d \in Delegator /\ v \in Validator /\ amount \in Nat
  BY <1>1 DEF IInv, LedgerOK, UndelegationRec
<1>0. /\ LedgerOK /\ block \in Blocks /\ Exists(v) /\ CanCredit(d, v) /\ RefsHeld(v) /\ CanSettle(v)
  BY <1>1, <1>2 DEF IInv, ControlOK, AllHeld, cancelUndelegate, CanCredit
<1>3. FitsMaximum(v, amount)
  <2>1. ~FitsMaximum(v, amount) => "cancel" \in defects'
    BY <1>1 DEF cancelUndelegate
  <2> QED
    BY <2>1 DEF Spared
<1>4. PICK r, q, states : /\ r = ValCancelled(v, amount) /\ q = Credited(d, v, amount)
                          /\ states = PutState(StatesCredited(d, v), v, 1)
  OBVIOUS
<1>5. /\ val' = [val EXCEPT ![v] = r] /\ del' = [del EXCEPT ![d][v] = q]
      /\ st' = [st EXCEPT ![v] = states]
  BY <1>1, <1>3, <1>4 DEF cancelUndelegate
<1>6. /\ val'[v] = r /\ del'[d][v] = q /\ st'[v] = states
      /\ \A e \in Delegator : e # d => del'[e][v] = del[e][v]
      /\ RefsHeld(v)' => AllHeld'
  BY <1>0, <1>2, <1>5, OneRefs
<1>7. \A b \in Blocks : Points(val'[v], b) = Points(ValSettled(v), b)
  BY <1>0, <1>2, <1>3, <1>4, <1>6, ValPoints
<1>8. del'[d][v].last = block /\ 1 >= 1 /\ 1 \in Nat
  BY <1>4, <1>6 DEF Credited
<1>9. RefsHeld(v)'
  BY <1>0, <1>2, <1>4, <1>6, <1>7, <1>8, RefsPut
<1> QED
  BY <1>6, <1>9

(* The validator that a redelegation leaves.                               *)
LEMMA LeftRefs ==
  ASSUME IInv, LedgerOK', AllHeld, StakeTrue, AllPositive, NEW d \in Delegator, NEW f \in Validator,
         NEW t \in Validator, NEW amount \in Nat, redelegate(d, f, t, amount), "redelegate" \notin defects',
         val'[f] = ValLeft(f, amount), st'[f] = StatesLeft(d, f, amount),
         del'[d][f] = Debited(d, f, amount), \A e \in Delegator : e # d => del'[e][f] = del[e][f]
  PROVE  RefsHeld(f)'
<1>0. /\ LedgerOK /\ block \in Blocks /\ Exists(f) /\ CanClaim(d, f) /\ MayWithdraw(d, f, amount)
      /\ RefsHeld(f) /\ CanSettle(f) /\ Delegated(d, f)
  BY DEF IInv, ControlOK, AllHeld, redelegate, CanClaim, MayWithdraw
<1>1. CASE ~EmptyAfter(f, amount)
  <2>1. PICK n : n = KeepsDelegation(d, f, amount)
    OBVIOUS
  <2>2. st'[f] = PutState(StatesClaimed(d, f), f, n) /\ n \in Nat
    BY <1>1, <2>1 DEF StatesLeft, KeepsDelegation
  <2>3. CanCredit(d, f) /\ StatesCredited(d, f) = StatesClaimed(d, f)
    BY <1>0 DEF CanCredit, StatesCredited
  <2>4. del'[d][f] = Nil \/ (del'[d][f].last = block /\ n >= 1)
    BY <2>1 DEF Debited, KeepsDelegation
  <2>5. \A b \in Blocks : Points(val'[f], b) = Points(ValSettled(f), b)
    <3>1. PICK s : s = ValSettled(f)
      OBVIOUS
    <3>2. s \in ValidatorRec /\ s.stake \in Int
      BY <1>0, <3>1, SettleTypes DEF BoundedRec, ValidatorRec
    <3>3. val'[f] = [s EXCEPT !.stake = s.stake - amount]
      BY <1>1, <3>1 DEF ValLeft
    <3>4. s.stake - amount \in Int
      BY <3>2
    <3>5. val'[f] \in ValidatorRec /\ val'[f].last = s.last
      BY <3>2, <3>3, <3>4 DEF ValidatorRec
    <3> QED
      BY <3>1, <3>2, <3>5, PointsSame
  <2> QED
    BY <1>0, <2>2, <2>3, <2>4, <2>5, RefsPut
<1>2. CASE EmptyAfter(f, amount)
  <2>1. ValidatorStake(f) = amount /\ StakeOf(d, f) = del[d][f].stake /\ amount <= del[d][f].stake
    BY <1>0, <1>2 DEF EmptyAfter, ValidatorStake, StakeOf, MayWithdraw
  <2>2. /\ \A e \in Delegator : e # d => ~Delegated(e, f)
        /\ ValidatorStake(f) = StakeOf(d, f)
    BY <1>0, <2>1, OnlyDelegator
  <2>3. \A e \in Delegator : del'[e][f] = Nil
    BY <2>1, <2>2 DEF Debited, Delegated
  <2>4. CASE val[f].undelegations = 0
    <3>1. val'[f] = Nil
      BY <1>2, <2>4 DEF ValLeft
    <3> QED
      BY <2>3, <3>1, NoRefs
  <2>5. CASE val[f].undelegations # 0
    <3>1. Has(f, block)
      <4>1. LosesState(f, amount) => "redelegate" \in defects'
        BY DEF redelegate
      <4> QED
        BY <1>2, <2>5, <4>1 DEF LosesState
    <3>2. ValSettled(f) = val[f] /\ StatesSettled(f) = st[f]
      BY <3>1 DEF ValSettled, StatesSettled
    <3>3. PICK l : l = del[d][f].last
      OBVIOUS
    <3>4. /\ st'[f] = Decrement(st[f], l) /\ val'[f] = [val[f] EXCEPT !.stake = 0, !.pool = val[f].pool]
          /\ st[f][l].count > 0
      BY <1>0, <1>2, <2>5, <3>2, <3>3 DEF StatesLeft, StatesClaimed, ValLeft, CanClaim
    <3>5. \A b \in Blocks : Points(val'[f], b) = Points(val[f], b)
      <4>1. val[f] \in ValidatorRec /\ val[f].pool \in Nat
        BY <1>0 DEF LedgerOK, Exists, BoundedRec, ValidatorRec
      <4>2. val'[f] \in ValidatorRec
        BY <3>4, <4>1, EmptiedRec DEF BoundedRec
      <4>3. val'[f].last = val[f].last
        BY <3>4, <4>1 DEF ValidatorRec
      <4> QED
        BY <4>1, <4>2, <4>3, PointsSame
    <3>6. ASSUME NEW b \in Blocks PROVE Refs(f, b)' <= st'[f][b].count
      <4>1. /\ Refs(f, b) = Cardinality(Holders(f, b)) + Points(val[f], b)
            /\ Refs(f, b)' = Cardinality(Holders(f, b)') + Points(val[f], b)
            /\ Cardinality(Holders(f, b)) \in Nat
        BY <3>5, RefsParts
      <4>2. /\ Cardinality(Holders(f, b)')
                 = Cardinality(Holders(f, b)) - (IF d \in Holders(f, b) THEN 1 ELSE 0)
                     + (IF d \in Holders(f, b)' THEN 1 ELSE 0)
        BY HoldersMove
      <4>3. d \notin Holders(f, b)' /\ (d \in Holders(f, b) <=> b = l)
        BY <1>0, <2>3, <3>3 DEF Holders, Delegated
      <4>4. Points(val[f], b) \in Nat /\ st[f][b].count \in Nat /\ Refs(f, b) <= st[f][b].count
        BY <1>0 DEF Points, LedgerOK, States, StateRec, RefsHeld
      <4>5. st'[f][b].count = IF b = l THEN st[f][b].count - 1 ELSE st[f][b].count
        <5>1. st[f] \in States
          BY <1>0 DEF LedgerOK
        <5> QED
          BY <3>4, <4>4, <5>1 DEF Decrement, NoState, States
      <4> QED
        BY <4>1, <4>2, <4>3, <4>4, <4>5
    <3> QED
      BY <3>6 DEF RefsHeld
  <2> QED
    BY <2>4, <2>5
<1> QED
  BY <1>1, <1>2

(* redelegate.                                                             *)
LEMMA RedelegateRefs ==
  ASSUME IInv, LedgerOK', AllHeld, StakeTrue, AllPositive, NEW d \in Delegator, NEW f \in Validator,
         NEW t \in Validator, NEW amount \in Nat, redelegate(d, f, t, amount),
         Spared({"cancel", "redelegate", "zero"})'
  PROVE  AllHeld'
<1>0. /\ LedgerOK /\ block \in Blocks /\ f # t /\ Exists(t) /\ CanCredit(d, t) /\ CanSettle(t)
      /\ RefsHeld(t) /\ FitsMaximum(t, amount)
  BY DEF IInv, ControlOK, AllHeld, redelegate, CanCredit
<1>1. /\ val' = [val EXCEPT ![f] = ValLeft(f, amount), ![t] = ValCredited(t, amount)]
      /\ st' = [st EXCEPT ![f] = StatesLeft(d, f, amount), ![t] = PutState(StatesCredited(d, t), t, 1)]
      /\ del' = [del EXCEPT ![d][f] = Debited(d, f, amount), ![d][t] = Credited(d, t, amount)]
  BY DEF redelegate
<1>2. /\ val'[f] = ValLeft(f, amount) /\ val'[t] = ValCredited(t, amount)
      /\ \A w \in Validator : w # f /\ w # t => val'[w] = val[w]
  BY <1>0, <1>1 DEF LedgerOK
<1>3. /\ st'[f] = StatesLeft(d, f, amount) /\ st'[t] = PutState(StatesCredited(d, t), t, 1)
      /\ \A w \in Validator : w # f /\ w # t => st'[w] = st[w]
  BY <1>0, <1>1 DEF LedgerOK
<1>4. /\ del'[d][f] = Debited(d, f, amount) /\ del'[d][t] = Credited(d, t, amount)
      /\ \A e \in Delegator, w \in Validator : ~(e = d /\ (w = f \/ w = t)) => del'[e][w] = del[e][w]
  BY <1>0, <1>1 DEF LedgerOK
<1>5. "redelegate" \notin defects'
  BY DEF Spared
<1>6. RefsHeld(f)'
  <2>1. \A e \in Delegator : e # d => del'[e][f] = del[e][f]
    BY <1>4
  <2> QED
    BY <1>2, <1>3, <1>4, <1>5, <2>1, LeftRefs
<1>7. RefsHeld(t)'
  <2>1. \A b \in Blocks : Points(val'[t], b) = Points(ValSettled(t), b)
    BY <1>0, <1>2, ValPoints
  <2>2. del'[d][t].last = block /\ 1 >= 1 /\ 1 \in Nat
    BY <1>4 DEF Credited
  <2>3. \A e \in Delegator : e # d => del'[e][t] = del[e][t]
    BY <1>4
  <2> QED
    BY <1>0, <1>3, <2>1, <2>2, <2>3, RefsPut
<1>8. ASSUME NEW w \in Validator, w # f, w # t PROVE RefsHeld(w)'
  <2>1. val'[w] = val[w] /\ st'[w] = st[w] /\ \A e \in Delegator : del'[e][w] = del[e][w]
    BY <1>2, <1>3, <1>4, <1>8
  <2> QED
    BY <1>0, <2>1, RefsAlone
<1> QED
  BY <1>6, <1>7, <1>8 DEF AllHeld

(* claimRewards and claimAllRewards.                                       *)
LEMMA ClaimRefs ==
  ASSUME IInv, AllHeld, NEW d \in Delegator, NEW from \in SUBSET Validator, ClaimFrom(d, from)
  PROVE  AllHeld'
<1>0. LedgerOK /\ block \in Blocks
  BY DEF IInv, ControlOK
<1>1. /\ \A w \in Validator : st'[w] = IF w \in from THEN PutState(StatesClaimed(d, w), w, 1) ELSE st[w]
      /\ \A w \in Validator : val'[w] = IF w \in from THEN ValSettled(w) ELSE val[w]
  BY DEF ClaimFrom
<1>2. \A e \in Delegator, w \in Validator :
          del'[e][w] = IF e = d /\ w \in from THEN [stake |-> del[e][w].stake, last |-> block]
                       ELSE del[e][w]
  BY <1>0 DEF ClaimFrom, LedgerOK
<1>3. ASSUME NEW w \in from PROVE RefsHeld(w)'
  <2>0. w \in Validator
    OBVIOUS
  <2>1. Delegated(d, w) /\ (Exists(w) \/ Has(w, block)) /\ CanClaim(d, w)
    BY DEF ClaimFrom, CanClaim, CanSettle
  <2>2. CanCredit(d, w) /\ StatesCredited(d, w) = StatesClaimed(d, w) /\ RefsHeld(w)
    BY <2>0, <2>1 DEF CanCredit, CanClaim, StatesCredited, AllHeld
  <2>3. /\ st'[w] = PutState(StatesClaimed(d, w), w, 1)
        /\ \A b \in Blocks : Points(val'[w], b) = Points(ValSettled(w), b)
    BY <1>1, <2>0
  <2>4. del'[d][w].last = block /\ 1 >= 1 /\ 1 \in Nat
    <3>1. del'[d][w] = [stake |-> del[d][w].stake, last |-> block]
      BY <1>2, <2>0
    <3> QED
      BY <3>1
  <2>5. \A e \in Delegator : e # d => del'[e][w] = del[e][w]
    BY <1>2, <2>0
  <2> QED
    BY <1>0, <2>0, <2>1, <2>2, <2>3, <2>4, <2>5, RefsPut
<1>4. ASSUME NEW w \in Validator, w \notin from PROVE RefsHeld(w)'
  <2>1. val'[w] = val[w] /\ st'[w] = st[w] /\ \A e \in Delegator : del'[e][w] = del[e][w]
    BY <1>1, <1>2, <1>4
  <2> QED
    BY <1>0, <2>1, RefsAlone
<1> QED
  BY <1>3, <1>4 DEF AllHeld

(* Deleting a validator without stake: nobody refers to it.                *)
LEMMA DeleteRefs ==
  ASSUME IInv, LedgerOK', AllHeld, StakeTrue, AllPositive, NEW v \in Validator, Exists(v),
         val[v].stake = 0, del' = del, NEW states, val' = [val EXCEPT ![v] = Nil],
         st' = [st EXCEPT ![v] = states]
  PROVE  AllHeld'
<1>0. LedgerOK
  BY DEF IInv
<1>1. ValidatorStake(v) = 0
  BY DEF ValidatorStake
<1>2. \A d \in Delegator : ~Delegated(d, v)
  BY <1>0, <1>1, NoDelegations
<1>3. /\ val'[v] = Nil
      /\ \A w \in Validator : w # v => val'[w] = val[w] /\ st'[w] = st[w]
  BY <1>0 DEF LedgerOK
<1>4. \A d \in Delegator : del'[d][v] = Nil
  BY <1>2 DEF Delegated
<1>5. RefsHeld(v)'
  BY <1>3, <1>4, NoRefs
<1>6. ASSUME NEW w \in Validator, w # v PROVE RefsHeld(w)'
  BY <1>0, <1>3, <1>6, RefsAlone
<1> QED
  BY <1>5, <1>6 DEF AllHeld

(* Storing a validator that points where it did.                           *)
LEMMA StoredRefs ==
  ASSUME IInv, AllHeld, NEW v \in Validator, Exists(v), NEW r \in ValidatorRec, r.last = val[v].last,
         val' = [val EXCEPT ![v] = r], st' = st,
         \A d \in Delegator, w \in Validator : del'[d][w] = del[d][w] \/ del'[d][w] = Nil
  PROVE  AllHeld'
<1>0. LedgerOK
  BY DEF IInv
<1>1. val[v] \in ValidatorRec
  BY <1>0 DEF LedgerOK, Exists, BoundedRec
<1>2. val'[v] = r /\ \A w \in Validator : w # v => val'[w] = val[w]
  BY <1>0 DEF LedgerOK
<1>3. ASSUME NEW w \in Validator PROVE RefsHeld(w)'
  <2>1. \A b \in Blocks : Points(val'[w], b) = Points(val[w], b)
    <3>1. CASE w = v
      BY <1>1, <1>2, <3>1, PointsSame
    <3>2. CASE w # v
      BY <1>2, <3>2
    <3> QED
      BY <3>1, <3>2
  <2>2. RefsHeld(w) /\ st'[w] = st[w] /\ \A d \in Delegator : del'[d][w] = del[d][w] \/ del'[d][w] = Nil
    BY DEF AllHeld
  <2> QED
    BY <1>0, <2>1, <2>2, RefsKept
<1> QED
  BY <1>3 DEF AllHeld

(* Steps that leave validators, delegations and states alone.              *)
LEMMA QuietRefs ==
  ASSUME IInv, AllHeld, val' = val, st' = st, del' = del
  PROVE  AllHeld'
<1>0. LedgerOK
  BY DEF IInv
<1>1. ASSUME NEW w \in Validator PROVE RefsHeld(w)'
  BY <1>0, RefsAlone
<1> QED
  BY <1>1 DEF AllHeld

(* confirmUndelegate.                                                      *)
LEMMA ConfirmRefs ==
  ASSUME IInv, LedgerOK', AllHeld, StakeTrue, AllPositive, NEW u \in und, confirmUndelegate(u)
  PROVE  AllHeld'
<1>0. LedgerOK /\ del' = del
  BY DEF IInv, confirmUndelegate
<1>1. PICK v : v = u.validator
  OBVIOUS
<1>2. v \in Validator
  BY <1>0, <1>1 DEF LedgerOK, UndelegationRec
<1>3. CASE Exists(v) /\ Dec(val[v].undelegations) = 0 /\ val[v].stake = 0 /\ val[v].commissionPool = 0
  <2>1. val' = [val EXCEPT ![v] = Nil] /\ st' = [st EXCEPT ![v] = Decrement(st[v], val[v].last)]
    BY <1>1, <1>3 DEF confirmUndelegate, DeleteValidator
  <2> QED
    BY <1>0, <1>2, <1>3, <2>1, DeleteRefs
<1>4. CASE ~(Exists(v) /\ Dec(val[v].undelegations) = 0 /\ val[v].stake = 0 /\ val[v].commissionPool = 0)
  <2>1. /\ val' = IF Exists(v) THEN [val EXCEPT ![v].undelegations = Dec(val[v].undelegations)] ELSE val
        /\ st' = st
    BY <1>1, <1>4 DEF confirmUndelegate
  <2>2. CASE Exists(v)
    <3>1. PICK r : r = [val[v] EXCEPT !.undelegations = Dec(val[v].undelegations)]
      OBVIOUS
    <3>2. val[v] \in ValidatorRec
      BY <1>0, <1>2, <2>2 DEF LedgerOK, Exists, BoundedRec
    <3>3. Dec(val[v].undelegations) \in Nat
      BY <3>2 DEF Dec, ValidatorRec
    <3>4. r \in ValidatorRec /\ r.last = val[v].last
      BY <3>1, <3>2, <3>3 DEF ValidatorRec
    <3>5. val' = [val EXCEPT ![v] = r]
      BY <1>0, <1>2, <2>1, <2>2, <3>1 DEF LedgerOK
    <3> QED
      BY <1>0, <1>2, <2>1, <2>2, <3>4, <3>5, StoredRefs
  <2>3. CASE ~Exists(v)
    BY <1>0, <2>1, <2>3, QuietRefs
  <2> QED
    BY <2>2, <2>3
<1> QED
  BY <1>3, <1>4

(* claimCommissionRewards and setCommission.                               *)
LEMMA CommissionRefs ==
  ASSUME IInv, LedgerOK', AllHeld, StakeTrue, AllPositive, NEW d \in Delegator, NEW v \in Validator,
         NEW c \in Nat, claimCommissionRewards(d, v) \/ setCommission(d, v, c)
  PROVE  AllHeld'
<1>0. LedgerOK /\ block \in Blocks /\ Exists(v) /\ del' = del
  BY DEF IInv, ControlOK, claimCommissionRewards, setCommission
<1>r. val[v] \in ValidatorRec
  BY <1>0 DEF LedgerOK, Exists, BoundedRec
<1>1. CASE claimCommissionRewards(d, v) /\ val[v].stake = 0 /\ val[v].undelegations = 0
  <2>1. val' = [val EXCEPT ![v] = Nil] /\ st' = [st EXCEPT ![v] = Decrement(st[v], val[v].last)]
    BY <1>1 DEF claimCommissionRewards, DeleteValidator
  <2> QED
    BY <1>0, <1>1, <2>1, DeleteRefs
<1>2. CASE claimCommissionRewards(d, v) /\ ~(val[v].stake = 0 /\ val[v].undelegations = 0)
  <2>1. val' = [val EXCEPT ![v].commissionPool = 0] /\ st' = st
    BY <1>2 DEF claimCommissionRewards
  <2>2. PICK r : r = [val[v] EXCEPT !.commissionPool = 0]
    OBVIOUS
  <2>3. r \in ValidatorRec /\ r.last = val[v].last
    BY <1>r, <2>2 DEF ValidatorRec
  <2>4. val' = [val EXCEPT ![v] = r]
    BY <1>0, <2>1, <2>2 DEF LedgerOK
  <2> QED
    BY <1>0, <2>1, <2>3, <2>4, StoredRefs
<1>3. CASE setCommission(d, v, c)
  <2>1. val' = [val EXCEPT ![v].commission = c, ![v].lastCommissionChange = block] /\ st' = st
    BY <1>3 DEF setCommission
  <2>2. PICK r : r = [val[v] EXCEPT !.commission = c, !.lastCommissionChange = block]
    OBVIOUS
  <2>3. c \in 0..MaxCommission
    <3>1. c <= MaxCommission
      BY <1>3 DEF setCommission
    <3> QED
      BY <3>1 DEF MaxCommission, BasisPointsScale
  <2>4. r \in ValidatorRec /\ r.last = val[v].last
    BY <1>0, <1>r, <2>2, <2>3 DEF ValidatorRec
  <2>5. val' = [val EXCEPT ![v] = r]
    BY <1>0, <2>1, <2>2 DEF LedgerOK
  <2> QED
    BY <1>0, <2>1, <2>4, <2>5, StoredRefs
<1> QED
  BY <1>1, <1>2, <1>3

(* Rewards go to pools, not to states.                                     *)
LEMMA RewardRefs ==
  ASSUME IInv, AllHeld, NEW v \in Validator, Exists(v), NEW reward \in Nat, NEW fees \in Nat,
         AddValidatorRewards(v, reward, fees), st' = st, del' = del
  PROVE  AllHeld'
<1>0. LedgerOK
  BY DEF IInv
<1>1. val[v] \in ValidatorRec
  BY <1>0 DEF LedgerOK, Exists, BoundedRec
<1>2. PICK c : c = (reward * val[v].commission) \div MaxCommission
  OBVIOUS
<1>3. c \in 0..reward
  <2>1. val[v].commission \in 0..MaxCommission
    BY <1>1 DEF ValidatorRec
  <2> QED
    BY <1>2, <2>1, ShareBound
<1>4. PICK p, q : p = val[v].commissionPool + c + fees /\ q = val[v].pool + (reward - c)
  OBVIOUS
<1>5. p \in Nat /\ q \in Nat
  BY <1>1, <1>3, <1>4 DEF ValidatorRec
<1>6. PICK r : r = [val[v] EXCEPT !.commissionPool = p, !.pool = q]
  OBVIOUS
<1>7. r \in ValidatorRec /\ r.last = val[v].last
  BY <1>1, <1>5, <1>6 DEF ValidatorRec
<1>8. val' = [val EXCEPT ![v] = r]
  BY <1>0, <1>2, <1>4, <1>6 DEF AddValidatorRewards, LedgerOK
<1> QED
  BY <1>7, <1>8, StoredRefs

(* undelegateInternal takes a delegation and leaves its reference.         *)
LEMMA EvictionRefs ==
  ASSUME IInv, IInv', AllHeld, NEW d \in Delegator, undelegateInternal(d)
  PROVE  AllHeld'
<1>0. LedgerOK
  BY DEF IInv
<1>1. PICK v \in Validator : v = loop.current /\ Exists(v) /\ Delegated(d, v) /\ del[d][v].stake \in Nat
  BY EvictionMoves
<1>2. PICK r : r = WithoutDelegation(v, del[d][v].stake)
  OBVIOUS
<1>3. val' = [val EXCEPT ![v] = r] /\ del' = [del EXCEPT ![d][v] = Nil] /\ st' = st
  BY <1>1, <1>2 DEF undelegateInternal
<1>4. val[v] \in ValidatorRec
  BY <1>0, <1>1 DEF LedgerOK, Exists, BoundedRec
<1>5. PICK p, q : p = val[v].stake - del[d][v].stake /\ q = Inc(val[v].undelegations)
  OBVIOUS
<1>6. p \in Int /\ q \in Nat
  BY <1>1, <1>4, <1>5, ConfigAssumption DEF ValidatorRec, Inc
<1>7. r \in ValidatorRec /\ r.last = val[v].last
  <2>1. r = [val[v] EXCEPT !.stake = p, !.undelegations = q]
    BY <1>2, <1>5 DEF WithoutDelegation
  <2> QED
    BY <1>4, <1>6, <2>1 DEF ValidatorRec
<1>8. \A e \in Delegator, w \in Validator : del'[e][w] = del[e][w] \/ del'[e][w] = Nil
  BY <1>0, <1>1, <1>3 DEF LedgerOK
<1> QED
  BY <1>1, <1>3, <1>7, <1>8, StoredRefs

(* Every step keeps the references, until one of the defects.              *)
LEMMA TransactionRefs ==
  ASSUME IInv, LedgerOK', AllHeld, StakeTrue, AllPositive, Transaction,
         Spared({"cancel", "redelegate", "zero"})'
  PROVE  AllHeld'
<1>0. Amounts \subseteq Nat /\ Commissions \subseteq Nat
  BY InputAssumption
<1>1. ASSUME NEW d \in Delegator, NEW v \in Validator, NEW a \in Amounts, NEW c \in Commissions,
             registerValidator(v, d, a, c)
      PROVE  AllHeld'
  <2>1. registerValidatorWithoutChecks(v, d, a, c) /\ a \in Nat
    BY <1>0, <1>1 DEF registerValidator
  <2> QED
    BY <2>1, RegisterRefs
<1>2. ASSUME NEW d \in Delegator, NEW v \in Validator, NEW a \in Amounts, Delegate(d, v, a)
      PROVE  AllHeld'
  <2>1. delegate(d, v, a) /\ a \in Nat
    BY <1>0, <1>2 DEF Delegate
  <2> QED
    BY <2>1, DelegateRefs
<1>3. ASSUME NEW d \in Delegator, NEW v \in Validator, NEW a \in Amounts, undelegate(d, v, a)
      PROVE  AllHeld'
  BY <1>0, <1>3, UndelegateRefs
<1>4. ASSUME NEW d \in Delegator, NEW v \in Validator, NEW t \in Validator, NEW a \in Amounts,
             redelegate(d, v, t, a)
      PROVE  AllHeld'
  BY <1>0, <1>4, RedelegateRefs
<1>5. ASSUME NEW d \in Delegator, NEW v \in Validator, claimRewards(d, v) PROVE AllHeld'
  <2>1. ClaimFrom(d, {v}) /\ {v} \in SUBSET Validator
    BY <1>5 DEF claimRewards
  <2> QED
    BY <2>1, ClaimRefs
<1>6. ASSUME NEW d \in Delegator, NEW v \in Validator, claimCommissionRewards(d, v) PROVE AllHeld'
  <2>1. 0 \in Nat
    OBVIOUS
  <2> QED
    BY <1>6, <2>1, CommissionRefs
<1>7. ASSUME NEW d \in Delegator, NEW v \in Validator, NEW c \in Commissions, setCommission(d, v, c)
      PROVE  AllHeld'
  BY <1>0, <1>7, CommissionRefs
<1>8. ASSUME NEW u \in und, confirmUndelegate(u) PROVE AllHeld'
  BY <1>8, ConfirmRefs
<1>9. ASSUME NEW u \in und, cancelUndelegate(u) PROVE AllHeld'
  BY <1>9, CancelRefs
<1>10. ASSUME NEW d \in Delegator, claimAllRewards(d) PROVE AllHeld'
  <2>1. PICK from \in SUBSET Validator : ClaimFrom(d, from)
    BY <1>10, ClaimsSome
  <2> QED
    BY <2>1, ClaimRefs
<1> QED
  BY <1>1, <1>2, <1>3, <1>4, <1>5, <1>6, <1>7, <1>8, <1>9, <1>10 DEF Transaction

(* The same for the steps outside transactions.                            *)
LEMMA OtherRefs ==
  ASSUME IInv, IInv', AllHeld, Genesis \/ Distribution \/ Penalties \/ EndBlock \/ UNCHANGED vars
  PROVE  AllHeld'
<1>0. Amounts \subseteq Nat /\ Rewards \subseteq Nat
  BY InputAssumption
<1>1. CASE Genesis
  <2>1. ASSUME NEW v \in Validator, NEW d \in Delegator, NEW c \in Commissions, GenesisValidator(v, d, c)
        PROVE  AllHeld'
    <3>1. registerValidatorWithoutChecks(v, d, 0, c) /\ 0 \in Nat
      BY <2>1 DEF GenesisValidator
    <3> QED
      BY <3>1, RegisterRefs
  <2>2. ASSUME NEW v \in Validator, NEW d \in Delegator, NEW a \in Amounts, GenesisDelegation(d, v, a)
        PROVE  AllHeld'
    <3>1. delegate(d, v, a) /\ a \in Nat
      BY <1>0, <2>2 DEF GenesisDelegation
    <3> QED
      BY <3>1, DelegateRefs
  <2>3. ASSUME EndGenesis PROVE AllHeld'
    BY <2>3, QuietRefs DEF EndGenesis, ledger
  <2> QED
    BY <1>1, <2>1, <2>2, <2>3 DEF Genesis
<1>2. CASE Distribution
  <2>1. ASSUME NEW listed \in SUBSET Validator, NEW author \in Validator, NEW r \in Rewards,
               DistributeRewards(listed, author, r)
        PROVE  AllHeld'
    <3>0. st' = st /\ del' = del /\ r \in Nat /\ 0 \in Nat
      BY <1>0, <2>1 DEF DistributeRewards
    <3>1. CASE r > 0 /\ Exists(author)
      <4>1. AddValidatorRewards(author, r, 0)
        BY <2>1, <3>1 DEF DistributeRewards
      <4> QED
        BY <3>0, <3>1, <4>1, RewardRefs
    <3>2. CASE ~(r > 0 /\ Exists(author))
      <4>1. val' = val
        BY <2>1, <3>2 DEF DistributeRewards
      <4> QED
        BY <3>0, <4>1, QuietRefs
    <3> QED
      BY <3>1, <3>2
  <2>2. ASSUME NEW v \in Validator, NEW active \in BOOLEAN, NEW r \in Rewards, NEW f \in Rewards,
               RewardValidator(v, active, r, f)
        PROVE  AllHeld'
    <3>0. st' = st /\ del' = del /\ r \in Nat /\ f \in Nat
      BY <1>0, <2>2 DEF RewardValidator
    <3>1. CASE Exists(v)
      <4>1. AddValidatorRewards(v, r, f)
        BY <2>2, <3>1 DEF RewardValidator
      <4> QED
        BY <3>0, <3>1, <4>1, RewardRefs
    <3>2. CASE ~Exists(v)
      <4>1. val' = val
        BY <2>2, <3>2 DEF RewardValidator
      <4> QED
        BY <3>0, <4>1, QuietRefs
    <3> QED
      BY <3>1, <3>2
  <2>3. ASSUME EndDistribution PROVE AllHeld'
    BY <2>3, QuietRefs DEF EndDistribution, ledger
  <2> QED
    BY <1>2, <2>1, <2>2, <2>3 DEF Distribution
<1>3. CASE Penalties
  <2>1. ASSUME NEW d \in Delegator, undelegateInternal(d) PROVE AllHeld'
    BY <2>1, EvictionRefs
  <2>2. CASE ~\E d \in Delegator : undelegateInternal(d)
    <3>1. UNCHANGED ledger
      BY <1>3, <2>2 DEF Penalties, ResumeEviction, forceEvictValidator, EndResume, Scan, EndScan,
           StartEviction, EndEviction, EndPenalties
    <3> QED
      BY <3>1, QuietRefs DEF ledger
  <2> QED
    BY <2>1, <2>2
<1>4. CASE EndBlock \/ UNCHANGED vars
  BY <1>4, QuietRefs DEF EndBlock, vars, ledger
<1> QED
  BY <1>1, <1>2, <1>3, <1>4

(* Nothing refers to anything at the start.                                *)
LEMMA InitRefs == Init => Positive /\ RefsCounted
<1> SUFFICES ASSUME Init PROVE AllPositive /\ AllHeld
  BY DEF Positive, RefsCounted, AllHeld, RefsHeld
<1>1. /\ \A d \in Delegator, v \in Validator : ~Delegated(d, v)
      /\ \A v \in Validator : ~Exists(v)
      /\ \A v \in Validator, b \in Blocks : st[v][b].count = 0
  BY DEF Init, Delegated, Exists, NoState
<1>2. AllPositive
  BY <1>1 DEF AllPositive
<1>3. ASSUME NEW v \in Validator, NEW b \in Blocks PROVE Refs(v, b) <= st[v][b].count
  <2>1. Holders(v, b) = {}
    BY <1>1 DEF Holders
  <2>2. Cardinality(Holders(v, b)) = 0 /\ Points(val[v], b) = 0
    BY <1>1, <2>1, FS_EmptySet DEF Points, Exists
  <2> QED
    BY <1>1, <2>2, RefsParts
<1> QED
  BY <1>2, <1>3 DEF AllHeld, RefsHeld

(* A step keeps the references counted.                                    *)
LEMMA StepRefs ==
  ASSUME IInv, IInv', StakeAccounted, Positive, RefsCounted, [Next]_vars
  PROVE  RefsCounted'
<1> SUFFICES ASSUME Spared({"cancel", "redelegate", "zero"})' PROVE AllHeld'
  BY DEF RefsCounted, AllHeld, RefsHeld
<1>1. LedgerOK' /\ defects \subseteq defects'
  BY StepStakes DEF IInv
<1>2. Spared({"cancel", "redelegate", "zero"})
  BY <1>1, SparedBefore
<1>3. Spared({"cancel", "zero"}) /\ Spared({"zero"})
  BY <1>2 DEF Spared
<1>4. AllHeld /\ AllPositive
  BY <1>2, <1>3 DEF RefsCounted, AllHeld, RefsHeld, Positive
<1>5. StakeTrue
  BY <1>3 DEF StakeAccounted, StakeTrue, StakeSum, StakeTotal
<1>6. CASE Transaction
  BY <1>1, <1>4, <1>5, <1>6, TransactionRefs
<1>7. CASE ~Transaction
  BY <1>4, <1>7, OtherRefs DEF Next
<1> QED
  BY <1>6, <1>7

(***************************************************************************)
(* With a minimum deposit no reward state goes missing while a delegation  *)
(* or a validator refers to it, so that state_get_and_decrement never      *)
(* panics, unless one of the damaging error paths was taken.  Without a    *)
(* minimum deposit a delegation of nothing would keep a reference to the   *)
(* state of a validator that may be deleted.                               *)
(***************************************************************************)
THEOREM StatesStay ==
  ASSUME MinimumDeposit > 0
  PROVE  Spec => []RefsCounted
<1>1. IInv /\ StakeAccounted /\ Positive /\ RefsCounted /\ [Next]_vars
        => IInv' /\ StakeAccounted' /\ Positive' /\ RefsCounted'
  <2> SUFFICES ASSUME IInv, StakeAccounted, Positive, RefsCounted, [Next]_vars
               PROVE  IInv' /\ StakeAccounted' /\ Positive' /\ RefsCounted'
    OBVIOUS
  <2>1. IInv'
    BY StepPreserves
  <2> QED
    BY <2>1, StepAccounts, StepPositive, StepRefs
<1> QED
  BY <1>1, InitIInv, InitAccounts, InitRefs, PTL DEF Spec

-----------------------------------------------------------------------------
(* The counter of undelegations.                                           *)

Pending(v) == {u \in und : u.validator = v}

Anchored(v) ==
  IF Exists(v)
  THEN val[v].undelegations = Cardinality(Pending(v))
  ELSE Pending(v) = {} /\ \A d \in Delegator : ~Delegated(d, v)

AllAnchored == \A v \in Validator : Anchored(v)

(* Undelegations are told apart by the ids of their delegators, which only *)
(* grow.                                                                   *)
IdsGrow == IsFiniteSet(und) /\ \A u \in und : u.id <= lastId[u.delegator]

(* The uint16 counter of a validator has room for its undelegations.       *)
CounterFits == \A v \in Validator : Cardinality(Pending(v)) < UndelegationsModulus

(* The pending undelegations of a validator are finitely many.             *)
LEMMA PendingFinite ==
  ASSUME IsFiniteSet(und), NEW v
  PROVE  IsFiniteSet(Pending(v)) /\ Cardinality(Pending(v)) \in Nat
<1>1. Pending(v) \in SUBSET und
  BY DEF Pending
<1> QED
  BY <1>1, FS_Subset, FS_CardinalityType

(* A new undelegation: one more for its validator.                         *)
LEMMA UndelegationAdded ==
  ASSUME LedgerOK, IdsGrow, NEW d \in Delegator, NEW v \in Validator, NEW amount, NEW b,
         lastId' = [lastId EXCEPT ![d] = @ + 1],
         und' = und \cup {[delegator |-> d, validator |-> v, id |-> lastId[d] + 1,
                           amount |-> amount, block |-> b]}
  PROVE  /\ IdsGrow'
         /\ Cardinality(Pending(v)') = Cardinality(Pending(v)) + 1
         /\ \A w \in Validator : w # v => Pending(w)' = Pending(w)
<1>1. PICK u : u = [delegator |-> d, validator |-> v, id |-> lastId[d] + 1,
                    amount |-> amount, block |-> b]
  OBVIOUS
<1>2. und' = und \cup {u} /\ u.delegator = d /\ u.validator = v /\ u.id = lastId[d] + 1
  BY <1>1
<1>3. lastId[d] \in Nat /\ lastId'[d] = lastId[d] + 1 /\ \A e \in Delegator : e # d => lastId'[e] = lastId[e]
  BY DEF LedgerOK
<1>4. \A x \in und : x \in UndelegationRec /\ x.id \in Nat /\ x.delegator \in Delegator
  BY DEF LedgerOK, UndelegationRec
<1>5. u \notin und
  BY <1>2, <1>3, <1>4 DEF IdsGrow
<1>6. IdsGrow'
  <2>1. IsFiniteSet(und')
    BY <1>2, FS_AddElement DEF IdsGrow
  <2>2. ASSUME NEW x \in und PROVE x.id <= lastId'[x.delegator]
    <3>1. x.id <= lastId[x.delegator] /\ lastId[x.delegator] \in Nat /\ x.id \in Nat
      BY <1>4 DEF IdsGrow, LedgerOK
    <3> QED
      BY <1>3, <1>4, <3>1
  <2>3. u.id <= lastId'[u.delegator]
    BY <1>2, <1>3
  <2> QED
    BY <1>2, <2>1, <2>2, <2>3 DEF IdsGrow
<1>7. Pending(v)' = Pending(v) \cup {u} /\ u \notin Pending(v)
  BY <1>2, <1>5 DEF Pending
<1>8. Cardinality(Pending(v)') = Cardinality(Pending(v)) + 1
  <2>1. IsFiniteSet(Pending(v))
    BY PendingFinite DEF IdsGrow
  <2>2. PICK S : S = Pending(v)'
    OBVIOUS
  <2>3. Cardinality(S) = Cardinality(Pending(v)) + 1
    BY <1>7, <2>1, <2>2, FS_AddElement
  <2> QED
    BY <2>2, <2>3
<1>9. \A w \in Validator : w # v => Pending(w)' = Pending(w)
  BY <1>2 DEF Pending
<1> QED
  BY <1>6, <1>8, <1>9

(* An undelegation is confirmed or cancelled.                              *)
LEMMA UndelegationRemoved ==
  ASSUME IdsGrow, NEW u \in und, und' = und \ {u}, lastId' = lastId
  PROVE  /\ IdsGrow'
         /\ Cardinality(Pending(u.validator)) >= 1
         /\ Cardinality(Pending(u.validator)') = Cardinality(Pending(u.validator)) - 1
         /\ Pending(u.validator) # {}
         /\ Cardinality(Pending(u.validator)') = 0 => Pending(u.validator)' = {}
         /\ \A w \in Validator : w # u.validator => Pending(w)' = Pending(w)
<1>1. PICK v : v = u.validator
  OBVIOUS
<1>2. PICK S, T : S = Pending(v) /\ T = Pending(v)'
  OBVIOUS
<1>3. T = S \ {u} /\ u \in S
  BY <1>1, <1>2 DEF Pending
<1>4. IsFiniteSet(S) /\ Cardinality(S) \in Nat
  BY <1>2, PendingFinite DEF IdsGrow
<1>5. Cardinality(T) = Cardinality(S) - 1 /\ IsFiniteSet(T)
  BY <1>3, <1>4, FS_RemoveElement
<1>6. Cardinality(T) \in Nat /\ (Cardinality(T) = 0 => T = {})
  BY <1>5, FS_CardinalityType, FS_EmptySet
<1>7. IdsGrow'
  BY FS_RemoveElement DEF IdsGrow
<1>8. \A w \in Validator : w # v => Pending(w)' = Pending(w)
  BY <1>1 DEF Pending
<1>9. Cardinality(S) >= 1
  BY <1>4, <1>5, <1>6
<1> QED
  BY <1>1, <1>2, <1>3, <1>5, <1>6, <1>7, <1>8, <1>9

(* A validator whose counter and pending undelegations stay.               *)
LEMMA AnchoredKept ==
  ASSUME NEW v \in Validator, Anchored(v), Exists(v)' <=> Exists(v), Pending(v)' = Pending(v),
         Exists(v) => val'[v].undelegations = val[v].undelegations,
         ~Exists(v) => \A d \in Delegator : Delegated(d, v)' => Delegated(d, v)
  PROVE  Anchored(v)'
BY DEF Anchored

(* A validator that a step leaves alone.                                   *)
LEMMA AnchoredAlone ==
  ASSUME NEW v \in Validator, Anchored(v), val'[v] = val[v], Pending(v)' = Pending(v),
         \A d \in Delegator : Delegated(d, v)' => Delegated(d, v)
  PROVE  Anchored(v)'
<1>1. (Exists(v)' <=> Exists(v)) /\ (Exists(v) => val'[v].undelegations = val[v].undelegations)
  BY DEF Exists
<1> QED
  BY <1>1, AnchoredKept

(* Undelegations that a step leaves alone.                                 *)
LEMMA UndKept ==
  ASSUME IdsGrow, und' = und, lastId' = lastId
  PROVE  IdsGrow' /\ \A w \in Validator : Pending(w)' = Pending(w)
BY DEF IdsGrow, Pending

(* What settling, crediting and debiting do to the counter.                *)
LEMMA SettledCounter ==
  ASSUME LedgerOK, block \in Blocks, NEW v \in Validator, Exists(v), CanSettle(v), NEW amount \in Nat
  PROVE  /\ ValSettled(v).undelegations = val[v].undelegations
         /\ ValCredited(v, amount).undelegations = val[v].undelegations
         /\ ValUndelegated(v, amount).undelegations = Inc(val[v].undelegations)
         /\ ValCancelled(v, amount).undelegations = Dec(val[v].undelegations)
         /\ ValSettled(v) \in ValidatorRec /\ val[v].undelegations \in Nat
<1>1. PICK s : s = ValSettled(v)
  OBVIOUS
<1>2. s \in ValidatorRec /\ val[v] \in ValidatorRec
  BY <1>1, SettleTypes DEF BoundedRec, LedgerOK, Exists
<1>3. s.undelegations = val[v].undelegations
  BY <1>1, <1>2 DEF ValSettled, ValidatorRec
<1>4. ValCredited(v, amount).undelegations = s.undelegations
  BY <1>1, <1>2 DEF ValCredited, ValidatorRec
<1>5. ValUndelegated(v, amount).undelegations = Inc(s.undelegations)
  BY <1>1, <1>2 DEF ValUndelegated, ValidatorRec
<1>6. ValCancelled(v, amount).undelegations = Dec(s.undelegations)
  BY <1>1, <1>2 DEF ValCancelled, ValidatorRec
<1> QED
  BY <1>1, <1>2, <1>3, <1>4, <1>5, <1>6 DEF ValidatorRec

(* A call that stores a record for v and a delegation of d to it.          *)
LEMMA StoredAnchors ==
  ASSUME LedgerOK, AllAnchored, NEW d \in Delegator, NEW v \in Validator, NEW r \in BoundedRec, NEW q,
         val' = [val EXCEPT ![v] = r], del' = [del EXCEPT ![d][v] = q],
         r.undelegations = Cardinality(Pending(v)'),
         \A w \in Validator : w # v => Pending(w)' = Pending(w)
  PROVE  AllAnchored'
<1>1. r # Nil
  BY NilAssumption DEF BoundedRec
<1>2. val'[v] = r /\ \A w \in Validator : w # v =>
        val'[w] = val[w] /\ \A e \in Delegator : del'[e][w] = del[e][w]
  BY DEF LedgerOK
<1>3. Anchored(v)'
  BY <1>1, <1>2 DEF Anchored, Exists
<1>4. ASSUME NEW w \in Validator, w # v PROVE Anchored(w)'
  <2>1. Anchored(w) /\ val'[w] = val[w] /\ Pending(w)' = Pending(w)
        /\ \A e \in Delegator : Delegated(e, w)' => Delegated(e, w)
    BY <1>2, <1>4 DEF AllAnchored, Delegated
  <2> QED
    BY <2>1, AnchoredAlone
<1> QED
  BY <1>3, <1>4 DEF AllAnchored

(* delegate.                                                               *)
LEMMA DelegateAnchors ==
  ASSUME IInv, IdsGrow, AllAnchored, NEW d \in Delegator, NEW v \in Validator, NEW amount \in Nat,
         delegate(d, v, amount)
  PROVE  AllAnchored'
<1>0. /\ LedgerOK /\ block \in Blocks /\ Exists(v) /\ CanSettle(v) /\ FitsMaximum(v, amount)
      /\ und' = und /\ lastId' = lastId
  BY DEF IInv, ControlOK, delegate, CanCredit
<1>1. PICK r, q : r = ValCredited(v, amount) /\ q = Credited(d, v, amount)
  OBVIOUS
<1>2. val' = [val EXCEPT ![v] = r] /\ del' = [del EXCEPT ![d][v] = q]
  BY <1>1 DEF delegate
<1>3. r \in BoundedRec /\ r.undelegations = val[v].undelegations
  BY <1>0, <1>1, ValRecTypes, SettledCounter
<1>4. \A w \in Validator : Pending(w)' = Pending(w)
  BY <1>0, UndKept
<1>5. r.undelegations = Cardinality(Pending(v)')
  BY <1>0, <1>3, <1>4 DEF AllAnchored, Anchored
<1> QED
  BY <1>0, <1>2, <1>3, <1>4, <1>5, StoredAnchors

(* undelegate.                                                             *)
LEMMA UndelegateAnchors ==
  ASSUME IInv, IdsGrow, AllAnchored, NEW d \in Delegator, NEW v \in Validator, NEW amount \in Nat,
         undelegate(d, v, amount), CounterFits'
  PROVE  IdsGrow' /\ AllAnchored'
<1>0. LedgerOK /\ block \in Blocks /\ Exists(v) /\ CanSettle(v)
  BY DEF IInv, ControlOK, undelegate, CanClaim
<1>1. PICK r, q : r = ValUndelegated(v, amount) /\ q = Debited(d, v, amount)
  OBVIOUS
<1>2. /\ val' = [val EXCEPT ![v] = r] /\ del' = [del EXCEPT ![d][v] = q]
      /\ lastId' = [lastId EXCEPT ![d] = @ + 1]
      /\ und' = und \cup {[delegator |-> d, validator |-> v, id |-> lastId[d] + 1,
                           amount |-> amount, block |-> block + DelegationLockingPeriod]}
  BY <1>1 DEF undelegate
<1>3. /\ IdsGrow' /\ Cardinality(Pending(v)') = Cardinality(Pending(v)) + 1
      /\ \A w \in Validator : w # v => Pending(w)' = Pending(w)
  BY <1>0, <1>2, UndelegationAdded
<1>4. r \in BoundedRec /\ r.undelegations = Inc(val[v].undelegations) /\ val[v].undelegations \in Nat
  BY <1>0, <1>1, ValRecTypes, SettledCounter
<1>5. val[v].undelegations = Cardinality(Pending(v))
  BY <1>0 DEF AllAnchored, Anchored
<1>6. val[v].undelegations + 1 < UndelegationsModulus
  BY <1>3, <1>5 DEF CounterFits
<1>7. Inc(val[v].undelegations) = val[v].undelegations + 1
  BY <1>4, <1>6, ConfigAssumption DEF Inc
<1>8. r.undelegations = Cardinality(Pending(v)')
  BY <1>3, <1>4, <1>5, <1>7
<1> QED
  BY <1>0, <1>2, <1>3, <1>4, <1>8, StoredAnchors

(* The counter goes down with the pending undelegations.                   *)
LEMMA CounterDown ==
  ASSUME NEW n \in Nat, n >= 1
  PROVE  Dec(n) = n - 1
BY DEF Dec

(* cancelUndelegate, when it is accepted.                                  *)
LEMMA CancelAnchors ==
  ASSUME IInv, IdsGrow, NEW u \in und, cancelUndelegate(u)
  PROVE  IdsGrow' /\ (AllAnchored /\ "cancel" \notin defects' => AllAnchored')
<1>1. PICK d, v, amount : d = u.delegator /\ v = u.validator /\ amount = u.amount
  OBVIOUS
<1>2. d \in Delegator /\ v \in Validator /\ amount \in Nat
  BY <1>1 DEF IInv, LedgerOK, UndelegationRec
<1>0. /\ LedgerOK /\ block \in Blocks /\ Exists(v) /\ CanSettle(v) /\ und' = und \ {u} /\ lastId' = lastId
  BY <1>1 DEF IInv, ControlOK, cancelUndelegate, CanCredit
<1>3. /\ IdsGrow' /\ Cardinality(Pending(v)) >= 1
      /\ Cardinality(Pending(v)') = Cardinality(Pending(v)) - 1
      /\ \A w \in Validator : w # v => Pending(w)' = Pending(w)
  BY <1>0, <1>1, UndelegationRemoved
<1>4. ASSUME AllAnchored, "cancel" \notin defects' PROVE AllAnchored'
  <2>1. FitsMaximum(v, amount)
    BY <1>1, <1>4 DEF cancelUndelegate
  <2>2. PICK r, q : r = ValCancelled(v, amount) /\ q = Credited(d, v, amount)
    OBVIOUS
  <2>3. val' = [val EXCEPT ![v] = r] /\ del' = [del EXCEPT ![d][v] = q]
    BY <1>1, <2>1, <2>2 DEF cancelUndelegate
  <2>4. r \in BoundedRec /\ r.undelegations = Dec(val[v].undelegations) /\ val[v].undelegations \in Nat
    BY <1>0, <1>2, <2>1, <2>2, ValRecTypes, SettledCounter
  <2>5. val[v].undelegations = Cardinality(Pending(v))
    BY <1>0, <1>2, <1>4 DEF AllAnchored, Anchored
  <2>6. Dec(val[v].undelegations) = val[v].undelegations - 1
    BY <1>3, <2>4, <2>5, CounterDown
  <2>7. r.undelegations = Cardinality(Pending(v)')
    BY <1>3, <2>4, <2>5, <2>6
  <2> QED
    BY <1>0, <1>2, <1>3, <1>4, <2>3, <2>4, <2>7, StoredAnchors
<1> QED
  BY <1>3, <1>4

(* A validator is deleted that has no stake and no undelegations.          *)
LEMMA DeleteAnchors ==
  ASSUME LedgerOK, AllAnchored, StakeTrue, AllPositive, NEW v \in Validator, Exists(v),
         val[v].stake = 0, val' = [val EXCEPT ![v] = Nil], del' = del, Pending(v)' = {},
         \A w \in Validator : w # v => Pending(w)' = Pending(w)
  PROVE  AllAnchored'
<1>1. val'[v] = Nil /\ \A w \in Validator : w # v => val'[w] = val[w]
  BY DEF LedgerOK
<1>2. \A d \in Delegator : ~Delegated(d, v)
  <2>1. ValidatorStake(v) = 0
    BY DEF ValidatorStake
  <2> QED
    BY <2>1, NoDelegations
<1>3. \A d \in Delegator, w \in Validator : Delegated(d, w)' <=> Delegated(d, w)
  BY DEF Delegated
<1>4. Anchored(v)'
  BY <1>1, <1>2, <1>3 DEF Anchored, Exists
<1>5. ASSUME NEW w \in Validator, w # v PROVE Anchored(w)'
  <2>1. Anchored(w) /\ val'[w] = val[w] /\ Pending(w)' = Pending(w)
        /\ \A e \in Delegator : Delegated(e, w)' => Delegated(e, w)
    BY <1>1, <1>3, <1>5 DEF AllAnchored
  <2> QED
    BY <2>1, AnchoredAlone
<1> QED
  BY <1>4, <1>5 DEF AllAnchored

(* A record of v with another counter is stored.                           *)
LEMMA CounterStored ==
  ASSUME LedgerOK, AllAnchored, NEW v \in Validator, NEW r \in ValidatorRec,
         val' = [val EXCEPT ![v] = r], del' = del, r.undelegations = Cardinality(Pending(v)'),
         \A w \in Validator : w # v => Pending(w)' = Pending(w)
  PROVE  AllAnchored'
<1>1. r # Nil
  BY NilAssumption
<1>2. val'[v] = r /\ \A w \in Validator : w # v => val'[w] = val[w]
  BY DEF LedgerOK
<1>3. Anchored(v)'
  BY <1>1, <1>2 DEF Anchored, Exists
<1>4. ASSUME NEW w \in Validator, w # v PROVE Anchored(w)'
  <2>1. Anchored(w) /\ val'[w] = val[w] /\ Pending(w)' = Pending(w)
        /\ \A e \in Delegator : Delegated(e, w)' => Delegated(e, w)
    BY <1>2, <1>4 DEF AllAnchored, Delegated
  <2> QED
    BY <2>1, AnchoredAlone
<1> QED
  BY <1>3, <1>4 DEF AllAnchored

(* confirmUndelegate.                                                      *)
LEMMA ConfirmAnchors ==
  ASSUME IInv, IdsGrow, NEW u \in und, confirmUndelegate(u)
  PROVE  IdsGrow' /\ (AllAnchored /\ StakeTrue /\ AllPositive => AllAnchored')
<1>1. PICK v : v = u.validator
  OBVIOUS
<1>2. v \in Validator
  BY <1>1 DEF IInv, LedgerOK, UndelegationRec
<1>0. LedgerOK /\ und' = und \ {u} /\ lastId' = lastId /\ del' = del
  BY DEF IInv, confirmUndelegate
<1>3. /\ IdsGrow' /\ Cardinality(Pending(v)) >= 1 /\ Pending(v) # {}
      /\ Cardinality(Pending(v)') = Cardinality(Pending(v)) - 1
      /\ Cardinality(Pending(v)') = 0 => Pending(v)' = {}
      /\ \A w \in Validator : w # v => Pending(w)' = Pending(w)
  BY <1>0, <1>1, UndelegationRemoved
<1>4. ASSUME AllAnchored, StakeTrue, AllPositive PROVE AllAnchored'
  <2>1. Exists(v) /\ val[v].undelegations = Cardinality(Pending(v))
    BY <1>2, <1>3, <1>4 DEF AllAnchored, Anchored
  <2>2. val[v] \in ValidatorRec /\ val[v].undelegations \in Nat
    BY <1>0, <1>2, <2>1 DEF LedgerOK, Exists, BoundedRec, ValidatorRec
  <2>3. PICK n : n = Dec(val[v].undelegations)
    OBVIOUS
  <2>4. n = Cardinality(Pending(v)') /\ n \in Nat
    BY <1>3, <2>1, <2>2, <2>3 DEF Dec
  <2>5. CASE n = 0 /\ val[v].stake = 0 /\ val[v].commissionPool = 0
    <3>1. val' = [val EXCEPT ![v] = Nil] /\ Pending(v)' = {}
      BY <1>1, <1>3, <2>1, <2>3, <2>4, <2>5 DEF confirmUndelegate, DeleteValidator
    <3> QED
      BY <1>0, <1>2, <1>3, <1>4, <2>1, <2>5, <3>1, DeleteAnchors
  <2>6. CASE ~(n = 0 /\ val[v].stake = 0 /\ val[v].commissionPool = 0)
    <3>1. val' = [val EXCEPT ![v].undelegations = n]
      BY <1>1, <2>1, <2>3, <2>6 DEF confirmUndelegate
    <3>2. PICK r : r = [val[v] EXCEPT !.undelegations = n]
      OBVIOUS
    <3>3. r \in ValidatorRec /\ r.undelegations = n
      BY <2>2, <2>4, <3>2 DEF ValidatorRec
    <3>4. val' = [val EXCEPT ![v] = r]
      BY <1>0, <1>2, <3>1, <3>2 DEF LedgerOK
    <3>5. r.undelegations = Cardinality(Pending(v)')
      BY <2>4, <3>3
    <3> QED
      BY <1>0, <1>2, <1>3, <1>4, <3>3, <3>4, <3>5, CounterStored
  <2> QED
    BY <2>5, <2>6
<1> QED
  BY <1>3, <1>4

(* registerValidator: nothing was left of an earlier validator.            *)
LEMMA RegisterAnchors ==
  ASSUME IInv, IdsGrow, AllAnchored, NEW owner \in Delegator, NEW v \in Validator, NEW amount \in Nat,
         NEW c \in Nat, registerValidatorWithoutChecks(v, owner, amount, c)
  PROVE  AllAnchored'
<1>0. LedgerOK /\ ~Exists(v) /\ und' = und /\ lastId' = lastId
  BY DEF IInv, registerValidatorWithoutChecks
<1>1. PICK r : r = [stake |-> amount, commission |-> c, lastCommissionChange |-> block, last |-> block,
                    undelegations |-> 0, pool |-> 0, commissionPool |-> 0, owner |-> owner]
  OBVIOUS
<1>2. /\ val' = [val EXCEPT ![v] = r]
      /\ del' = IF amount > 0 THEN [del EXCEPT ![owner][v] = [stake |-> amount, last |-> block]] ELSE del
  BY <1>1 DEF registerValidatorWithoutChecks
<1>3. val'[v] = r /\ \A w \in Validator : w # v =>
        val'[w] = val[w] /\ \A e \in Delegator : del'[e][w] = del[e][w]
  BY <1>0, <1>2 DEF LedgerOK
<1>4. \A w \in Validator : Pending(w)' = Pending(w)
  BY <1>0, UndKept
<1>5. Cardinality(Pending(v)') = 0
  BY <1>0, <1>4, FS_EmptySet DEF AllAnchored, Anchored
<1>6. Anchored(v)'
  <2>1. r.undelegations = 0 /\ r \in ValidatorRec
    <3>1. c \in 0..MaxCommission
      <4>1. c <= MaxCommission
        BY DEF registerValidatorWithoutChecks
      <4> QED
        BY <4>1 DEF MaxCommission, BasisPointsScale
    <3>2. block \in Blocks
      BY DEF IInv, ControlOK
    <3> QED
      BY <1>1, <3>1, <3>2 DEF ValidatorRec
  <2>2. val'[v] # Nil
    BY <1>3, <2>1, NilAssumption
  <2> QED
    BY <1>3, <1>5, <2>1, <2>2 DEF Anchored, Exists
<1>7. ASSUME NEW w \in Validator, w # v PROVE Anchored(w)'
  <2>1. Anchored(w) /\ val'[w] = val[w] /\ Pending(w)' = Pending(w)
        /\ \A e \in Delegator : Delegated(e, w)' => Delegated(e, w)
    BY <1>3, <1>4, <1>7 DEF AllAnchored, Delegated
  <2> QED
    BY <2>1, AnchoredAlone
<1> QED
  BY <1>6, <1>7 DEF AllAnchored

(* redelegate: a validator it deletes has lost its last delegation.        *)
LEMMA RedelegateAnchors ==
  ASSUME IInv, IdsGrow, AllAnchored, StakeTrue, AllPositive, NEW d \in Delegator, NEW f \in Validator,
         NEW t \in Validator, NEW amount \in Nat, redelegate(d, f, t, amount)
  PROVE  AllAnchored'
<1>0. /\ LedgerOK /\ block \in Blocks /\ f # t /\ Exists(f) /\ Exists(t) /\ CanSettle(f) /\ CanSettle(t)
      /\ MayWithdraw(d, f, amount) /\ FitsMaximum(t, amount) /\ und' = und /\ lastId' = lastId
      /\ Delegated(d, f)
  BY DEF IInv, ControlOK, redelegate, CanClaim, CanCredit, MayWithdraw
<1>1. /\ val' = [val EXCEPT ![f] = ValLeft(f, amount), ![t] = ValCredited(t, amount)]
      /\ del' = [del EXCEPT ![d][f] = Debited(d, f, amount), ![d][t] = Credited(d, t, amount)]
  BY DEF redelegate
<1>2. /\ val'[f] = ValLeft(f, amount) /\ val'[t] = ValCredited(t, amount)
      /\ \A w \in Validator : w # f /\ w # t => val'[w] = val[w]
  BY <1>0, <1>1 DEF LedgerOK
<1>3. /\ del'[d][f] = Debited(d, f, amount)
      /\ \A e \in Delegator, w \in Validator : ~(e = d /\ (w = f \/ w = t)) => del'[e][w] = del[e][w]
  BY <1>0, <1>1 DEF LedgerOK
<1>4. \A w \in Validator : Pending(w)' = Pending(w)
  BY <1>0, UndKept
<1>5. /\ val[f].undelegations = Cardinality(Pending(f)) /\ val[t].undelegations = Cardinality(Pending(t))
  BY <1>0 DEF AllAnchored, Anchored
<1>6. Anchored(t)'
  <2>1. PICK r : r = ValCredited(t, amount)
    OBVIOUS
  <2>2. r \in BoundedRec /\ r.undelegations = val[t].undelegations
    BY <1>0, <2>1, ValRecTypes, SettledCounter
  <2>3. r # Nil
    BY <2>2, NilAssumption DEF BoundedRec
  <2> QED
    BY <1>2, <1>4, <1>5, <2>1, <2>2, <2>3 DEF Anchored, Exists
<1>7. Anchored(f)'
  <2>1. CASE EmptyAfter(f, amount) /\ val[f].undelegations = 0
    <3>1. val'[f] = Nil
      BY <1>2, <2>1 DEF ValLeft
    <3>2. Pending(f)' = {}
      <4>1. IsFiniteSet(Pending(f)) /\ Cardinality(Pending(f)) = 0
        BY <1>5, <2>1, PendingFinite DEF IdsGrow
      <4> QED
        BY <1>4, <4>1, FS_EmptySet
    <3>3. ValidatorStake(f) = amount /\ StakeOf(d, f) = del[d][f].stake /\ amount <= del[d][f].stake
      BY <1>0, <2>1 DEF EmptyAfter, ValidatorStake, StakeOf, MayWithdraw
    <3>4. /\ \A e \in Delegator : e # d => ~Delegated(e, f)
          /\ ValidatorStake(f) = StakeOf(d, f)
      BY <1>0, <3>3, OnlyDelegator
    <3>5. \A e \in Delegator : del'[e][f] = Nil
      BY <1>3, <3>3, <3>4 DEF Debited, Delegated
    <3> QED
      BY <3>1, <3>2, <3>5 DEF Anchored, Exists, Delegated
  <2>2. CASE ~(EmptyAfter(f, amount) /\ val[f].undelegations = 0)
    <3>1. PICK s : s = ValSettled(f)
      OBVIOUS
    <3>2. /\ s \in ValidatorRec /\ s.undelegations = val[f].undelegations /\ s.stake \in Int
          /\ val[f].pool \in Nat
      BY <1>0, <3>1, SettledCounter DEF ValidatorRec, LedgerOK, Exists, BoundedRec
    <3>3. CASE ~EmptyAfter(f, amount)
      <4>1. val'[f] = [s EXCEPT !.stake = s.stake - amount] /\ s.stake - amount \in Int
        BY <1>2, <3>1, <3>2, <3>3 DEF ValLeft
      <4>2. val'[f] \in ValidatorRec /\ val'[f].undelegations = s.undelegations
        BY <3>2, <4>1 DEF ValidatorRec
      <4>3. val'[f] # Nil
        BY <4>2, NilAssumption
      <4> QED
        BY <1>4, <1>5, <3>2, <4>2, <4>3 DEF Anchored, Exists
    <3>4. CASE EmptyAfter(f, amount)
      <4>1. val'[f] = [s EXCEPT !.stake = 0, !.pool = val[f].pool]
        BY <1>2, <2>2, <3>1, <3>4 DEF ValLeft
      <4>2. val'[f] \in ValidatorRec
        BY <3>2, <4>1, EmptiedRec DEF BoundedRec
      <4>3. val'[f].undelegations = s.undelegations /\ val'[f] # Nil
        BY <3>2, <4>1, <4>2, NilAssumption DEF ValidatorRec
      <4> QED
        BY <1>4, <1>5, <3>2, <4>3 DEF Anchored, Exists
    <3> QED
      BY <3>3, <3>4
  <2> QED
    BY <2>1, <2>2
<1>8. ASSUME NEW w \in Validator, w # f, w # t PROVE Anchored(w)'
  <2>1. Anchored(w) /\ val'[w] = val[w] /\ Pending(w)' = Pending(w)
        /\ \A e \in Delegator : Delegated(e, w)' => Delegated(e, w)
    BY <1>2, <1>3, <1>4, <1>8 DEF AllAnchored, Delegated
  <2> QED
    BY <2>1, AnchoredAlone
<1> QED
  BY <1>6, <1>7, <1>8 DEF AllAnchored

(* claimRewards and claimAllRewards.                                       *)
LEMMA ClaimAnchors ==
  ASSUME IInv, IdsGrow, AllAnchored, NEW d \in Delegator, NEW from \in SUBSET Validator,
         ClaimFrom(d, from)
  PROVE  AllAnchored'
<1>0. LedgerOK /\ block \in Blocks /\ und' = und /\ lastId' = lastId
  BY DEF IInv, ControlOK, ClaimFrom
<1>1. \A w \in Validator : val'[w] = IF w \in from THEN ValSettled(w) ELSE val[w]
  BY DEF ClaimFrom
<1>2. \A e \in Delegator, w \in Validator :
          del'[e][w] = IF e = d /\ w \in from THEN [stake |-> del[e][w].stake, last |-> block]
                       ELSE del[e][w]
  BY <1>0 DEF ClaimFrom, LedgerOK
<1>3. \A w \in Validator : Pending(w)' = Pending(w)
  BY <1>0, UndKept
<1>4. ASSUME NEW w \in Validator PROVE Anchored(w)'
  <2>0. Anchored(w) /\ Pending(w)' = Pending(w)
    BY <1>3 DEF AllAnchored
  <2>1. CASE w \in from
    <3>1. Delegated(d, w) /\ CanSettle(w)
      BY <2>1 DEF ClaimFrom, CanClaim
    <3>2. Exists(w)
      BY <2>0, <3>1 DEF Anchored
    <3>3. PICK s : s = ValSettled(w)
      OBVIOUS
    <3>4. s \in ValidatorRec /\ s.undelegations = val[w].undelegations
      <4>1. 0 \in Nat
        OBVIOUS
      <4> QED
        BY <1>0, <3>1, <3>2, <3>3, <4>1, SettledCounter
    <3>5. val'[w] = s /\ s # Nil
      BY <1>1, <2>1, <3>3, <3>4, NilAssumption
    <3> QED
      BY <2>0, <3>2, <3>4, <3>5 DEF Anchored, Exists
  <2>2. CASE w \notin from
    <3>1. val'[w] = val[w] /\ \A e \in Delegator : Delegated(e, w)' => Delegated(e, w)
      BY <1>1, <1>2, <2>2 DEF Delegated
    <3> QED
      BY <2>0, <3>1, AnchoredAlone
  <2> QED
    BY <2>1, <2>2
<1> QED
  BY <1>4 DEF AllAnchored

(* A record that keeps the counter, when the undelegations stay.           *)
LEMMA SameCounter ==
  ASSUME IInv, IdsGrow, AllAnchored, NEW v \in Validator, Exists(v), NEW r \in ValidatorRec,
         r.undelegations = val[v].undelegations, val' = [val EXCEPT ![v] = r], del' = del,
         und' = und, lastId' = lastId
  PROVE  AllAnchored'
<1>0. LedgerOK
  BY DEF IInv
<1>1. \A w \in Validator : Pending(w)' = Pending(w)
  BY UndKept
<1>2. r.undelegations = Cardinality(Pending(v)')
  BY <1>1 DEF AllAnchored, Anchored
<1> QED
  BY <1>0, <1>1, <1>2, CounterStored

(* Nothing about validators, delegations and undelegations changes.        *)
LEMMA QuietAnchors ==
  ASSUME IdsGrow, AllAnchored, val' = val, del' = del, und' = und, lastId' = lastId
  PROVE  AllAnchored'
<1>1. \A w \in Validator : Pending(w)' = Pending(w)
  BY UndKept
<1>2. ASSUME NEW w \in Validator PROVE Anchored(w)'
  <2>1. Anchored(w) /\ val'[w] = val[w] /\ Pending(w)' = Pending(w)
        /\ \A e \in Delegator : Delegated(e, w)' => Delegated(e, w)
    BY <1>1 DEF AllAnchored, Delegated
  <2> QED
    BY <2>1, AnchoredAlone
<1> QED
  BY <1>2 DEF AllAnchored

(* claimCommissionRewards and setCommission.                               *)
LEMMA CommissionAnchors ==
  ASSUME IInv, IdsGrow, AllAnchored, StakeTrue, AllPositive, NEW d \in Delegator, NEW v \in Validator,
         NEW c \in Nat, claimCommissionRewards(d, v) \/ setCommission(d, v, c)
  PROVE  AllAnchored'
<1>0. LedgerOK /\ block \in Blocks /\ Exists(v) /\ del' = del /\ und' = und /\ lastId' = lastId
  BY DEF IInv, ControlOK, claimCommissionRewards, setCommission
<1>r. val[v] \in ValidatorRec
  BY <1>0 DEF LedgerOK, Exists, BoundedRec
<1>1. CASE claimCommissionRewards(d, v) /\ val[v].stake = 0 /\ val[v].undelegations = 0
  <2>1. val' = [val EXCEPT ![v] = Nil]
    BY <1>1 DEF claimCommissionRewards, DeleteValidator
  <2>2. \A w \in Validator : Pending(w)' = Pending(w)
    BY <1>0, UndKept
  <2>3. Pending(v)' = {}
    <3>1. IsFiniteSet(Pending(v)) /\ Cardinality(Pending(v)) = 0
      BY <1>0, <1>1, PendingFinite DEF IdsGrow, AllAnchored, Anchored
    <3> QED
      BY <2>2, <3>1, FS_EmptySet
  <2> QED
    BY <1>0, <1>1, <2>1, <2>2, <2>3, DeleteAnchors
<1>2. CASE claimCommissionRewards(d, v) /\ ~(val[v].stake = 0 /\ val[v].undelegations = 0)
  <2>1. val' = [val EXCEPT ![v].commissionPool = 0]
    BY <1>2 DEF claimCommissionRewards
  <2>2. PICK r : r = [val[v] EXCEPT !.commissionPool = 0]
    OBVIOUS
  <2>3. r \in ValidatorRec /\ r.undelegations = val[v].undelegations
    BY <1>r, <2>2 DEF ValidatorRec
  <2>4. val' = [val EXCEPT ![v] = r]
    BY <1>0, <2>1, <2>2 DEF LedgerOK
  <2> QED
    BY <1>0, <2>3, <2>4, SameCounter
<1>3. CASE setCommission(d, v, c)
  <2>1. val' = [val EXCEPT ![v].commission = c, ![v].lastCommissionChange = block]
    BY <1>3 DEF setCommission
  <2>2. PICK r : r = [val[v] EXCEPT !.commission = c, !.lastCommissionChange = block]
    OBVIOUS
  <2>3. c \in 0..MaxCommission
    <3>1. c <= MaxCommission
      BY <1>3 DEF setCommission
    <3> QED
      BY <3>1 DEF MaxCommission, BasisPointsScale
  <2>4. r \in ValidatorRec /\ r.undelegations = val[v].undelegations
    BY <1>0, <1>r, <2>2, <2>3 DEF ValidatorRec
  <2>5. val' = [val EXCEPT ![v] = r]
    BY <1>0, <2>1, <2>2 DEF LedgerOK
  <2> QED
    BY <1>0, <2>4, <2>5, SameCounter
<1> QED
  BY <1>1, <1>2, <1>3

(* Rewards.                                                                *)
LEMMA RewardAnchors ==
  ASSUME IInv, IdsGrow, AllAnchored, NEW v \in Validator, Exists(v), NEW reward \in Nat, NEW fees \in Nat,
         AddValidatorRewards(v, reward, fees), del' = del, und' = und, lastId' = lastId
  PROVE  AllAnchored'
<1>0. LedgerOK
  BY DEF IInv
<1>1. val[v] \in ValidatorRec
  BY <1>0 DEF LedgerOK, Exists, BoundedRec
<1>2. PICK c : c = (reward * val[v].commission) \div MaxCommission
  OBVIOUS
<1>3. c \in 0..reward
  <2>1. val[v].commission \in 0..MaxCommission
    BY <1>1 DEF ValidatorRec
  <2> QED
    BY <1>2, <2>1, ShareBound
<1>4. PICK p, q : p = val[v].commissionPool + c + fees /\ q = val[v].pool + (reward - c)
  OBVIOUS
<1>5. p \in Nat /\ q \in Nat
  BY <1>1, <1>3, <1>4 DEF ValidatorRec
<1>6. PICK r : r = [val[v] EXCEPT !.commissionPool = p, !.pool = q]
  OBVIOUS
<1>7. r \in ValidatorRec /\ r.undelegations = val[v].undelegations
  BY <1>1, <1>5, <1>6 DEF ValidatorRec
<1>8. val' = [val EXCEPT ![v] = r]
  BY <1>0, <1>2, <1>4, <1>6 DEF AddValidatorRewards, LedgerOK
<1> QED
  BY <1>7, <1>8, SameCounter

(* undelegateInternal makes an undelegation out of a delegation.           *)
LEMMA EvictionAnchors ==
  ASSUME IInv, IInv', IdsGrow, NEW d \in Delegator, undelegateInternal(d), CounterFits'
  PROVE  IdsGrow' /\ (AllAnchored => AllAnchored')
<1>0. LedgerOK /\ LedgerOK'
  BY DEF IInv
<1>1. PICK v \in Validator : v = loop.current /\ Exists(v) /\ Delegated(d, v) /\ del[d][v].stake \in Nat
  BY EvictionMoves
<1>2. PICK r, amount : r = WithoutDelegation(v, amount) /\ amount = del[d][v].stake
  OBVIOUS
<1>3. /\ val' = [val EXCEPT ![v] = r] /\ del' = [del EXCEPT ![d][v] = Nil]
      /\ lastId' = [lastId EXCEPT ![d] = @ + 1]
      /\ und' = und \cup {[delegator |-> d, validator |-> v, id |-> lastId[d] + 1,
                           amount |-> amount, block |-> block]}
  BY <1>1, <1>2 DEF undelegateInternal
<1>4. /\ IdsGrow' /\ Cardinality(Pending(v)') = Cardinality(Pending(v)) + 1
      /\ \A w \in Validator : w # v => Pending(w)' = Pending(w)
  BY <1>0, <1>3, UndelegationAdded
<1>5. val[v] \in BoundedRec /\ val[v].undelegations \in Nat
  BY <1>0, <1>1 DEF LedgerOK, Exists, BoundedRec, ValidatorRec
<1>6. PICK p, q : p = val[v].stake - amount /\ q = Inc(val[v].undelegations)
  OBVIOUS
<1>7. p \in Int /\ q \in Nat /\ p <= ValidatorMaximumStake
  <2>1. val[v].stake \in Int /\ val[v].stake <= ValidatorMaximumStake
    BY <1>5 DEF BoundedRec, ValidatorRec
  <2> QED
    BY <1>1, <1>2, <1>5, <1>6, <2>1, ConfigAssumption DEF Inc
<1>8. r \in BoundedRec /\ r.undelegations = q
  <2>1. r = [val[v] EXCEPT !.stake = p, !.undelegations = q]
    BY <1>2, <1>6 DEF WithoutDelegation
  <2> QED
    BY <1>5, <1>7, <2>1 DEF BoundedRec, ValidatorRec
<1>9. ASSUME AllAnchored PROVE AllAnchored'
  <2>1. val[v].undelegations = Cardinality(Pending(v))
    BY <1>1, <1>9 DEF AllAnchored, Anchored
  <2>2. val[v].undelegations + 1 < UndelegationsModulus
    BY <1>4, <2>1 DEF CounterFits
  <2>3. q = val[v].undelegations + 1
    BY <1>5, <1>6, <2>2, ConfigAssumption DEF Inc
  <2>4. r.undelegations = Cardinality(Pending(v)')
    BY <1>4, <1>8, <2>1, <2>3
  <2> QED
    BY <1>0, <1>3, <1>4, <1>8, <1>9, <2>4, StoredAnchors
<1> QED
  BY <1>4, <1>9

AnchorStep ==
  IdsGrow' /\ (AllAnchored /\ StakeTrue /\ AllPositive /\ "cancel" \notin defects' => AllAnchored')

(* Transactions keep the counters exact.                                   *)
LEMMA TransactionAnchors ==
  ASSUME IInv, IdsGrow, Transaction, CounterFits'
  PROVE  AnchorStep
<1>0. Amounts \subseteq Nat /\ Commissions \subseteq Nat
  BY InputAssumption
<1>q. ASSUME und' = und, lastId' = lastId, AllAnchored /\ StakeTrue /\ AllPositive => AllAnchored'
      PROVE  AnchorStep
  BY <1>q, UndKept DEF AnchorStep
<1>1. ASSUME NEW d \in Delegator, NEW v \in Validator, NEW a \in Amounts, NEW c \in Commissions,
             registerValidator(v, d, a, c)
      PROVE  AnchorStep
  <2>1. registerValidatorWithoutChecks(v, d, a, c) /\ a \in Nat /\ c \in Nat
    BY <1>0, <1>1 DEF registerValidator
  <2>2. und' = und /\ lastId' = lastId
    BY <2>1 DEF registerValidatorWithoutChecks
  <2> QED
    BY <1>q, <2>1, <2>2, RegisterAnchors
<1>2. ASSUME NEW d \in Delegator, NEW v \in Validator, NEW a \in Amounts, Delegate(d, v, a)
      PROVE  AnchorStep
  <2>1. delegate(d, v, a) /\ a \in Nat
    BY <1>0, <1>2 DEF Delegate
  <2>2. und' = und /\ lastId' = lastId
    BY <2>1 DEF delegate
  <2> QED
    BY <1>q, <2>1, <2>2, DelegateAnchors
<1>3. ASSUME NEW d \in Delegator, NEW v \in Validator, NEW a \in Amounts, undelegate(d, v, a)
      PROVE  AnchorStep
  <2>0. a \in Nat
    BY <1>0
  <2>1. AllAnchored => AllAnchored'
    BY <1>3, <2>0, UndelegateAnchors
  <2>2. IdsGrow'
    <3>1. LedgerOK
      BY DEF IInv
    <3>2. /\ lastId' = [lastId EXCEPT ![d] = @ + 1]
          /\ und' = und \cup {[delegator |-> d, validator |-> v, id |-> lastId[d] + 1,
                               amount |-> a, block |-> block + DelegationLockingPeriod]}
      BY <1>3 DEF undelegate
    <3> QED
      BY <3>1, <3>2, UndelegationAdded
  <2> QED
    BY <2>1, <2>2 DEF AnchorStep
<1>4. ASSUME NEW d \in Delegator, NEW v \in Validator, NEW t \in Validator, NEW a \in Amounts,
             redelegate(d, v, t, a)
      PROVE  AnchorStep
  <2>1. und' = und /\ lastId' = lastId
    BY <1>4 DEF redelegate
  <2> QED
    BY <1>0, <1>4, <1>q, <2>1, RedelegateAnchors
<1>5. ASSUME NEW d \in Delegator, NEW from \in SUBSET Validator, ClaimFrom(d, from)
      PROVE  AnchorStep
  <2>1. und' = und /\ lastId' = lastId
    BY <1>5 DEF ClaimFrom
  <2> QED
    BY <1>5, <1>q, <2>1, ClaimAnchors
<1>6. ASSUME NEW d \in Delegator, NEW v \in Validator, claimRewards(d, v) PROVE AnchorStep
  <2>1. ClaimFrom(d, {v}) /\ {v} \in SUBSET Validator
    BY <1>6 DEF claimRewards
  <2> QED
    BY <1>5, <2>1
<1>7. ASSUME NEW d \in Delegator, NEW v \in Validator, NEW c \in Nat,
             claimCommissionRewards(d, v) \/ setCommission(d, v, c)
      PROVE  AnchorStep
  <2>1. und' = und /\ lastId' = lastId
    BY <1>7 DEF claimCommissionRewards, setCommission
  <2> QED
    BY <1>7, <1>q, <2>1, CommissionAnchors
<1>8. ASSUME NEW d \in Delegator, NEW v \in Validator, claimCommissionRewards(d, v) PROVE AnchorStep
  <2>1. 0 \in Nat
    OBVIOUS
  <2> QED
    BY <1>7, <1>8, <2>1
<1>9. ASSUME NEW d \in Delegator, NEW v \in Validator, NEW c \in Commissions, setCommission(d, v, c)
      PROVE  AnchorStep
  BY <1>0, <1>7, <1>9
<1>10. ASSUME NEW u \in und, confirmUndelegate(u) PROVE AnchorStep
  BY <1>10, ConfirmAnchors DEF AnchorStep
<1>11. ASSUME NEW u \in und, cancelUndelegate(u) PROVE AnchorStep
  BY <1>11, CancelAnchors DEF AnchorStep
<1>12. ASSUME NEW d \in Delegator, claimAllRewards(d) PROVE AnchorStep
  <2>1. PICK from \in SUBSET Validator : ClaimFrom(d, from)
    BY <1>12, ClaimsSome
  <2> QED
    BY <1>5, <2>1
<1> QED
  BY <1>1, <1>2, <1>3, <1>4, <1>6, <1>8, <1>9, <1>10, <1>11, <1>12 DEF Transaction

(* So do the other steps.                                                  *)
LEMMA OtherAnchors ==
  ASSUME IInv, IInv', IdsGrow, CounterFits',
         Genesis \/ Distribution \/ Penalties \/ EndBlock \/ UNCHANGED vars
  PROVE  AnchorStep
<1>0. Amounts \subseteq Nat /\ Commissions \subseteq Nat /\ Rewards \subseteq Nat
  BY InputAssumption
<1>q. ASSUME und' = und, lastId' = lastId, AllAnchored => AllAnchored'
      PROVE  AnchorStep
  BY <1>q, UndKept DEF AnchorStep
<1>l. ASSUME UNCHANGED ledger PROVE AnchorStep
  <2>1. und' = und /\ lastId' = lastId /\ val' = val /\ del' = del
    BY <1>l DEF ledger
  <2> QED
    BY <1>q, <2>1, QuietAnchors
<1>1. CASE Genesis
  <2>1. ASSUME NEW v \in Validator, NEW d \in Delegator, NEW c \in Commissions, GenesisValidator(v, d, c)
        PROVE  AnchorStep
    <3>1. registerValidatorWithoutChecks(v, d, 0, c) /\ 0 \in Nat /\ c \in Nat
      BY <1>0, <2>1 DEF GenesisValidator
    <3>2. und' = und /\ lastId' = lastId
      BY <3>1 DEF registerValidatorWithoutChecks
    <3> QED
      BY <1>q, <3>1, <3>2, RegisterAnchors
  <2>2. ASSUME NEW v \in Validator, NEW d \in Delegator, NEW a \in Amounts, GenesisDelegation(d, v, a)
        PROVE  AnchorStep
    <3>1. delegate(d, v, a) /\ a \in Nat
      BY <1>0, <2>2 DEF GenesisDelegation
    <3>2. und' = und /\ lastId' = lastId
      BY <3>1 DEF delegate
    <3> QED
      BY <1>q, <3>1, <3>2, DelegateAnchors
  <2>3. ASSUME EndGenesis PROVE AnchorStep
    BY <1>l, <2>3 DEF EndGenesis
  <2> QED
    BY <1>1, <2>1, <2>2, <2>3 DEF Genesis
<1>2. CASE Distribution
  <2>1. ASSUME NEW listed \in SUBSET Validator, NEW author \in Validator, NEW r \in Rewards,
               DistributeRewards(listed, author, r)
        PROVE  AnchorStep
    <3>0. und' = und /\ lastId' = lastId /\ del' = del /\ r \in Nat /\ 0 \in Nat
      BY <1>0, <2>1 DEF DistributeRewards
    <3>1. CASE r > 0 /\ Exists(author)
      <4>1. AddValidatorRewards(author, r, 0)
        BY <2>1, <3>1 DEF DistributeRewards
      <4> QED
        BY <1>q, <3>0, <3>1, <4>1, RewardAnchors
    <3>2. CASE ~(r > 0 /\ Exists(author))
      <4>1. val' = val
        BY <2>1, <3>2 DEF DistributeRewards
      <4> QED
        BY <1>q, <3>0, <4>1, QuietAnchors
    <3> QED
      BY <3>1, <3>2
  <2>2. ASSUME NEW v \in Validator, NEW active \in BOOLEAN, NEW r \in Rewards, NEW f \in Rewards,
               RewardValidator(v, active, r, f)
        PROVE  AnchorStep
    <3>0. und' = und /\ lastId' = lastId /\ del' = del /\ r \in Nat /\ f \in Nat
      BY <1>0, <2>2 DEF RewardValidator
    <3>1. CASE Exists(v)
      <4>1. AddValidatorRewards(v, r, f)
        BY <2>2, <3>1 DEF RewardValidator
      <4> QED
        BY <1>q, <3>0, <3>1, <4>1, RewardAnchors
    <3>2. CASE ~Exists(v)
      <4>1. val' = val
        BY <2>2, <3>2 DEF RewardValidator
      <4> QED
        BY <1>q, <3>0, <4>1, QuietAnchors
    <3> QED
      BY <3>1, <3>2
  <2>3. ASSUME EndDistribution PROVE AnchorStep
    BY <1>l, <2>3 DEF EndDistribution
  <2> QED
    BY <1>2, <2>1, <2>2, <2>3 DEF Distribution
<1>3. CASE Penalties
  <2>1. ASSUME NEW d \in Delegator, undelegateInternal(d) PROVE AnchorStep
    BY <2>1, EvictionAnchors DEF AnchorStep
  <2>2. CASE ~\E d \in Delegator : undelegateInternal(d)
    <3>1. UNCHANGED ledger
      BY <1>3, <2>2 DEF Penalties, ResumeEviction, forceEvictValidator, EndResume, Scan, EndScan,
           StartEviction, EndEviction, EndPenalties
    <3> QED
      BY <1>l, <3>1
  <2> QED
    BY <2>1, <2>2
<1>4. CASE EndBlock \/ UNCHANGED vars
  BY <1>4, <1>l DEF EndBlock, vars
<1> QED
  BY <1>1, <1>2, <1>3, <1>4

(* The invariant in terms of anchors.                                      *)
LEMMA DanglesIsAnchored ==
  /\ NothingDangles <=> (Spared({"cancel", "zero"}) => AllAnchored)
  /\ NothingDangles' <=> (Spared({"cancel", "zero"})' => AllAnchored')
BY Zenon DEF NothingDangles, AllAnchored, Anchored, Pending

(* A step keeps the counters exact.                                        *)
LEMMA StepAnchors ==
  ASSUME IInv, IInv', StakeAccounted, Positive, IdsGrow, NothingDangles, [Next]_vars, CounterFits'
  PROVE  IdsGrow' /\ NothingDangles'
<1>1. AnchorStep
  BY TransactionAnchors, OtherAnchors DEF Next
<1>2. defects \subseteq defects'
  BY StepStakes DEF IInv
<1>3. ASSUME Spared({"cancel", "zero"})' PROVE AllAnchored'
  <2>1. Spared({"cancel", "zero"})
    BY <1>2, <1>3, SparedBefore
  <2>2. Spared({"zero"}) /\ "cancel" \notin defects'
    BY <1>3, <2>1 DEF Spared
  <2>3. StakeTrue
    BY <2>1 DEF StakeAccounted, StakeTrue, StakeSum, StakeTotal
  <2>4. AllPositive /\ AllAnchored
    BY <2>1, <2>2, DanglesIsAnchored DEF Positive
  <2> QED
    BY <1>1, <2>2, <2>3, <2>4 DEF AnchorStep
<1> QED
  BY <1>1, <1>3, DanglesIsAnchored DEF AnchorStep

(* There is nothing to dangle at the start.                                *)
LEMMA InitAnchors == Init => IdsGrow /\ NothingDangles
<1> SUFFICES ASSUME Init PROVE IdsGrow /\ AllAnchored
  BY DanglesIsAnchored
<1>1. und = {}
  BY DEF Init
<1>2. IdsGrow
  BY <1>1, FS_EmptySet DEF IdsGrow
<1>3. ASSUME NEW v \in Validator PROVE Anchored(v)
  <2>1. ~Exists(v) /\ \A d \in Delegator : ~Delegated(d, v)
    BY DEF Init, Exists, Delegated
  <2>2. Pending(v) = {}
    BY <1>1 DEF Pending
  <2> QED
    BY <2>1, <2>2 DEF Anchored
<1> QED
  BY <1>2, <1>3 DEF AllAnchored

(***************************************************************************)
(* With a minimum deposit, and as long as no validator has as many pending *)
(* undelegations as its uint16 counter has values, the counter is exact    *)
(* and a validator is deleted only when no delegation and no undelegation  *)
(* belongs to it.                                                          *)
(***************************************************************************)
THEOREM DeletedWhenUnused ==
  ASSUME MinimumDeposit > 0
  PROVE  Spec /\ []CounterFits => []NothingDangles
<1>1. IInv /\ StakeAccounted /\ Positive /\ IdsGrow /\ NothingDangles /\ [Next]_vars /\ CounterFits'
        => IInv' /\ StakeAccounted' /\ Positive' /\ IdsGrow' /\ NothingDangles'
  <2> SUFFICES ASSUME IInv, StakeAccounted, Positive, IdsGrow, NothingDangles, [Next]_vars, CounterFits'
               PROVE  IInv' /\ StakeAccounted' /\ Positive' /\ IdsGrow' /\ NothingDangles'
    OBVIOUS
  <2>1. IInv'
    BY StepPreserves
  <2> QED
    BY <2>1, StepAccounts, StepPositive, StepAnchors
<1> QED
  BY <1>1, InitIInv, InitAccounts, InitRefs, InitAnchors, PTL DEF Spec

-----------------------------------------------------------------------------
(* Evictions that end are complete.                                        *)

(* When the page of an eviction is its last, nobody is left out of it.     *)
LastPage ==
  loop.current # Nil /\ loop.end =>
    \A d \in Delegator : Delegated(d, loop.current) => d \in loop.page

Sparing == Spared({"cancel", "zero"})

NoOrphans == Sparing => \A d \in Delegator, v \in Validator : Delegated(d, v) => Exists(v)

(* Where stakes add up and are positive, no validator is missing.          *)
LEMMA SumsLeaveNoOrphans ==
  ASSUME IInv, StakeAccounted, Positive
  PROVE  NoOrphans
<1> SUFFICES ASSUME Spared({"cancel", "zero"}), NEW d \in Delegator, NEW v \in Validator, ~Exists(v)
             PROVE  ~Delegated(d, v)
  BY DEF NoOrphans, Sparing
<1>1. StakeTrue
  BY DEF StakeAccounted, StakeTrue, StakeSum, StakeTotal
<1>2. AllPositive
  BY DEF Positive, Spared
<1> QED
  BY <1>1, <1>2, NoDelegations DEF IInv, ValidatorStake

(* Only EndEviction and the deletion of a validator take a cursor away.    *)
CursorStep ==
  /\ loop'.current = Nil
  /\ \A v \in Validator : evicting[v] /\ ~evicting'[v] => ~Exists(v)'

(* Transactions.                                                           *)
LEMMA TransactionCursors ==
  ASSUME IInv, Transaction
  PROVE  CursorStep
<1>0. \A v \in Validator : evicting[v] \in BOOLEAN
  BY DEF IInv, ActivityOK
<1>1. evicting \in [Validator -> BOOLEAN] /\ val \in [Validator -> BoundedRec \cup {Nil}]
  BY DEF IInv, ActivityOK, LedgerOK
<1>2. ASSUME Call("txs"), loop' = loop, evicting' = evicting PROVE CursorStep
  BY <1>2 DEF CursorStep, IInv, LoopOK, Call
<1>3. ASSUME NEW v \in Validator, Call("txs"), loop' = loop, val'[v] = Nil,
             evicting' = [evicting EXCEPT ![v] = FALSE]
      PROVE  CursorStep
  <2>1. loop'.current = Nil
    BY <1>3 DEF IInv, LoopOK, Call
  <2>2. \A w \in Validator : w # v => evicting'[w] = evicting[w]
    BY <1>1, <1>3
  <2> QED
    BY <1>3, <2>1, <2>2 DEF CursorStep, Exists
<1>4. ASSUME NEW v, NEW d, NEW a, NEW c, registerValidator(v, d, a, c) PROVE CursorStep
  BY <1>2, <1>4 DEF registerValidator, registerValidatorWithoutChecks, activity, control
<1>5. ASSUME NEW d, NEW v, NEW a, Delegate(d, v, a) PROVE CursorStep
  BY <1>2, <1>5 DEF Delegate, delegate, activity, control
<1>6. ASSUME NEW d, NEW v, NEW a, undelegate(d, v, a) PROVE CursorStep
  BY <1>2, <1>6 DEF undelegate, activity, control
<1>7. ASSUME NEW d, NEW v \in Validator, NEW t \in Validator, NEW a, redelegate(d, v, t, a)
      PROVE  CursorStep
  <2>1. Call("txs") /\ loop' = loop /\ v # t
    BY <1>7 DEF redelegate, control
  <2>2. CASE EmptyAfter(v, a) /\ val[v].undelegations = 0
    <3>1. evicting' = [evicting EXCEPT ![v] = FALSE]
      BY <1>7, <2>2 DEF redelegate
    <3>2. val'[v] = ValLeft(v, a)
      BY <1>1, <1>7, <2>1 DEF redelegate
    <3>3. ValLeft(v, a) = Nil
      BY <2>2 DEF ValLeft
    <3> QED
      BY <1>3, <2>1, <3>1, <3>2, <3>3
  <2>3. CASE ~(EmptyAfter(v, a) /\ val[v].undelegations = 0)
    <3>1. evicting' = evicting
      BY <1>7, <2>3 DEF redelegate
    <3> QED
      BY <1>2, <2>1, <3>1
  <2> QED
    BY <2>2, <2>3
<1>8. ASSUME NEW d, NEW v, claimRewards(d, v) PROVE CursorStep
  BY <1>2, <1>8 DEF claimRewards, ClaimFrom, activity, control
<1>9. ASSUME NEW d \in Delegator, claimAllRewards(d) PROVE CursorStep
  BY <1>2, <1>9, ClaimsSome DEF ClaimFrom, activity, control
<1>10. ASSUME NEW d, NEW v \in Validator, claimCommissionRewards(d, v) PROVE CursorStep
  <2>1. Call("txs") /\ loop' = loop
    BY <1>10 DEF claimCommissionRewards, control
  <2>2. \/ evicting' = evicting
        \/ evicting' = [evicting EXCEPT ![v] = FALSE] /\ val' = [val EXCEPT ![v] = Nil]
    BY <1>10 DEF claimCommissionRewards, DeleteValidator, activity
  <2> QED
    BY <1>1, <1>2, <1>3, <2>1, <2>2
<1>11. ASSUME NEW d, NEW v, NEW c, setCommission(d, v, c) PROVE CursorStep
  BY <1>2, <1>11 DEF setCommission, activity, control
<1>12. ASSUME NEW u \in und, confirmUndelegate(u) PROVE CursorStep
  <2>0. u.validator \in Validator
    BY DEF IInv, LedgerOK, UndelegationRec
  <2>1. Call("txs") /\ loop' = loop
    BY <1>12 DEF confirmUndelegate, control
  <2>2. \/ evicting' = evicting
        \/ /\ evicting' = [evicting EXCEPT ![u.validator] = FALSE]
           /\ val' = [val EXCEPT ![u.validator] = Nil]
    BY <1>12 DEF confirmUndelegate, DeleteValidator, activity
  <2> QED
    BY <1>1, <1>2, <1>3, <2>0, <2>1, <2>2
<1>13. ASSUME NEW u \in und, cancelUndelegate(u) PROVE CursorStep
  BY <1>2, <1>13 DEF cancelUndelegate, activity, control
<1> QED
  BY <1>4, <1>5, <1>6, <1>7, <1>8, <1>9, <1>10, <1>11, <1>12, <1>13 DEF Transaction

(* A step keeps the last page whole, and takes no cursor before its time.  *)
LEMMA StepCursors ==
  ASSUME IInv, LastPage, NoOrphans', [Next]_vars
  PROVE  /\ LastPage'
         /\ \A v \in Validator : evicting[v] /\ ~evicting'[v] /\ Sparing'
              => \A d \in Delegator : ~Delegated(d, v)'
<1> DEFINE Goal == /\ LastPage'
                   /\ \A v \in Validator : evicting[v] /\ ~evicting'[v] /\ Sparing'
                        => \A d \in Delegator : ~Delegated(d, v)'
<1>0. evicting \in [Validator -> BOOLEAN]
  BY DEF IInv, ActivityOK
<1>1. CursorStep => Goal
  BY DEF CursorStep, LastPage, NoOrphans
<1>2. ASSUME loop.current = Nil, loop'.current = Nil, evicting' = evicting PROVE Goal
  BY <1>2 DEF LastPage
<1>3. CASE Transaction
  BY <1>1, <1>3, TransactionCursors
<1>4. CASE Genesis \/ EndBlock
  <2>1. phase \notin {"resume", "evict"} /\ loop' = loop /\ evicting' = evicting
    BY <1>4 DEF Genesis, GenesisValidator, GenesisDelegation, EndGenesis, delegate, EndBlock,
                registerValidatorWithoutChecks, Call, activity, control
  <2> QED
    BY <1>2, <2>1 DEF IInv, LoopOK
<1>5. CASE Distribution
  <2>1. phase \notin {"resume", "evict"} /\ evicting' = evicting /\ loop'.current = loop.current
    BY <1>5, LoopIs DEF Distribution, DistributeRewards, RewardValidator, EndDistribution, activity
  <2> QED
    BY <1>2, <2>1 DEF IInv, LoopOK
<1>6. CASE UNCHANGED vars
  BY <1>6 DEF vars, ledger, activity, control, LastPage, Delegated
<1>7. ASSUME NEW v \in Validator, forceEvictValidator(v) PROVE Goal
  <2>1. PICK page \in SUBSET {d \in Delegator : Delegated(d, v)} :
          loop' = [loop EXCEPT !.todo = @ \ {v}, !.current = v, !.page = page,
                               !.end = (page = {d \in Delegator : Delegated(d, v)}),
                               !.budget = @ - Cardinality(page)]
    BY <1>7 DEF forceEvictValidator
  <2>2. loop'.current = v /\ loop'.page = page /\ loop'.end = (page = {d \in Delegator : Delegated(d, v)})
    BY <2>1, LoopIs
  <2>3. del' = del
    BY <1>7 DEF forceEvictValidator, ledger
  <2>4. evicting' = evicting \/ evicting' = [evicting EXCEPT ![v] = TRUE]
    BY <1>7 DEF forceEvictValidator, StopVoting
  <2>5. LastPage'
    BY <2>2, <2>3 DEF LastPage, Delegated
  <2> QED
    BY <1>0, <2>4, <2>5
<1>8. CASE Penalties
  <2>1. ASSUME NEW v \in Validator, ResumeEviction(v) PROVE Goal
    BY <1>7, <2>1 DEF ResumeEviction
  <2>2. ASSUME NEW v \in Validator, StartEviction(v) PROVE Goal
    <3>1. CASE forceEvictValidator(v)
      BY <1>7, <3>1
    <3>2. CASE ~forceEvictValidator(v)
      <4>1. /\ loop.current = Nil /\ loop' = [loop EXCEPT !.todo = @ \ {v}]
            /\ evicting' = [evicting EXCEPT ![v] = TRUE]
        BY <2>2, <3>2 DEF StartEviction, StopVoting
      <4>2. loop'.current = Nil
        BY <4>1, LoopIs
      <4> QED
        BY <1>0, <4>1, <4>2 DEF LastPage
    <3> QED
      BY <3>1, <3>2
  <2>3. ASSUME NEW d \in Delegator, undelegateInternal(d) PROVE Goal
    <3>1. /\ evicting' = evicting /\ loop' = [loop EXCEPT !.page = @ \ {d}]
          /\ del' = [del EXCEPT ![d][loop.current] = Nil]
          /\ loop.current # Nil
      BY <2>3 DEF undelegateInternal, activity
    <3>2. /\ loop'.current = loop.current /\ loop'.end = loop.end /\ loop'.page = loop.page \ {d}
          /\ loop.current \in Validator
      BY <3>1, LoopIs
    <3>3. \A e \in Delegator : Delegated(e, loop.current)' => e # d /\ Delegated(e, loop.current)
      BY <3>1, <3>2 DEF IInv, LedgerOK, Delegated
    <3>4. LastPage'
      BY <3>2, <3>3 DEF LastPage, Delegated
    <3> QED
      BY <3>1, <3>4
  <2>4. ASSUME EndEviction PROVE Goal
    <3>1. /\ evicting' = [evicting EXCEPT ![loop.current] = ~loop.end]
          /\ loop' = [loop EXCEPT !.current = Nil, !.end = FALSE]
          /\ loop.current # Nil /\ loop.page = {} /\ del' = del
      BY <2>4 DEF EndEviction, ledger
    <3>2. loop'.current = Nil /\ loop.current \in Validator
      BY <3>1, LoopIs
    <3>3. \A v \in Validator : evicting[v] /\ ~evicting'[v] => v = loop.current /\ loop.end
      BY <1>0, <3>1, <3>2
    <3>4. \A v \in Validator, d \in Delegator : evicting[v] /\ ~evicting'[v] => ~Delegated(d, v)'
      BY <3>1, <3>3 DEF LastPage, Delegated
    <3> QED
      BY <3>2, <3>4 DEF LastPage
  <2>5. ASSUME NEW v \in Validator, Scan(v) PROVE Goal
    <3>1. loop.current = Nil
      BY <2>5 DEF Scan, IInv, LoopOK
    <3>2. loop'.current = loop.current /\ evicting' = evicting
      BY <2>5, LoopIs DEF Scan, Penalise
    <3> QED
      BY <1>2, <3>1, <3>2
  <2>6. ASSUME EndResume \/ EndScan \/ EndPenalties PROVE Goal
    <3>1. evicting' = evicting /\ loop.current = Nil
      BY <2>6 DEF EndResume, EndScan, EndPenalties, activity, IInv, LoopOK
    <3>2. loop'.current = Nil
      <4>1. CASE EndResume
        BY <3>1, <4>1, LoopIs DEF EndResume
      <4>2. CASE EndScan
        BY <3>1, <4>2, LoopIs DEF EndScan
      <4>3. CASE EndPenalties
        BY <4>3 DEF EndPenalties, NoLoop
      <4> QED
        BY <2>6, <4>1, <4>2, <4>3
    <3> QED
      BY <1>2, <3>1, <3>2
  <2> QED
    BY <1>8, <2>1, <2>2, <2>3, <2>4, <2>5, <2>6 DEF Penalties
<1> QED
  BY <1>3, <1>4, <1>5, <1>6, <1>8 DEF Next

(***************************************************************************)
(* forceEvictValidator and DeleteValidator: with a minimum deposit, and    *)
(* any numbers of validators and delegators, eviction budget and calls     *)
(* between the parts of an eviction, its cursor is taken away only when    *)
(* no delegation to the validator is left.                                 *)
(***************************************************************************)
THEOREM EvictionsComplete ==
  ASSUME MinimumDeposit > 0
  PROVE  Spec => EvictionComplete
<1> DEFINE Inv == IInv /\ StakeAccounted /\ Positive
<1>1. Init => Inv /\ LastPage
  BY InitIInv, InitAccounts, InitRefs DEF Init, NoLoop, LastPage
<1>2. Inv /\ [Next]_vars => Inv'
  BY StepPreserves, StepAccounts, StepPositive
<1>3. Inv => NoOrphans
  BY SumsLeaveNoOrphans
<1>4. Inv /\ NoOrphans' /\ LastPage /\ [Next]_vars =>
        /\ LastPage'
        /\ [\A v \in Validator :
              evicting[v] /\ ~evicting'[v] /\ defects' \cap {"cancel", "zero"} = {}
                => \A d \in Delegator : ~Delegated(d, v)']_vars
  BY StepCursors DEF Sparing, Spared
<1> QED
  BY <1>1, <1>2, <1>3, <1>4, PTL DEF Spec, EvictionComplete

=============================================================================
