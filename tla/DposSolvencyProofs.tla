------------------------- MODULE DposSolvencyProofs -------------------------
(***************************************************************************)
(* The solvency of the DPoS contract, for every configuration and any      *)
(* number of validators and delegators: its balance covers the stakes, the *)
(* undelegations and the rewards, and nobody's calls take a reward away    *)
(* from another.                                                           *)
(***************************************************************************)
EXTENDS DposProofs

(* The records that calls create and remove are read through everywhere.   *)
USE DEF CreateUndelegation, RemoveUndelegation, CreateValidator

-----------------------------------------------------------------------------
(* Solvency: rewards as fractions.                                         *)

(* The quotient, rounded down, times the divisor.                          *)
LEMMA DivBelow ==
  ASSUME NEW a \in Int, NEW b \in Nat \ {0}
  PROVE  a \div b \in Int /\ b * (a \div b) <= a
OBVIOUS

(* The quotient grows with the dividend.                                   *)
LEMMA DivGrows ==
  ASSUME NEW a \in Int, NEW c \in Int, a <= c, NEW b \in Nat \ {0}
  PROVE  a \div b <= c \div b
<1>1. PICK x, y : x = a \div b /\ y = c \div b
  OBVIOUS
<1>2. x \in Int /\ y \in Int /\ b * x <= a /\ c < b * y + b
  BY <1>1
<1>3. b * x < b * (y + 1)
  <2>1. b * (y + 1) = b * y + b
    BY <1>2
  <2>2. b * x \in Int /\ b * y \in Int
    BY <1>2
  <2> QED
    BY <1>2, <2>1, <2>2
<1>4. \A p, q \in Int : b * p < b * q => p < q
  OBVIOUS
<1>5. x < y + 1
  BY <1>2, <1>3, <1>4
<1> QED
  BY <1>1, <1>2, <1>5

(* The quotient falls as the divisor grows.                                *)
LEMMA DivFalls ==
  ASSUME NEW a \in Nat, NEW b \in Nat \ {0}, NEW c \in Nat \ {0}, b <= c
  PROVE  a \div c <= a \div b
<1>1. PICK x, y : x = a \div c /\ y = a \div b
  OBVIOUS
<1>2. x \in Nat /\ y \in Nat /\ c * x <= a /\ a < b * y + b
  BY <1>1
<1>3. b * x <= c * x
  <2>1. \A n \in Nat : b * n <= c * n
    OBVIOUS
  <2> QED
    BY <1>2, <2>1
<1>4. b * x < b * (y + 1)
  <2>1. b * (y + 1) = b * y + b
    BY <1>2
  <2>2. b * x \in Int /\ b * y \in Int /\ c * x \in Int
    BY <1>2
  <2> QED
    BY <1>2, <1>3, <2>1, <2>2
<1>5. \A p, q \in Int : b * p < b * q => p < q
  OBVIOUS
<1>6. x < y + 1
  BY <1>2, <1>4, <1>5
<1> QED
  BY <1>1, <1>2, <1>6

(* Calls run in these phases, between two distributions of rewards.        *)
Calling == phase \in {"genesis", "txs"}

Rps(v, b) == st[v][b].rps

(* What the pool of v adds to a unit of stake when it is settled.          *)
Share(v) == IF val[v].stake > 0 THEN calculateRewardPer1Stake(val[v].pool, val[v].stake) ELSE 0

(***************************************************************************)
(* No state is of a later block, and while calls run a validator that has  *)
(* a state of this block points to it and has nothing in its pool.         *)
(***************************************************************************)
FreshAt(v) ==
  /\ \A b \in Blocks : Has(v, b) => b <= block
  /\ Calling /\ Exists(v) /\ Has(v, block) => val[v].last = block /\ val[v].pool = 0

(* The reward per unit of stake only grows.                                *)
OrderedAt(v) ==
  \A d \in Delegator : Exists(v) /\ Delegated(d, v) => Rps(v, del[d][v].last) <= Rps(v, val[v].last)

(***************************************************************************)
(* What the delegators of v have earned at the state v points to, and what *)
(* v holds in all, both times the maximum stake: in these units nothing is *)
(* rounded.                                                                *)
(***************************************************************************)
Accrued(d, v) ==
  IF Exists(v) /\ Delegated(d, v)
  THEN (Rps(v, val[v].last) - Rps(v, del[d][v].last)) * del[d][v].stake ELSE 0

AccruedTo(v) == SumFunctionOnSet([d \in Delegator |-> Accrued(d, v)], Delegator)

Kept(r) == r.stake + r.commissionPool + r.pool

Held(v) == IF Exists(v) THEN ValidatorMaximumStake * Kept(val[v]) + AccruedTo(v) ELSE 0

(* The fields of a stored validator and of a delegation.                   *)
LEMMA RecordFields ==
  ASSUME LedgerOK, NEW v \in Validator
  PROVE  /\ Exists(v) => /\ val[v].last \in Blocks /\ val[v].stake \in Int /\ val[v].pool \in Nat
                         /\ val[v].commissionPool \in Nat
         /\ \A d \in Delegator : Delegated(d, v) => del[d][v].last \in Blocks /\ del[d][v].stake \in Nat
         /\ \A b \in Blocks : Rps(v, b) \in Nat /\ st[v][b].count \in Nat
<1>1. Exists(v) => /\ val[v].last \in Blocks /\ val[v].stake \in Int /\ val[v].pool \in Nat
                   /\ val[v].commissionPool \in Nat
  BY DEF LedgerOK, Exists, BoundedRec, ValidatorRec
<1>2. \A d \in Delegator : Delegated(d, v) => del[d][v].last \in Blocks /\ del[d][v].stake \in Nat
  BY DEF LedgerOK, Delegated, DelegationRec
<1>3. \A b \in Blocks : Rps(v, b) \in Nat /\ st[v][b].count \in Nat
  BY DEF LedgerOK, Rps, States, StateRec
<1> QED
  BY <1>1, <1>2, <1>3

(* The same after a step.                                                  *)
LEMMA RecordFieldsNext ==
  ASSUME LedgerOK', NEW v \in Validator
  PROVE  /\ Exists(v)' => /\ val'[v].last \in Blocks /\ val'[v].stake \in Int /\ val'[v].pool \in Nat
                          /\ val'[v].commissionPool \in Nat
         /\ \A d \in Delegator :
              Delegated(d, v)' => del'[d][v].last \in Blocks /\ del'[d][v].stake \in Nat
         /\ \A b \in Blocks : Rps(v, b)' \in Nat /\ st'[v][b].count \in Nat
<1>1. Exists(v)' => /\ val'[v].last \in Blocks /\ val'[v].stake \in Int /\ val'[v].pool \in Nat
                    /\ val'[v].commissionPool \in Nat
  BY DEF LedgerOK, Exists, BoundedRec, ValidatorRec
<1>2. \A d \in Delegator :
        Delegated(d, v)' => del'[d][v].last \in Blocks /\ del'[d][v].stake \in Nat
  BY DEF LedgerOK, Delegated, DelegationRec
<1>3. \A b \in Blocks : Rps(v, b)' \in Nat /\ st'[v][b].count \in Nat
  BY DEF LedgerOK, Rps, States, StateRec
<1> QED
  BY <1>1, <1>2, <1>3

(* A validator and its delegators find the states they refer to.           *)
LEMMA Referred ==
  ASSUME LedgerOK, NEW v \in Validator, RefsHeld(v)
  PROVE  /\ Exists(v) => Has(v, val[v].last)
         /\ \A d \in Delegator : Delegated(d, v) => Has(v, del[d][v].last)
<1>1. ASSUME Exists(v) PROVE Has(v, val[v].last)
  <2>1. PICK b \in Blocks : b = val[v].last
    BY <1>1, RecordFields
  <2>2. Points(val[v], b) = 1
    BY <1>1, <2>1 DEF Points, Exists
  <2>3. Refs(v, b) <= st[v][b].count /\ st[v][b].count \in Nat
    BY RecordFields DEF RefsHeld
  <2>4. Refs(v, b) = Cardinality(Holders(v, b)) + 1 /\ Cardinality(Holders(v, b)) \in Nat
    BY <2>2, RefsParts
  <2> QED
    BY <2>1, <2>3, <2>4 DEF Has
<1>2. ASSUME NEW d \in Delegator, Delegated(d, v) PROVE Has(v, del[d][v].last)
  <2>1. PICK b \in Blocks : b = del[d][v].last
    BY <1>2, RecordFields
  <2>2. d \in Holders(v, b)
    BY <1>2, <2>1 DEF Holders
  <2>3. Cardinality(Holders(v, b)) # 0 /\ Cardinality(Holders(v, b)) \in Nat
    BY <2>2, RefsParts, FS_EmptySet
  <2>4. Points(val[v], b) \in Nat
    BY DEF Points
  <2>5. Refs(v, b) <= st[v][b].count /\ st[v][b].count \in Nat
    BY RecordFields DEF RefsHeld
  <2>6. Refs(v, b) = Cardinality(Holders(v, b)) + Points(val[v], b)
    BY RefsParts
  <2> QED
    BY <2>1, <2>3, <2>4, <2>5, <2>6 DEF Has
<1> QED
  BY <1>1, <1>2

(* The same after a step.                                                  *)
LEMMA ReferredNext ==
  ASSUME LedgerOK', NEW v \in Validator, RefsHeld(v)'
  PROVE  /\ Exists(v)' => Has(v, val[v].last)'
         /\ \A d \in Delegator : Delegated(d, v)' => Has(v, del[d][v].last)'
<1>1. ASSUME Exists(v)' PROVE Has(v, val[v].last)'
  <2>1. PICK b \in Blocks : b = val'[v].last
    BY <1>1, RecordFieldsNext
  <2>2. Points(val'[v], b) = 1
    BY <1>1, <2>1 DEF Points, Exists
  <2>3. Refs(v, b)' <= st'[v][b].count /\ st'[v][b].count \in Nat
    BY RecordFieldsNext DEF RefsHeld
  <2>4. Refs(v, b)' = Cardinality(Holders(v, b)') + 1 /\ Cardinality(Holders(v, b)') \in Nat
    BY <2>2, RefsParts
  <2> QED
    BY <2>1, <2>3, <2>4 DEF Has
<1>2. ASSUME NEW d \in Delegator, Delegated(d, v)' PROVE Has(v, del[d][v].last)'
  <2>1. PICK b \in Blocks : b = del'[d][v].last
    BY <1>2, RecordFieldsNext
  <2>2. d \in Holders(v, b)'
    BY <1>2, <2>1 DEF Holders
  <2>3. Cardinality(Holders(v, b)') # 0 /\ Cardinality(Holders(v, b)') \in Nat
    BY <2>2, RefsParts, FS_EmptySet
  <2>4. Points(val'[v], b) \in Nat
    BY DEF Points
  <2>5. Refs(v, b)' <= st'[v][b].count /\ st'[v][b].count \in Nat
    BY RecordFieldsNext DEF RefsHeld
  <2>6. Refs(v, b)' = Cardinality(Holders(v, b)') + Points(val'[v], b)
    BY RefsParts
  <2> QED
    BY <2>1, <2>3, <2>4, <2>5, <2>6 DEF Has
<1> QED
  BY <1>1, <1>2

(* The stake of a validator, when it is the sum of the delegations.        *)
LEMMA StakeNat ==
  ASSUME LedgerOK, StakeTrue, NEW v \in Validator, Exists(v)
  PROVE  val[v].stake \in Nat /\ StakeSum(v) = val[v].stake
<1>1. PICK f : f = [d \in Delegator |-> StakeOf(d, v)]
  OBVIOUS
<1>2. \A d \in Delegator : f[d] \in Nat
  BY <1>1, StakeTypes
<1>3. SumFunctionOnSet(f, Delegator) \in Nat
  BY <1>2, SumNat, InputAssumption
<1>4. ValidatorStake(v) = SumFunctionOnSet(f, Delegator) /\ ValidatorStake(v) = val[v].stake
  BY <1>1 DEF StakeTrue, StakeSum, ValidatorStake
<1> QED
  BY <1>1, <1>3, <1>4 DEF StakeSum

(* The share of the pool is paid from the pool.                            *)
LEMMA ShareCovered ==
  ASSUME LedgerOK, NEW v \in Validator, Exists(v), val[v].stake \in Nat
  PROVE  Share(v) \in Nat /\ Share(v) * val[v].stake <= ValidatorMaximumStake * val[v].pool
<1>1. PICK p, m, s, w : p = val[v].pool /\ m = ValidatorMaximumStake /\ s = val[v].stake /\ w = p * m
  OBVIOUS
<1>2. p \in Nat /\ m \in Nat /\ s \in Nat /\ w \in Nat
  BY <1>1, RecordFields, ConfigAssumption, TimesIsNat
<1>3. Share(v) = IF s > 0 THEN w \div s ELSE 0
  BY <1>1 DEF Share, calculateRewardPer1Stake
<1>4. CASE s > 0
  <2>1. PICK q : q = w \div s
    OBVIOUS
  <2>2. q \in Nat /\ s * q <= w
    BY <1>2, <1>4, <2>1, DivBelow, DivIsNat
  <2>3. q * s = s * q /\ m * p = p * m
    BY <1>2, <2>2
  <2> QED
    BY <1>1, <1>3, <1>4, <2>1, <2>2, <2>3
<1>5. CASE ~(s > 0)
  <2>1. 0 * s = 0 /\ m * p \in Nat
    BY <1>2
  <2> QED
    BY <1>1, <1>3, <1>5, <2>1
<1> QED
  BY <1>4, <1>5

(* Settling adds the share of the pool, which the pool can pay.            *)
LEMMA SettledIs ==
  ASSUME LedgerOK, block \in Blocks, NEW v \in Validator, Exists(v), Calling, FreshAt(v),
         val[v].stake \in Nat
  PROVE  /\ Settled(v).rps = Rps(v, val[v].last) + Share(v)
         /\ Share(v) \in Nat
         /\ Share(v) * val[v].stake <= ValidatorMaximumStake * val[v].pool
<1>1. Share(v) \in Nat /\ Share(v) * val[v].stake <= ValidatorMaximumStake * val[v].pool
  BY ShareCovered
<1>2. Settled(v).rps = Rps(v, val[v].last) + Share(v)
  <2>1. CASE ~Has(v, block)
    BY <2>1 DEF Settled, Share, Rps
  <2>2. CASE Has(v, block)
    <3>1. val[v].last = block /\ val[v].pool = 0
      BY <2>2 DEF FreshAt
    <3>2. Share(v) = 0
      <4>1. 0 * ValidatorMaximumStake = 0 /\ \A s \in Nat : s > 0 => 0 \div s = 0
        BY ConfigAssumption
      <4> QED
        BY <3>1, <4>1 DEF Share, calculateRewardPer1Stake
    <3>3. Settled(v).rps = Rps(v, val[v].last) /\ Rps(v, val[v].last) \in Nat
      BY <2>2, <3>1, RecordFields DEF Settled, Rps
    <3> QED
      BY <3>2, <3>3
  <2> QED
    BY <2>1, <2>2
<1> QED
  BY <1>1, <1>2

(* A state that loses a reference and stays keeps its reward.              *)
LEMMA DecrementKeeps ==
  ASSUME NEW states \in States, NEW b \in Blocks, NEW c \in Blocks, Decrement(states, b)[c].count > 0
  PROVE  states[c].count > 0 /\ Decrement(states, b)[c].rps = states[c].rps
<1>1. states[c].count \in Nat /\ states[b].count \in Nat
  BY DEF States, StateRec
<1>2. CASE c # b
  BY <1>2 DEF Decrement, States
<1>3. CASE c = b
  <2>1. Decrement(states, b)[b] = IF states[b].count = 1 THEN NoState
                                  ELSE [rps |-> states[b].rps, count |-> states[b].count - 1]
    BY DEF Decrement, States
  <2>2. states[b].count # 1
    BY <1>3, <2>1 DEF NoState
  <2> QED
    BY <1>1, <1>3, <2>1, <2>2
<1> QED
  BY <1>2, <1>3

(* What the states of v are after it is settled and d has claimed.         *)
LEMMA SettledKeeps ==
  ASSUME LedgerOK, block \in Blocks, NEW v \in Validator, Exists(v) \/ Has(v, block), CanSettle(v),
         NEW b \in Blocks
  PROVE  /\ StatesSettled(v)[b].count > 0 => Has(v, b) /\ StatesSettled(v)[b].rps = Rps(v, b)
         /\ \A d \in Delegator :
              Delegated(d, v) /\ CanClaim(d, v) /\ StatesClaimed(d, v)[b].count > 0
                => Has(v, b) /\ StatesClaimed(d, v)[b].rps = Rps(v, b)
<1>0. st[v] \in States
  BY DEF LedgerOK
<1>1. ASSUME StatesSettled(v)[b].count > 0
      PROVE  Has(v, b) /\ StatesSettled(v)[b].rps = Rps(v, b)
  <2>1. CASE Has(v, block)
    BY <1>1, <2>1 DEF StatesSettled, Has, Rps
  <2>2. CASE ~Has(v, block)
    <3>1. val[v].last \in Blocks
      BY <2>2, RecordFields
    <3>2. StatesSettled(v) = Decrement(st[v], val[v].last)
      BY <2>2 DEF StatesSettled
    <3> QED
      BY <1>0, <1>1, <3>1, <3>2, DecrementKeeps DEF Has, Rps
  <2> QED
    BY <2>1, <2>2
<1>2. ASSUME NEW d \in Delegator, Delegated(d, v), CanClaim(d, v), StatesClaimed(d, v)[b].count > 0
      PROVE  Has(v, b) /\ StatesClaimed(d, v)[b].rps = Rps(v, b)
  <2>1. StatesSettled(v) \in States /\ del[d][v].last \in Blocks
    BY <1>2, SettleTypes, RecordFields
  <2>2. StatesSettled(v)[b].count > 0 /\ StatesClaimed(d, v)[b].rps = StatesSettled(v)[b].rps
    BY <1>2, <2>1, DecrementKeeps DEF StatesClaimed
  <2> QED
    BY <1>1, <2>2
<1> QED
  BY <1>1, <1>2

(* A reward is what was earned since the claim before, rounded down.       *)
LEMMA RewardIs ==
  ASSUME LedgerOK, block \in Blocks, NEW v \in Validator, NEW d \in Delegator, Exists(v),
         Delegated(d, v), CanClaim(d, v)
  PROVE  RewardOf(d, v) = ((Settled(v).rps - Rps(v, del[d][v].last)) * del[d][v].stake)
                            \div ValidatorMaximumStake
<1>1. PICK b \in Blocks : b = del[d][v].last
  BY RecordFields
<1>2. CanSettle(v) /\ StatesSettled(v)[b].count > 0
  BY <1>1 DEF CanClaim
<1>3. StatesSettled(v)[b].rps = Rps(v, b)
  BY <1>2, SettledKeeps
<1> QED
  BY <1>1, <1>3 DEF RewardOf, Reward, calculateDelegatorReward

(* The settled reward per unit of stake is a number.                       *)
LEMMA SettledNat ==
  ASSUME LedgerOK, block \in Blocks, NEW v \in Validator, Exists(v), CanSettle(v)
  PROVE  Settled(v).rps \in Nat
BY SettleTypes DEF StateRec

(* A reward is paid from what has accrued and from the share of the pool.  *)
LEMMA RewardPaid ==
  ASSUME LedgerOK, block \in Blocks, NEW v \in Validator, NEW d \in Delegator, Exists(v), Calling,
         FreshAt(v), val[v].stake \in Nat, CanSettle(v), Delegated(d, v) => CanClaim(d, v)
  PROVE  /\ RewardOf(d, v) \in Int
         /\ Accrued(d, v) \in Int
         /\ ValidatorMaximumStake * RewardOf(d, v) <= Accrued(d, v) + Share(v) * StakeOf(d, v)
<1>0. ValidatorMaximumStake \in Nat \ {0} /\ Share(v) \in Nat
  BY ConfigAssumption, SettledIs
<1>1. CASE ~Delegated(d, v)
  <2>1. RewardOf(d, v) = 0 /\ Accrued(d, v) = 0 /\ StakeOf(d, v) = 0
    BY <1>1 DEF RewardOf, Accrued, StakeOf
  <2>2. ValidatorMaximumStake * 0 <= 0 + Share(v) * 0
    BY <1>0
  <2>3. 0 \in Int
    OBVIOUS
  <2> QED
    BY <2>1, <2>2, <2>3
<1>2. CASE Delegated(d, v)
  <2>1. PICK l, r, q, s : /\ l = Rps(v, val[v].last) /\ r = Rps(v, del[d][v].last) /\ q = Share(v)
                          /\ s = del[d][v].stake
    OBVIOUS
  <2>2. l \in Nat /\ r \in Nat /\ q \in Nat /\ s \in Nat
    BY <1>0, <1>2, <2>1, RecordFields
  <2>3. Settled(v).rps = l + q
    BY <2>1, SettledIs
  <2>4. RewardOf(d, v) = ((l + q - r) * s) \div ValidatorMaximumStake
    <3>1. RewardOf(d, v) = ((Settled(v).rps - Rps(v, del[d][v].last)) * del[d][v].stake)
                              \div ValidatorMaximumStake
      BY <1>2, RewardIs
    <3> QED
      BY <1>0, <2>1, <2>2, <2>3, <3>1
  <2>5. (l + q - r) * s \in Int /\ (l + q - r) * s = (l - r) * s + q * s /\ (l - r) * s \in Int
    BY <2>2
  <2>6. Accrued(d, v) = (l - r) * s /\ StakeOf(d, v) = s
    BY <1>2, <2>1 DEF Accrued, StakeOf
  <2>7. PICK y : y = (l + q - r) * s
    OBVIOUS
  <2>8. RewardOf(d, v) \in Int /\ ValidatorMaximumStake * RewardOf(d, v) <= y
    BY <1>0, <2>4, <2>5, <2>7, DivBelow
  <2> QED
    BY <2>1, <2>5, <2>6, <2>7, <2>8
<1> QED
  BY <1>1, <1>2

-----------------------------------------------------------------------------
(* What a step does to a validator, and the tokens it gives it.            *)

(* The ledger adds up, as the theorems above say of undamaged behaviours.  *)
Sound == LedgerOK /\ block \in Blocks /\ StakeTrue /\ AllPositive /\ AllHeld

(* A state that is there before and after a step has the same reward.      *)
RpsKept(v) == \A b \in Blocks : Has(v, b) /\ Has(v, b)' => Rps(v, b)' = Rps(v, b)

OnlyNew(v) == \A b \in Blocks : Has(v, b)' => Has(v, b) \/ b = block

Untouched(v) == val'[v] = val[v] /\ st'[v] = st[v] /\ \A d \in Delegator : del'[d][v] = del[d][v]

(* v is settled and d paid, whose delegation is stored or removed.         *)
SettledFor(d, v, x) ==
  /\ Exists(v) /\ Exists(v)' /\ Calling /\ CanSettle(v)
  /\ Delegated(d, v) => CanClaim(d, v)
  /\ val'[v].last = block /\ val'[v].pool = 0 /\ val'[v].commissionPool = val[v].commissionPool
  /\ st'[v][block].rps = Settled(v).rps /\ RpsKept(v) /\ OnlyNew(v)
  /\ \A e \in Delegator : e # d => del'[e][v] = del[e][v]
  /\ del'[d][v] # Nil => del'[d][v].last = block
  /\ x = val'[v].stake - val[v].stake - RewardOf(d, v)

(* v is stored with other amounts; delegations may be removed.             *)
Adjusted(v, x) ==
  /\ Exists(v) /\ Exists(v)' /\ st'[v] = st[v]
  /\ val'[v].last = val[v].last /\ val'[v].pool >= val[v].pool /\ val'[v].stake <= val[v].stake
  /\ Calling' => val'[v].pool = val[v].pool
  /\ \A d \in Delegator : del'[d][v] = del[d][v] \/ del'[d][v] = Nil
  /\ x = Kept(val'[v]) - Kept(val[v])

(* v is deleted, and its stake and commission are not more than it held.   *)
Removed(v, x) ==
  /\ ~Exists(v)' /\ OnlyNew(v) /\ \A d \in Delegator : ~Delegated(d, v)'
  /\ ValidatorMaximumStake * x + Held(v) >= 0

(* v is registered, with the delegation of its owner.                      *)
Created(v, x) ==
  /\ ~Exists(v) /\ Exists(v)' /\ OnlyNew(v)
  /\ val'[v].last = block /\ val'[v].pool = 0 /\ Kept(val'[v]) = x
  /\ \A d \in Delegator : Delegated(d, v)' => del'[d][v].last = block

Fate(v, x) ==
  /\ x \in Int
  /\ \/ Untouched(v) /\ x = 0
     \/ \E d \in Delegator : SettledFor(d, v, x)
     \/ Adjusted(v, x)
     \/ Removed(v, x)
     \/ Created(v, x)

(* States stay fresh within a block.                                       *)
LEMMA FateFresh ==
  ASSUME NEW v \in Validator, NEW x, Fate(v, x), FreshAt(v), block' = block, block \in Blocks,
         Calling' => Calling
  PROVE  FreshAt(v)'
<1>0. block \in Int
  BY InputAssumption DEF Blocks
<1>1. ASSUME st'[v] = st[v] \/ OnlyNew(v) PROVE \A b \in Blocks : Has(v, b)' => b <= block
  <2>1. \A b \in Blocks : Has(v, b)' => Has(v, b) \/ b = block
    BY <1>1 DEF OnlyNew, Has
  <2>2. \A b \in Blocks : Has(v, b) => b <= block
    BY DEF FreshAt
  <2>3. block <= block
    BY <1>0
  <2> QED
    BY <2>1, <2>2, <2>3, Zenon
<1>2. \A b \in Blocks : Has(v, b)' => b <= block
  BY <1>1 DEF Fate, Untouched, SettledFor, Adjusted, Removed, Created
<1>3. ASSUME Calling', Exists(v)', Has(v, block)' PROVE val'[v].last = block /\ val'[v].pool = 0
  <2>1. CASE Untouched(v) \/ Adjusted(v, x)
    <3>1. Has(v, block) /\ Exists(v) /\ val'[v].last = val[v].last /\ val'[v].pool = val[v].pool
      BY <1>3, <2>1 DEF Untouched, Adjusted, Has, Exists
    <3> QED
      BY <1>3, <3>1 DEF FreshAt
  <2>2. CASE ~(Untouched(v) \/ Adjusted(v, x))
    BY <1>3, <2>2 DEF Fate, SettledFor, Removed, Created
  <2> QED
    BY <2>1, <2>2
<1> QED
  BY <1>2, <1>3 DEF FreshAt, Exists, Has, Calling

(* A new block begins.                                                     *)
LEMMA BlockFresh ==
  ASSUME NEW v \in Validator, Untouched(v), FreshAt(v), block' = block + 1, block \in Blocks,
         block' \in Blocks
  PROVE  FreshAt(v)'
<1>0. block \in Int
  BY InputAssumption DEF Blocks
<1>1. \A b \in Blocks : b \in Int
  BY InputAssumption DEF Blocks
<1>2. \A b \in Blocks : Has(v, b)' => b <= block
  BY DEF Untouched, Has, FreshAt
<1>3. ~Has(v, block)'
  BY <1>0, <1>2 DEF Has
<1>4. \A b \in Blocks : Has(v, b)' => b <= block'
  BY <1>0, <1>1, <1>2
<1> QED
  BY <1>3, <1>4 DEF FreshAt

(* What a delegator that stays refers to keeps its reward.                 *)
LEMMA BasisKept ==
  ASSUME Sound, Sound', NEW v \in Validator, NEW d \in Delegator, RpsKept(v) \/ st'[v] = st[v],
         Delegated(d, v), del'[d][v] = del[d][v]
  PROVE  del[d][v].last \in Blocks /\ Rps(v, del[d][v].last)' = Rps(v, del[d][v].last)
<1>1. PICK b \in Blocks : b = del[d][v].last
  BY RecordFields DEF Sound
<1>2. Has(v, b) /\ Has(v, b)'
  <2>1. Has(v, del[d][v].last)
    BY Referred DEF Sound, AllHeld
  <2>2. Has(v, del[d][v].last)'
    BY ReferredNext DEF Sound, AllHeld, Delegated
  <2>3. b = del'[d][v].last
    BY <1>1
  <2> QED
    BY <1>1, <2>1, <2>2, <2>3 DEF Has
<1>3. st'[v][b].rps = st[v][b].rps
  BY <1>2 DEF RpsKept, Rps
<1> QED
  BY <1>1, <1>3 DEF Rps

(* The step that settles v: the validator and the delegators that stay.    *)
LEMMA SettledRps ==
  ASSUME Sound, Sound', NEW v \in Validator, NEW d \in Delegator, NEW x, SettledFor(d, v, x), FreshAt(v)
  PROVE  /\ Rps(v, val[v].last)' = Rps(v, val[v].last) + Share(v)
         /\ Rps(v, val[v].last) \in Nat /\ Share(v) \in Nat
         /\ Share(v) * val[v].stake <= ValidatorMaximumStake * val[v].pool
         /\ val[v].stake \in Nat
         /\ \A e \in Delegator : e # d /\ Delegated(e, v)' =>
              /\ Delegated(e, v) /\ del'[e][v] = del[e][v]
              /\ Rps(v, del[e][v].last)' = Rps(v, del[e][v].last)
         /\ Delegated(d, v)' => Rps(v, del[d][v].last)' = Rps(v, val[v].last)'
<1>0. LedgerOK /\ block \in Blocks /\ Exists(v) /\ Calling /\ StakeTrue
  BY DEF Sound, SettledFor
<1>1. val[v].stake \in Nat /\ Rps(v, val[v].last) \in Nat
  BY <1>0, StakeNat, RecordFields
<1>2. /\ Settled(v).rps = Rps(v, val[v].last) + Share(v)
      /\ Share(v) \in Nat /\ Share(v) * val[v].stake <= ValidatorMaximumStake * val[v].pool
  BY <1>0, <1>1, SettledIs
<1>3. st'[v][val'[v].last].rps = Settled(v).rps
  BY DEF SettledFor
<1>4. ASSUME NEW e \in Delegator, e # d, Delegated(e, v)'
      PROVE  /\ Delegated(e, v) /\ del'[e][v] = del[e][v]
             /\ Rps(v, del[e][v].last)' = Rps(v, del[e][v].last)
  <2>1. Delegated(e, v) /\ del'[e][v] = del[e][v] /\ RpsKept(v)
    BY <1>4 DEF SettledFor, Delegated
  <2> QED
    BY <2>1, BasisKept
<1>5. ASSUME Delegated(d, v)' PROVE st'[v][del'[d][v].last].rps = st'[v][val'[v].last].rps
  BY <1>5 DEF SettledFor, Delegated
<1> QED
  BY <1>1, <1>2, <1>3, <1>4, <1>5 DEF Rps

(* The reward per unit of stake keeps growing.                             *)
LEMMA FateOrdered ==
  ASSUME Sound, Sound', NEW v \in Validator, NEW x, Fate(v, x), FreshAt(v), OrderedAt(v)
  PROVE  OrderedAt(v)'
<1> SUFFICES ASSUME NEW e \in Delegator, Exists(v)', Delegated(e, v)'
             PROVE  st'[v][del'[e][v].last].rps <= st'[v][val'[v].last].rps
  BY DEF OrderedAt, Rps
<1>0. /\ st'[v][val'[v].last].rps \in Nat /\ st'[v][del'[e][v].last].rps \in Nat
  BY RecordFieldsNext DEF Sound, Rps
<1>1. CASE Untouched(v) \/ Adjusted(v, x)
  <2>1. /\ st'[v] = st[v] /\ val'[v].last = val[v].last /\ Exists(v)
        /\ del'[e][v] = del[e][v] /\ Delegated(e, v)
    BY <1>1 DEF Untouched, Adjusted, Delegated, Exists
  <2> QED
    BY <2>1 DEF OrderedAt, Rps
<1>2. CASE \E d \in Delegator : SettledFor(d, v, x)
  <2>1. PICK d \in Delegator : SettledFor(d, v, x)
    BY <1>2
  <2>2. CASE e = d
    BY <1>0, <2>1, <2>2, SettledRps DEF Rps
  <2>3. CASE e # d
    <3>1. /\ Delegated(e, v) /\ del'[e][v] = del[e][v]
          /\ Rps(v, del[e][v].last)' = Rps(v, del[e][v].last)
          /\ Rps(v, val[v].last)' = Rps(v, val[v].last) + Share(v)
          /\ Rps(v, val[v].last) \in Nat /\ Share(v) \in Nat
      BY <2>1, <2>3, SettledRps
    <3>2. Rps(v, del[e][v].last) <= Rps(v, val[v].last) /\ Rps(v, del[e][v].last) \in Nat
      BY <2>1, <3>1, RecordFields DEF OrderedAt, SettledFor, Sound
    <3>3. Rps(v, del[e][v].last)' <= Rps(v, val[v].last)'
      BY <3>1, <3>2
    <3> QED
      BY <3>3 DEF Rps
  <2> QED
    BY <2>2, <2>3
<1>3. CASE Removed(v, x)
  BY <1>3 DEF Removed
<1>4. CASE Created(v, x)
  BY <1>0, <1>4 DEF Created
<1> QED
  BY <1>1, <1>2, <1>3, <1>4 DEF Fate

(* What accrues, and what a validator holds, are numbers.                  *)
LEMMA HeldTypes ==
  ASSUME LedgerOK, NEW v \in Validator
  PROVE  /\ \A d \in Delegator : Accrued(d, v) \in Int
         /\ AccruedTo(v) \in Int /\ Held(v) \in Int
         /\ Exists(v) => Kept(val[v]) \in Int /\ ValidatorMaximumStake * Kept(val[v]) \in Int
<1>0. ValidatorMaximumStake \in Int
  BY ConfigAssumption
<1>1. ASSUME NEW d \in Delegator PROVE Accrued(d, v) \in Int
  <2>1. CASE Exists(v) /\ Delegated(d, v)
    <3>1. PICK l, r, s : /\ l = Rps(v, val[v].last) /\ r = Rps(v, del[d][v].last)
                         /\ s = del[d][v].stake
      OBVIOUS
    <3>2. l \in Int /\ r \in Int /\ s \in Int
      BY <2>1, <3>1, RecordFields
    <3>3. (l - r) * s \in Int
      BY <3>2
    <3> QED
      BY <2>1, <3>1, <3>3 DEF Accrued
  <2>2. CASE ~(Exists(v) /\ Delegated(d, v))
    BY <2>2 DEF Accrued
  <2> QED
    BY <2>1, <2>2
<1>2. AccruedTo(v) \in Int
  <2>1. PICK f : f = [d \in Delegator |-> Accrued(d, v)]
    OBVIOUS
  <2>2. \A d \in Delegator : f[d] \in Int
    BY <1>1, <2>1
  <2>3. SumFunctionOnSet(f, Delegator) \in Int
    BY <2>2, SumInt, InputAssumption
  <2> QED
    BY <2>1, <2>3 DEF AccruedTo
<1>3. ASSUME Exists(v) PROVE Kept(val[v]) \in Int /\ ValidatorMaximumStake * Kept(val[v]) \in Int
  <2>1. Kept(val[v]) \in Int
    BY <1>3, RecordFields DEF Kept
  <2> QED
    BY <1>0, <2>1
<1>4. Held(v) \in Int
  BY <1>2, <1>3 DEF Held
<1> QED
  BY <1>1, <1>2, <1>3, <1>4

(* The same after a step.                                                  *)
LEMMA HeldTypesNext ==
  ASSUME LedgerOK', NEW v \in Validator
  PROVE  /\ \A d \in Delegator : Accrued(d, v)' \in Int
         /\ AccruedTo(v)' \in Int /\ Held(v)' \in Int
         /\ Exists(v)' => Kept(val'[v]) \in Int /\ ValidatorMaximumStake * Kept(val'[v]) \in Int
<1>0. ValidatorMaximumStake \in Int
  BY ConfigAssumption
<1>1. ASSUME NEW d \in Delegator PROVE Accrued(d, v)' \in Int
  <2>1. CASE Exists(v)' /\ Delegated(d, v)'
    <3>1. PICK l, r, s : /\ l = Rps(v, val[v].last)' /\ r = Rps(v, del[d][v].last)'
                         /\ s = del'[d][v].stake
      OBVIOUS
    <3>2. l \in Int /\ r \in Int /\ s \in Int
      BY <2>1, <3>1, RecordFieldsNext DEF Rps
    <3>3. (l - r) * s \in Int
      BY <3>2
    <3> QED
      BY <2>1, <3>1, <3>3 DEF Accrued
  <2>2. CASE ~(Exists(v)' /\ Delegated(d, v)')
    BY <2>2 DEF Accrued
  <2> QED
    BY <2>1, <2>2
<1>2. AccruedTo(v)' \in Int
  <2>1. PICK f : f = [d \in Delegator |-> Accrued(d, v)']
    OBVIOUS
  <2>2. \A d \in Delegator : f[d] \in Int
    BY <1>1, <2>1
  <2>3. SumFunctionOnSet(f, Delegator) \in Int
    BY <2>2, SumInt, InputAssumption
  <2> QED
    BY <2>1, <2>3 DEF AccruedTo
<1>3. ASSUME Exists(v)' PROVE Kept(val'[v]) \in Int /\ ValidatorMaximumStake * Kept(val'[v]) \in Int
  <2>1. Kept(val'[v]) \in Int
    BY <1>3, RecordFieldsNext DEF Kept
  <2> QED
    BY <1>0, <2>1
<1>4. Held(v)' \in Int
  BY <1>2, <1>3 DEF Held
<1> QED
  BY <1>1, <1>2, <1>3, <1>4

(* What accrues when v is settled and d is paid.                           *)
LEMMA SettledAccrues ==
  ASSUME Sound, Sound', NEW v \in Validator, NEW d \in Delegator, NEW x, SettledFor(d, v, x), FreshAt(v)
  PROVE  AccruedTo(v)' = AccruedTo(v) + Share(v) * val[v].stake
                           - (Accrued(d, v) + Share(v) * StakeOf(d, v))
<1>0. LedgerOK /\ LedgerOK' /\ Exists(v) /\ Exists(v)' /\ StakeTrue
  BY DEF Sound, SettledFor
<1>1. PICK q, f, g, h, e2 :
        /\ q = Share(v) /\ f = [e \in Delegator |-> Accrued(e, v)]
        /\ g = [e \in Delegator |-> StakeOf(e, v)]
        /\ h = [e \in Delegator |-> Accrued(e, v) + q * StakeOf(e, v)]
        /\ e2 = [e \in Delegator |-> Accrued(e, v)']
  OBVIOUS
<1>2. q \in Nat /\ q \in Int
  BY <1>1, SettledRps
<1>3. \A e \in Delegator : f[e] \in Int /\ g[e] \in Int /\ e2[e] \in Int
  BY <1>0, <1>1, HeldTypes, HeldTypesNext, StakeTypes
<1>4. \A e \in Delegator : h[e] = f[e] + q * g[e]
  BY <1>1
<1>5. \A e \in Delegator : h[e] \in Int
  <2>1. \A a, b \in Int : a + q * b \in Int
    BY <1>2
  <2> QED
    BY <1>3, <1>4, <2>1
<1>6. ASSUME NEW e \in Delegator, e # d PROVE e2[e] = h[e]
  <2>1. CASE Delegated(e, v)'
    <3>1. PICK l, r, s : l = Rps(v, val[v].last) /\ r = Rps(v, del[e][v].last) /\ s = del[e][v].stake
      OBVIOUS
    <3>2. /\ Delegated(e, v) /\ del'[e][v] = del[e][v] /\ Rps(v, del[e][v].last)' = r
          /\ Rps(v, val[v].last)' = l + q
      BY <1>1, <1>6, <2>1, <3>1, SettledRps
    <3>3. l \in Int /\ r \in Int /\ s \in Int
      BY <1>0, <3>1, <3>2, RecordFields
    <3>4. Accrued(e, v)' = (l + q - r) * s
      BY <1>0, <1>2, <2>1, <3>1, <3>2, <3>3 DEF Accrued
    <3>5. Accrued(e, v) = (l - r) * s /\ StakeOf(e, v) = s
      BY <1>0, <3>1, <3>2 DEF Accrued, StakeOf
    <3>6. (l + q - r) * s = (l - r) * s + q * s
      BY <1>2, <3>3
    <3> QED
      BY <1>1, <3>4, <3>5, <3>6
  <2>2. CASE ~Delegated(e, v)'
    <3>1. ~Delegated(e, v)
      BY <1>6, <2>2 DEF SettledFor, Delegated
    <3>2. Accrued(e, v)' = 0 /\ Accrued(e, v) = 0 /\ StakeOf(e, v) = 0
      BY <2>2, <3>1 DEF Accrued, StakeOf
    <3>3. 0 = 0 + q * 0
      BY <1>2
    <3> QED
      BY <1>1, <3>2, <3>3
  <2> QED
    BY <2>1, <2>2
<1>7. e2[d] = 0
  <2>1. CASE Delegated(d, v)'
    <3>1. PICK l, s : l = Rps(v, val[v].last)' /\ s = del'[d][v].stake
      OBVIOUS
    <3>2. Rps(v, del[d][v].last)' = l
      BY <2>1, <3>1, SettledRps
    <3>3. l \in Int /\ s \in Int
      BY <1>0, <2>1, <3>1, RecordFieldsNext DEF Rps
    <3>4. (l - l) * s = 0
      BY <3>3
    <3> QED
      <4>1. Accrued(d, v)' = (l - l) * s
        BY <1>0, <2>1, <3>1, <3>2, <3>3 DEF Accrued
      <4> QED
        BY <1>1, <3>4, <4>1
  <2>2. CASE ~Delegated(d, v)'
    BY <1>1, <2>2 DEF Accrued
  <2> QED
    BY <2>1, <2>2
<1>8. SumFunctionOnSet(e2, Delegator) = SumFunctionOnSet(h, Delegator) + e2[d] - h[d]
  BY <1>3, <1>5, <1>6, InputAssumption, SumChange
<1>9. SumFunctionOnSet(h, Delegator) = SumFunctionOnSet(f, Delegator) + q * SumFunctionOnSet(g, Delegator)
  BY <1>2, <1>3, <1>4, InputAssumption, SumLinear
<1>10. SumFunctionOnSet(g, Delegator) = val[v].stake
  BY <1>0, <1>1, StakeNat DEF StakeSum
<1>11. AccruedTo(v) = SumFunctionOnSet(f, Delegator) /\ AccruedTo(v)' = SumFunctionOnSet(e2, Delegator)
  BY <1>1 DEF AccruedTo
<1>12. h[d] = Accrued(d, v) + q * StakeOf(d, v)
  BY <1>1
<1>13. \A a, b, c, t \in Int : (a + t) + 0 - c = a + t - c
  OBVIOUS
<1>14. SumFunctionOnSet(f, Delegator) \in Int /\ q * val[v].stake \in Int /\ h[d] \in Int
  <2>1. SumFunctionOnSet(f, Delegator) \in Int
    BY <1>3, InputAssumption, SumInt
  <2>2. val[v].stake \in Int
    BY <1>0, RecordFields
  <2> QED
    BY <1>2, <1>5, <2>1, <2>2
<1>15. AccruedTo(v)' = AccruedTo(v) + q * val[v].stake - h[d]
  BY <1>7, <1>8, <1>9, <1>10, <1>11, <1>13, <1>14
<1> QED
  BY <1>1, <1>12, <1>15

(* Where the state and the delegations of v stay, or some are removed.     *)
LEMMA AccruesLess ==
  ASSUME Sound, Sound', NEW v \in Validator, OrderedAt(v), Exists(v), Exists(v)', st'[v] = st[v],
         val'[v].last = val[v].last,
         \A d \in Delegator : del'[d][v] = del[d][v] \/ del'[d][v] = Nil
  PROVE  AccruedTo(v)' <= AccruedTo(v)
<1>0. LedgerOK /\ LedgerOK'
  BY DEF Sound
<1>1. PICK f, g : /\ f = [d \in Delegator |-> Accrued(d, v)'] /\ g = [d \in Delegator |-> Accrued(d, v)]
  OBVIOUS
<1>2. \A d \in Delegator : f[d] \in Int /\ g[d] \in Int
  BY <1>0, <1>1, HeldTypes, HeldTypesNext
<1>3. ASSUME NEW d \in Delegator PROVE f[d] <= g[d]
  <2>1. CASE Delegated(d, v)'
    <3>1. del'[d][v] = del[d][v] /\ Delegated(d, v)
      BY <2>1 DEF Delegated
    <3>2. Accrued(d, v)' = Accrued(d, v)
      BY <2>1, <3>1 DEF Accrued, Rps
    <3> QED
      BY <1>1, <1>2, <3>2
  <2>2. CASE ~Delegated(d, v)'
    <3>1. Accrued(d, v)' = 0
      BY <2>2 DEF Accrued
    <3>2. CASE Delegated(d, v)
      <4>1. PICK l, r, s : /\ l = Rps(v, val[v].last) /\ r = Rps(v, del[d][v].last)
                           /\ s = del[d][v].stake
        OBVIOUS
      <4>2. l \in Nat /\ r \in Nat /\ s \in Nat /\ r <= l
        BY <1>0, <3>2, <4>1, RecordFields DEF OrderedAt
      <4>3. (l - r) * s >= 0
        <5>1. l - r \in Nat
          BY <4>2
        <5> QED
          BY <4>2, <5>1, TimesIsNat
      <4>4. Accrued(d, v) = (l - r) * s
        BY <3>2, <4>1 DEF Accrued
      <4> QED
        BY <1>1, <3>1, <4>3, <4>4
    <3>3. CASE ~Delegated(d, v)
      BY <1>1, <3>1, <3>3 DEF Accrued
    <3> QED
      BY <3>2, <3>3
  <2> QED
    BY <2>1, <2>2
<1>4. SumFunctionOnSet(f, Delegator) <= SumFunctionOnSet(g, Delegator)
  BY <1>2, <1>3, InputAssumption, SumGreater
<1> QED
  BY <1>1, <1>4 DEF AccruedTo

(* What a validator holds grows by no more than the tokens it is given.    *)
LEMMA FateHeld ==
  ASSUME Sound, Sound', NEW v \in Validator, NEW x, Fate(v, x), FreshAt(v), OrderedAt(v)
  PROVE  Held(v)' <= Held(v) + ValidatorMaximumStake * x
<1>0. LedgerOK /\ LedgerOK' /\ x \in Int /\ ValidatorMaximumStake \in Int
  BY ConfigAssumption DEF Sound, Fate
<1>1. /\ AccruedTo(v) \in Int /\ Held(v) \in Int /\ AccruedTo(v)' \in Int /\ Held(v)' \in Int
      /\ ValidatorMaximumStake * x \in Int
      /\ Exists(v) => Kept(val[v]) \in Int
      /\ Exists(v)' => Kept(val'[v]) \in Int
  BY <1>0, HeldTypes, HeldTypesNext
<1>2. CASE Untouched(v) /\ x = 0
  <2>1. val'[v] = val[v] /\ st'[v] = st[v] /\ \A d \in Delegator : del'[d][v] = del[d][v]
    BY <1>2 DEF Untouched
  <2>2. \A d \in Delegator : Accrued(d, v)' = Accrued(d, v)
    BY <2>1 DEF Accrued, Exists, Delegated, Rps
  <2>3. AccruedTo(v)' = AccruedTo(v)
    <3>1. [d \in Delegator |-> Accrued(d, v)'] = [d \in Delegator |-> Accrued(d, v)]
      BY <2>2
    <3> QED
      BY <3>1 DEF AccruedTo
  <2>4. Held(v)' = Held(v)
    BY <2>1, <2>3 DEF Held, Exists
  <2>5. ValidatorMaximumStake * 0 = 0
    BY <1>0
  <2> QED
    BY <1>1, <1>2, <2>4, <2>5
<1>3. CASE \E d \in Delegator : SettledFor(d, v, x)
  <2>1. PICK d \in Delegator : SettledFor(d, v, x)
    BY <1>3
  <2>2. PICK m, s, s2, c, p, r, acc, qs, a :
          /\ m = ValidatorMaximumStake /\ s = val[v].stake /\ s2 = val'[v].stake
          /\ c = val[v].commissionPool /\ p = val[v].pool /\ r = RewardOf(d, v) /\ acc = AccruedTo(v)
          /\ qs = Share(v) * val[v].stake /\ a = Accrued(d, v) + Share(v) * StakeOf(d, v)
    OBVIOUS
  <2>3. /\ Exists(v) /\ Exists(v)' /\ Calling /\ CanSettle(v) /\ (Delegated(d, v) => CanClaim(d, v))
        /\ val'[v].pool = 0 /\ val'[v].commissionPool = c /\ x = s2 - s - r
    BY <2>1, <2>2 DEF SettledFor
  <2>4. s \in Nat /\ Share(v) \in Nat /\ qs <= m * p
    BY <2>1, <2>2, SettledRps
  <2>5. r \in Int /\ Accrued(d, v) \in Int /\ m * r <= a
    <3>1. block \in Blocks /\ val[v].stake \in Nat
      BY <2>2, <2>4 DEF Sound
    <3> QED
      BY <1>0, <2>2, <2>3, <3>1, RewardPaid
  <2>6. s2 \in Int /\ c \in Int /\ p \in Int
    BY <1>0, <2>2, <2>3, RecordFields, RecordFieldsNext
  <2>7. qs \in Int /\ a \in Int /\ m \in Int /\ acc \in Int /\ s \in Int
    <3>1. StakeOf(d, v) \in Nat
      BY <1>0, StakeTypes
    <3>2. Share(v) * StakeOf(d, v) \in Int /\ Share(v) * val[v].stake \in Int
      BY <2>2, <2>4, <3>1
    <3> QED
      BY <1>0, <1>1, <2>2, <2>4, <2>5, <3>2
  <2>8. AccruedTo(v)' = acc + qs - a
    BY <2>1, <2>2, SettledAccrues
  <2>9. Held(v)' = m * (s2 + c + 0) + (acc + qs - a)
    BY <2>2, <2>3, <2>8 DEF Held, Kept
  <2>10. Held(v) = m * (s + c + p) + acc
    BY <2>2, <2>3 DEF Held, Kept
  <2>11. /\ m * (s2 + c + 0) = m * s2 + m * c
         /\ m * (s + c + p) = m * s + m * c + m * p
         /\ m * (s2 - s - r) = m * s2 - m * s - m * r
         /\ m * s \in Int /\ m * s2 \in Int /\ m * c \in Int /\ m * p \in Int /\ m * r \in Int
    BY <2>5, <2>6, <2>7
  <2>12. PICK ms, ms2, mc, mp, mr : ms = m * s /\ ms2 = m * s2 /\ mc = m * c /\ mp = m * p /\ mr = m * r
    OBVIOUS
  <2>13. (ms2 + mc) + (acc + qs - a) <= ((ms + mc + mp) + acc) + (ms2 - ms - mr)
    BY <2>4, <2>5, <2>7, <2>11, <2>12
  <2>14. /\ Held(v)' = (ms2 + mc) + (acc + qs - a) /\ Held(v) = (ms + mc + mp) + acc
         /\ ValidatorMaximumStake * x = ms2 - ms - mr
    BY <2>2, <2>3, <2>9, <2>10, <2>11, <2>12
  <2> QED
    BY <2>13, <2>14
<1>4. CASE Adjusted(v, x)
  <2>1. /\ Exists(v) /\ Exists(v)' /\ st'[v] = st[v] /\ val'[v].last = val[v].last
        /\ x = Kept(val'[v]) - Kept(val[v])
        /\ \A d \in Delegator : del'[d][v] = del[d][v] \/ del'[d][v] = Nil
    BY <1>4 DEF Adjusted
  <2>2. AccruedTo(v)' <= AccruedTo(v)
    BY <2>1, AccruesLess
  <2>3. PICK m, k, k2 : m = ValidatorMaximumStake /\ k = Kept(val[v]) /\ k2 = Kept(val'[v])
    OBVIOUS
  <2>4. m * k2 = m * k + m * (k2 - k) /\ m * k \in Int /\ m * (k2 - k) \in Int
    BY <1>0, <1>1, <2>1, <2>3
  <2>5. Held(v)' = m * k2 + AccruedTo(v)' /\ Held(v) = m * k + AccruedTo(v)
    BY <2>1, <2>3 DEF Held
  <2>6. ValidatorMaximumStake * x = m * (k2 - k)
    BY <2>1, <2>3
  <2> QED
    BY <1>1, <2>2, <2>4, <2>5, <2>6
<1>5. CASE Removed(v, x)
  <2>1. Held(v)' = 0 /\ ValidatorMaximumStake * x + Held(v) >= 0
    BY <1>5 DEF Removed, Held
  <2> QED
    BY <1>1, <2>1
<1>6. CASE Created(v, x)
  <2>1. PICK f : f = [d \in Delegator |-> Accrued(d, v)']
    OBVIOUS
  <2>2. ASSUME NEW d \in Delegator PROVE f[d] = 0
    <3>1. CASE Delegated(d, v)'
      <4>1. PICK l, s : l = Rps(v, val[v].last)' /\ s = del'[d][v].stake
        OBVIOUS
      <4>2. Rps(v, del[d][v].last)' = l
        BY <1>6, <3>1, <4>1 DEF Created, Rps
      <4>3. l \in Int /\ s \in Int
        BY <1>0, <1>6, <3>1, <4>1, RecordFieldsNext DEF Rps, Created
      <4>4. (l - l) * s = 0
        BY <4>3
      <4>5. Accrued(d, v)' = (l - l) * s
        BY <1>6, <3>1, <4>1, <4>2, <4>3 DEF Accrued, Created
      <4> QED
        BY <2>1, <4>4, <4>5
    <3>2. CASE ~Delegated(d, v)'
      BY <2>1, <3>2 DEF Accrued
    <3> QED
      BY <3>1, <3>2
  <2>3. AccruedTo(v)' = 0
    BY <2>1, <2>2, SumZero, InputAssumption DEF AccruedTo
  <2>4. Held(v)' = ValidatorMaximumStake * x + 0 /\ Held(v) = 0
    BY <1>6, <2>3 DEF Created, Held
  <2> QED
    BY <1>1, <2>4
<1> QED
  BY <1>2, <1>3, <1>4, <1>5, <1>6 DEF Fate

(* A validator with a delegation has stake, after a step.                  *)
LEMMA StakePositiveNext ==
  ASSUME Sound', NEW v \in Validator, NEW d \in Delegator, Delegated(d, v)', Exists(v)'
  PROVE  val'[v].stake \in Nat /\ val'[v].stake > 0
<1>1. PICK f : f = [e \in Delegator |-> StakeOf(e, v)']
  OBVIOUS
<1>2. \A e \in Delegator : f[e] \in Nat
  BY <1>1, StakeTypesNext DEF Sound
<1>3. f[d] <= SumFunctionOnSet(f, Delegator) /\ SumFunctionOnSet(f, Delegator) \in Nat
  BY <1>2, InputAssumption, SumBounds, SumNat
<1>4. SumFunctionOnSet(f, Delegator) = val'[v].stake
  BY <1>1 DEF Sound, StakeTrue, StakeSum, ValidatorStake
<1>5. f[d] > 0
  BY <1>1 DEF Sound, AllPositive, StakeOf
<1> QED
  BY <1>2, <1>3, <1>4, <1>5

(* The share of the pool does not shrink while stake leaves.               *)
LEMMA ShareGrows ==
  ASSUME NEW m \in Nat, NEW p \in Nat, NEW q \in Nat, p <= q, NEW s \in Nat, NEW t \in Nat, t > 0, t <= s
  PROVE  /\ (p * m) \div s \in Nat /\ (q * m) \div t \in Nat
         /\ (p * m) \div s <= (q * m) \div t
<1>1. PICK a, b : a = p * m /\ b = q * m
  OBVIOUS
<1>2. a \in Nat /\ b \in Nat /\ a <= b
  <2>1. \A i \in Nat : p * i <= q * i
    OBVIOUS
  <2> QED
    BY <1>1, <2>1, TimesIsNat
<1>3. s \in Nat \ {0} /\ t \in Nat \ {0}
  OBVIOUS
<1>4. a \div s <= b \div s /\ b \div s <= b \div t
  <2>1. a \in Int /\ b \in Int
    BY <1>2
  <2>2. a \div s <= b \div s
    BY <1>2, <1>3, <2>1, DivGrows
  <2>3. b \div s <= b \div t
    BY <1>2, <1>3, DivFalls
  <2> QED
    BY <2>2, <2>3
<1>5. a \div s \in Nat /\ b \div s \in Nat /\ b \div t \in Nat
  BY <1>2, <1>3, DivIsNat
<1>6. a \div s <= b \div t
  BY <1>4, <1>5
<1> QED
  BY <1>1, <1>5, <1>6

(* A reward owed grows with the reward per unit of stake.                  *)
LEMMA OwedGrows ==
  ASSUME Sound, Sound', NEW v \in Validator, NEW d \in Delegator, Delegated(d, v), Exists(v), Exists(v)',
         del'[d][v] = del[d][v], RpsKept(v) \/ st'[v] = st[v], NEW q \in Int, NEW q2 \in Int,
         Share(v) = q, Share(v)' = q2,
         Rps(v, val[v].last) + q <= Rps(v, val[v].last)' + q2
  PROVE  Owed(d, v)' >= Owed(d, v)
<1>0. LedgerOK /\ LedgerOK' /\ ValidatorMaximumStake \in Nat \ {0}
  BY ConfigAssumption DEF Sound
<1>1. PICK l, l2, r, s, m : /\ l = Rps(v, val[v].last) /\ l2 = Rps(v, val[v].last)'
                            /\ r = Rps(v, del[d][v].last) /\ s = del[d][v].stake
                            /\ m = ValidatorMaximumStake
  OBVIOUS
<1>2. l \in Int /\ l2 \in Int /\ r \in Int /\ s \in Nat /\ m \in Nat \ {0}
  BY <1>0, <1>1, RecordFields, RecordFieldsNext DEF Rps
<1>3. Rps(v, del[d][v].last)' = r /\ Delegated(d, v)'
  BY <1>1, BasisKept DEF Delegated
<1>4. Owed(d, v) = ((l - r + q) * s) \div m
  BY <1>1, <1>2 DEF Owed, calculateDelegatorReward, Share, Rps
<1>5. Owed(d, v)' = ((l2 - r + q2) * s) \div m
  <2>1. /\ st'[v][val'[v].last].rps = l2 /\ st'[v][del'[d][v].last].rps = r /\ del'[d][v].stake = s
    BY <1>1, <1>3 DEF Rps
  <2> QED
    BY <1>1, <1>2, <1>3, <2>1 DEF Owed, calculateDelegatorReward, Share
<1>6. (l - r + q) * s <= (l2 - r + q2) * s /\ (l - r + q) * s \in Int /\ (l2 - r + q2) * s \in Int
  <2>1. \A i, j \in Int : i <= j => i * s <= j * s
    BY <1>2
  <2>2. l - r + q \in Int /\ l2 - r + q2 \in Int /\ l - r + q <= l2 - r + q2
    BY <1>1, <1>2
  <2>3. \A i \in Int : i * s \in Int
    BY <1>2
  <2> QED
    BY <2>1, <2>2, <2>3
<1>7. PICK y, z : y = (l - r + q) * s /\ z = (l2 - r + q2) * s
  OBVIOUS
<1>8. y \div m <= z \div m /\ y \div m \in Int /\ z \div m \in Int
  BY <1>2, <1>6, <1>7, DivGrows, DivBelow
<1> QED
  BY <1>4, <1>5, <1>7, <1>8

(* The reward owed to a delegation that stays does not shrink.             *)
LEMMA FateOwed ==
  ASSUME Sound, Sound', NEW v \in Validator, NEW d \in Delegator, NEW x, Fate(v, x), FreshAt(v),
         Delegated(d, v), del'[d][v] = del[d][v]
  PROVE  Owed(d, v)' >= Owed(d, v)
<1>0. LedgerOK /\ LedgerOK' /\ ValidatorMaximumStake \in Nat
  BY ConfigAssumption DEF Sound
<1>1. Exists(v)
  <2>1. ~Exists(v) => ValidatorStake(v) = 0
    BY DEF ValidatorStake
  <2> QED
    BY <2>1, NoDelegations DEF Sound
<1>2. /\ val[v].stake \in Nat /\ val[v].pool \in Nat /\ Rps(v, val[v].last) \in Nat
  BY <1>0, <1>1, StakeNat, RecordFields DEF Sound
<1>3. Exists(v)' => /\ val'[v].stake \in Nat /\ val'[v].stake > 0 /\ val'[v].pool \in Nat
                    /\ Rps(v, val[v].last)' \in Nat
  BY <1>0, StakePositiveNext, RecordFieldsNext DEF Delegated, Rps
<1>4. CASE Untouched(v) \/ Adjusted(v, x)
  <2>1. /\ Exists(v)' /\ st'[v] = st[v] /\ val'[v].last = val[v].last /\ val'[v].stake <= val[v].stake
        /\ val[v].pool <= val'[v].pool
    BY <1>1, <1>2, <1>4 DEF Untouched, Adjusted, Exists
  <2>2. PICK p, p2, s, s2, m : /\ p = val[v].pool /\ p2 = val'[v].pool /\ s = val[v].stake
                               /\ s2 = val'[v].stake /\ m = ValidatorMaximumStake
    OBVIOUS
  <2>3. /\ p \in Nat /\ p2 \in Nat /\ s \in Nat /\ s2 \in Nat /\ m \in Nat /\ s2 > 0 /\ s2 <= s
        /\ p <= p2 /\ s > 0
    BY <1>0, <1>2, <1>3, <2>1, <2>2
  <2>4. Share(v) = (p * m) \div s /\ Share(v)' = (p2 * m) \div s2
    BY <2>2, <2>3 DEF Share, calculateRewardPer1Stake
  <2>5. Share(v) \in Nat /\ Share(v)' \in Nat /\ Share(v) <= Share(v)'
    BY <2>3, <2>4, ShareGrows
  <2>6. Rps(v, val[v].last)' = Rps(v, val[v].last)
    BY <2>1 DEF Rps
  <2>7. PICK q, q2 \in Int : q = Share(v) /\ q2 = Share(v)'
    BY <2>5
  <2>8. Rps(v, val[v].last) + q <= Rps(v, val[v].last)' + q2
    BY <1>2, <2>5, <2>6, <2>7
  <2> QED
    BY <1>1, <2>1, <2>7, <2>8, OwedGrows
<1>5. CASE \E e \in Delegator : SettledFor(e, v, x)
  <2>1. PICK e \in Delegator : SettledFor(e, v, x)
    BY <1>5
  <2>2. Rps(v, val[v].last)' = Rps(v, val[v].last) + Share(v) /\ Share(v) \in Nat
    BY <2>1, SettledRps
  <2>3. Exists(v)' /\ val'[v].pool = 0 /\ RpsKept(v)
    BY <2>1 DEF SettledFor
  <2>4. Share(v)' = 0
    <3>1. PICK s2, m : s2 = val'[v].stake /\ m = ValidatorMaximumStake
      OBVIOUS
    <3>2. s2 \in Nat /\ s2 > 0 /\ m \in Nat
      BY <1>0, <1>3, <2>3, <3>1
    <3>3. 0 * m = 0 /\ 0 \div s2 = 0
      BY <3>2
    <3>4. Share(v)' = (0 * m) \div s2
      BY <2>3, <3>1, <3>2 DEF Share, calculateRewardPer1Stake
    <3> QED
      BY <3>3, <3>4
  <2>5. PICK q, q2 \in Int : q = Share(v) /\ q2 = Share(v)'
    BY <2>2, <2>4
  <2>6. Rps(v, val[v].last) + q <= Rps(v, val[v].last)' + q2
    BY <1>2, <2>2, <2>4, <2>5
  <2> QED
    BY <1>1, <2>3, <2>5, <2>6, OwedGrows
<1>6. CASE Removed(v, x)
  BY <1>6 DEF Removed, Delegated
<1>7. CASE Created(v, x)
  BY <1>1, <1>7 DEF Created
<1> QED
  BY <1>4, <1>5, <1>6, <1>7 DEF Fate

-----------------------------------------------------------------------------
(* The fates of the validators in each step, and who pays.                 *)

(* A settled validator points to this block and has given its pool away.   *)
LEMMA ValSettledIs ==
  ASSUME LedgerOK, block \in Blocks, NEW v \in Validator, Exists(v), CanSettle(v), Calling, FreshAt(v)
  PROVE  /\ ValSettled(v) \in ValidatorRec /\ ValSettled(v).last = block /\ ValSettled(v).pool = 0
         /\ ValSettled(v).stake = val[v].stake
         /\ ValSettled(v).commissionPool = val[v].commissionPool
         /\ ValSettled(v).undelegations = val[v].undelegations
<1>1. PICK r : r = val[v]
  OBVIOUS
<1>2. r \in ValidatorRec
  BY <1>1 DEF LedgerOK, Exists, BoundedRec
<1>3. CASE Has(v, block)
  BY <1>1, <1>2, <1>3 DEF ValSettled, FreshAt
<1>4. CASE ~Has(v, block)
  <2>1. ValSettled(v) = [r EXCEPT !.pool = 0, !.last = block]
    BY <1>1, <1>4 DEF ValSettled
  <2>2. PICK q : q = [r EXCEPT !.pool = 0, !.last = block]
    OBVIOUS
  <2>3. /\ q \in ValidatorRec /\ q.last = block /\ q.pool = 0 /\ q.stake = r.stake
        /\ q.commissionPool = r.commissionPool /\ q.undelegations = r.undelegations
    BY <1>2, <2>2 DEF ValidatorRec
  <2> QED
    BY <1>1, <2>1, <2>2, <2>3
<1> QED
  BY <1>3, <1>4

(* The records the methods store.                                          *)
LEMMA ValFields ==
  ASSUME LedgerOK, block \in Blocks, NEW v \in Validator, Exists(v), CanSettle(v), Calling, FreshAt(v),
         NEW amount \in Nat, NEW r,
         r = ValCredited(v, amount) \/ r = ValCancelled(v, amount) \/ r = ValUndelegated(v, amount)
  PROVE  r # Nil /\ r.last = block /\ r.pool = 0 /\ r.commissionPool = val[v].commissionPool
<1>1. PICK s : s = ValSettled(v)
  OBVIOUS
<1>2. /\ s \in ValidatorRec /\ s.last = block /\ s.pool = 0 /\ s.stake = val[v].stake
      /\ s.commissionPool = val[v].commissionPool
  BY <1>1, ValSettledIs
<1>3. s.stake \in Int /\ s.undelegations \in Nat
  BY <1>2 DEF ValidatorRec
<1>4. Inc(s.undelegations) \in Nat /\ Dec(s.undelegations) \in Nat
  BY <1>3, ConfigAssumption DEF Inc, Dec
<1>5. s.stake + amount \in Int /\ s.stake - amount \in Int
  BY <1>3
<1>6. PICK i, j : i = Inc(s.undelegations) /\ j = Dec(s.undelegations)
  OBVIOUS
<1>7. \/ r = [s EXCEPT !.stake = s.stake + amount]
      \/ r = [s EXCEPT !.stake = s.stake + amount, !.undelegations = j]
      \/ r = [s EXCEPT !.stake = s.stake - amount, !.undelegations = i]
  BY <1>1, <1>6 DEF ValCredited, ValCancelled, ValUndelegated
<1>8. /\ r \in ValidatorRec /\ r.last = block /\ r.pool = 0
      /\ r.commissionPool = val[v].commissionPool
  BY <1>2, <1>4, <1>5, <1>6, <1>7 DEF ValidatorRec
<1>9. r # Nil
  BY <1>8, NilAssumption
<1> QED
  BY <1>8, <1>9

(* Storing the state in memory settles v for d.                            *)
LEMMA StoredSettles ==
  ASSUME Sound, NEW v \in Validator, NEW d \in Delegator, Exists(v), CanSettle(v), Calling, FreshAt(v),
         Delegated(d, v) => CanClaim(d, v), NEW n \in Nat, NEW states,
         states = StatesSettled(v) \/ (Delegated(d, v) /\ states = StatesClaimed(d, v)),
         st'[v] = PutState(states, v, n),
         val'[v] # Nil, val'[v].last = block, val'[v].pool = 0,
         val'[v].commissionPool = val[v].commissionPool, val'[v].stake \in Int,
         \A e \in Delegator : e # d => del'[e][v] = del[e][v],
         del'[d][v] # Nil => del'[d][v].last = block,
         NEW x, x = val'[v].stake - val[v].stake - RewardOf(d, v)
  PROVE  Fate(v, x)
<1>0. LedgerOK /\ block \in Blocks /\ StakeTrue
  BY DEF Sound
<1>1. states \in States
  BY <1>0, SettleTypes, ClaimTypes
<1>2. ASSUME NEW b \in Blocks, states[b].count > 0 PROVE Has(v, b) /\ states[b].rps = Rps(v, b)
  <2>1. CASE states = StatesSettled(v)
    BY <1>0, <1>2, <2>1, SettledKeeps
  <2>2. CASE Delegated(d, v) /\ states = StatesClaimed(d, v)
    BY <1>0, <1>2, <2>2, SettledKeeps
  <2> QED
    BY <2>1, <2>2
<1>3. PICK z : z = [rps |-> Settled(v).rps, count |-> Settled(v).count + n]
  OBVIOUS
<1>4. st'[v][block] = z /\ \A b \in Blocks : b # block => st'[v][b] = states[b]
  <2>1. st'[v] = [states EXCEPT ![block] = z]
    BY <1>3 DEF PutState
  <2> QED
    BY <1>0, <1>1, <2>1 DEF States
<1>5. OnlyNew(v)
  BY <1>2, <1>4 DEF OnlyNew, Has
<1>6. RpsKept(v)
  <2> SUFFICES ASSUME NEW b \in Blocks, Has(v, b), Has(v, b)' PROVE st'[v][b].rps = st[v][b].rps
    BY DEF RpsKept, Rps
  <2>1. CASE b = block
    BY <1>3, <1>4, <2>1 DEF Settled
  <2>2. CASE b # block
    BY <1>2, <1>4, <2>2 DEF Has, Rps
  <2> QED
    BY <2>1, <2>2
<1>7. SettledFor(d, v, x)
  BY <1>3, <1>4, <1>5, <1>6 DEF SettledFor, Exists
<1>8. val[v].stake \in Nat
  BY <1>0, StakeNat
<1>9. RewardOf(d, v) \in Int
  BY <1>0, <1>8, RewardPaid
<1> QED
  BY <1>7, <1>8, <1>9 DEF Fate

(* The undelegations that wait to be paid, and what the ledger counts as   *)
(* received beyond them, in the balance or astray.                         *)
Awaiting == SumFunctionOnSet([u \in und |-> u.amount], und)

Funded == balance \in Int /\ astray \in Int

Backing == balance + astray

Reserve == Backing - Awaiting

Counted == IsFiniteSet(und) /\ Funded /\ Backing \in Int

HeldTotal == SumFunctionOnSet([v \in Validator |-> Held(v)], Validator)

Backed == ValidatorMaximumStake * Reserve >= HeldTotal

(* What the validators are given leaves the reserve, or comes with it.     *)
Flows ==
  \E g \in [Validator -> Int] :
    /\ \A v \in Validator : Fate(v, g[v])
    /\ Reserve' >= Reserve + SumFunctionOnSet(g, Validator)

(* However the tokens of a call move, the ledger's count of them follows.  *)
LEMMA TransferFunds ==
  ASSUME Counted, NEW d, NEW value \in Int, NEW payout \in Int,
         transferContractBalance(d, value, payout) \/ UndoneTransfer(value, payout)
  PROVE  Funded' /\ Backing' \in Int /\ Backing' = Backing + value - payout
<1>1. \/ balance' = balance + value - payout /\ astray' = astray
      \/ balance' = balance /\ astray' = astray + value - payout
  BY DEF transferContractBalance, KeptTransfer, CodeTransfer, UndoneTransfer
<1> QED
  BY <1>1 DEF Counted, Funded, Backing

(* Nor does it move otherwise.                                             *)
LEMMA FundsKept ==
  ASSUME Counted, balance' = balance, astray' = astray
  PROVE  Funded' /\ Backing' \in Int /\ Backing' = Backing
BY DEF Counted, Funded, Backing

(* What awaits payment is a natural number.                                *)
LEMMA AwaitingNat ==
  ASSUME LedgerOK, Counted
  PROVE  Awaiting \in Nat /\ Reserve \in Int
<1>1. PICK f : f = [u \in und |-> u.amount]
  OBVIOUS
<1>2. \A u \in und : f[u] \in Nat
  BY <1>1 DEF LedgerOK, UndelegationRec
<1>3. SumFunctionOnSet(f, und) \in Nat
  BY <1>2, SumNat DEF Counted
<1> QED
  BY <1>1, <1>3 DEF Awaiting, Reserve, Counted

(* A new undelegation.                                                     *)
LEMMA AwaitingGrows ==
  ASSUME LedgerOK, Counted, NEW u, u.amount \in Nat, und' = und \cup {u}
  PROVE  IsFiniteSet(und') /\ Awaiting' \in Nat /\ Awaiting' <= Awaiting + u.amount
<1>0. IsFiniteSet(und) /\ Awaiting \in Nat
  BY AwaitingNat DEF Counted
<1>1. IsFiniteSet(und')
  BY <1>0, FS_AddElement
<1>2. PICK f, g : f = [w \in und |-> w.amount] /\ g = [w \in und' |-> w.amount]
  OBVIOUS
<1>3. /\ \A w \in und' : g[w] \in Nat /\ g[w] \in Int
      /\ \A w \in und : g[w] = f[w]
  BY <1>2 DEF LedgerOK, UndelegationRec
<1>4. SumFunctionOnSet(g, und) = SumFunctionOnSet(f, und)
  BY <1>0, <1>3, SumSame
<1>5. Awaiting = SumFunctionOnSet(f, und) /\ Awaiting' = SumFunctionOnSet(g, und')
  BY <1>2 DEF Awaiting
<1>6. CASE u \in und
  <2>1. und' = und
    BY <1>6
  <2> QED
    <3>1. Awaiting' = Awaiting
      BY <1>4, <1>5, <2>1
    <3> QED
      BY <1>0, <1>1, <3>1
<1>7. CASE u \notin und
  <2>1. \A w \in und \cup {u} : g[w] \in Int
    BY <1>3
  <2>2. SumFunctionOnSet(g, und \cup {u}) = g[u] + SumFunctionOnSet(g, und)
    BY <1>0, <1>7, <2>1, SumAdd
  <2>3. g[u] = u.amount
    BY <1>2
  <2>4. Awaiting' = u.amount + Awaiting
    BY <1>4, <1>5, <2>2, <2>3
  <2> QED
    BY <1>0, <1>1, <2>4
<1> QED
  BY <1>6, <1>7

(* An undelegation is paid or cancelled.                                   *)
LEMMA AwaitingFalls ==
  ASSUME LedgerOK, Counted, NEW u \in und, und' = und \ {u}
  PROVE  /\ IsFiniteSet(und') /\ u.amount \in Nat
         /\ Awaiting' \in Int /\ Awaiting' = Awaiting - u.amount
<1>0. IsFiniteSet(und) /\ Awaiting \in Nat
  BY AwaitingNat DEF Counted
<1>1. IsFiniteSet(und')
  BY <1>0, FS_RemoveElement
<1>2. PICK f, g : f = [w \in und |-> w.amount] /\ g = [w \in und' |-> w.amount]
  OBVIOUS
<1>3. /\ \A w \in und : f[w] \in Nat /\ f[w] \in Int
      /\ \A w \in und' : g[w] = f[w]
  BY <1>2 DEF LedgerOK, UndelegationRec
<1>4. SumFunctionOnSet(g, und') = SumFunctionOnSet(f, und')
  BY <1>1, <1>3, SumSame
<1>5. SumFunctionOnSet(f, und) = f[u] + SumFunctionOnSet(f, und \ {u})
  BY <1>0, <1>3, SumRemove
<1>6. \A w \in und' : f[w] \in Int
  BY <1>3
<1>7. SumFunctionOnSet(f, und') \in Int
  BY <1>1, <1>6, SumInt
<1>8. Awaiting = SumFunctionOnSet(f, und) /\ Awaiting' = SumFunctionOnSet(g, und')
  BY <1>2 DEF Awaiting
<1>9. f[u] = u.amount /\ u.amount \in Nat
  BY <1>2, <1>3
<1> QED
  <2>1. PICK a, b, c : a = Awaiting /\ b = SumFunctionOnSet(f, und \ {u}) /\ c = u.amount
    OBVIOUS
  <2>2. Awaiting' = b /\ a = c + b /\ b \in Int /\ c \in Nat
    BY <1>4, <1>5, <1>7, <1>8, <1>9, <2>1
  <2>3. b = a - c
    BY <2>2
  <2> QED
    BY <1>1, <2>1, <2>2, <2>3

AllFresh == \A v \in Validator : FreshAt(v)

(* Only one validator changes.                                             *)
LEMMA FlowsOne ==
  ASSUME NEW v \in Validator, NEW x \in Int, Fate(v, x),
         \A w \in Validator : w # v => Untouched(w), Reserve \in Int, Reserve' \in Int,
         Reserve' >= Reserve + x
  PROVE  Flows
<1>1. PICK g, z : g = [w \in Validator |-> IF w = v THEN x ELSE 0] /\ z = [w \in Validator |-> 0]
  OBVIOUS
<1>2. g \in [Validator -> Int]
  BY <1>1
<1>3. ASSUME NEW w \in Validator PROVE Fate(w, g[w])
  <2>1. CASE w = v
    BY <1>1, <2>1
  <2>2. CASE w # v
    <3>1. g[w] = 0 /\ Untouched(w)
      BY <1>1, <2>2
    <3>2. Fate(w, 0)
      BY <3>1 DEF Fate
    <3> QED
      BY <3>1, <3>2, Zenon
  <2> QED
    BY <2>1, <2>2
<1>4. SumFunctionOnSet(g, Validator) = x
  <2>1. /\ \A w \in Validator : z[w] \in Int /\ g[w] \in Int /\ z[w] = 0
        /\ \A w \in Validator \ {v} : g[w] = z[w]
    BY <1>1
  <2>2. SumFunctionOnSet(z, Validator) = 0
    BY <2>1, InputAssumption, SumZero
  <2>3. SumFunctionOnSet(g, Validator) = SumFunctionOnSet(z, Validator) + g[v] - z[v]
    BY <2>1, InputAssumption, SumChange
  <2>4. g[v] = x /\ z[v] = 0
    BY <1>1
  <2> QED
    BY <2>2, <2>3, <2>4
<1> QED
  BY <1>2, <1>3, <1>4 DEF Flows

(* No validator changes.                                                   *)
LEMMA FlowsNone ==
  ASSUME \A v \in Validator : Untouched(v), Reserve \in Int, Reserve' = Reserve
  PROVE  Flows
<1>1. PICK g : g = [w \in Validator |-> 0]
  OBVIOUS
<1>2. g \in [Validator -> Int] /\ \A w \in Validator : g[w] = 0
  BY <1>1
<1>3. SumFunctionOnSet(g, Validator) = 0
  BY <1>2, InputAssumption, SumZero
<1>4. \A w \in Validator : Fate(w, 0)
  BY DEF Fate
<1>5. \A w \in Validator : Fate(w, g[w])
  BY <1>2, <1>4, Zenon
<1> QED
  BY <1>2, <1>3, <1>5 DEF Flows

(* One validator and one delegation are stored.                            *)
LEMMA StoredOne ==
  ASSUME LedgerOK, NEW v \in Validator, NEW d \in Delegator, NEW r, NEW q, NEW s,
         val' = [val EXCEPT ![v] = r], del' = [del EXCEPT ![d][v] = q], st' = [st EXCEPT ![v] = s]
  PROVE  /\ val'[v] = r /\ del'[d][v] = q /\ st'[v] = s
         /\ \A e \in Delegator : e # d => del'[e][v] = del[e][v]
         /\ \A w \in Validator : w # v => Untouched(w)
<1>1. val'[v] = r /\ st'[v] = s /\ \A w \in Validator : w # v => val'[w] = val[w] /\ st'[w] = st[w]
  BY DEF LedgerOK
<1>2. /\ del'[d][v] = q
      /\ \A e \in Delegator, w \in Validator : ~(e = d /\ w = v) => del'[e][w] = del[e][w]
  BY DEF LedgerOK
<1> QED
  BY <1>1, <1>2 DEF Untouched

(* What a delegation that is credited or debited points to.                *)
LEMMA DelFields ==
  ASSUME NEW d, NEW v, NEW amount, block \in Blocks
  PROVE  /\ Credited(d, v, amount).last = block
         /\ Debited(d, v, amount) # Nil => Debited(d, v, amount).last = block
BY DEF Credited, Debited

(* delegate.                                                               *)
LEMMA DelegateFlows ==
  ASSUME Sound, Sound', Counted, AllFresh, Calling, NEW d \in Delegator, NEW v \in Validator,
         NEW amount \in Nat, delegate(d, v, amount)
  PROVE  Counted' /\ Flows
<1>0. /\ LedgerOK /\ block \in Blocks /\ StakeTrue /\ Exists(v) /\ CanSettle(v) /\ FreshAt(v)
      /\ Delegated(d, v) => CanClaim(d, v)
  BY DEF Sound, delegate, CanCredit, AllFresh
<1>1. PICK r, q, s : /\ r = ValCredited(v, amount) /\ q = Credited(d, v, amount)
                     /\ s = PutState(StatesCredited(d, v), v, 1)
  OBVIOUS
<1>2. /\ val' = [val EXCEPT ![v] = r] /\ del' = [del EXCEPT ![d][v] = q] /\ st' = [st EXCEPT ![v] = s]
      /\ und' = und
  BY <1>1 DEF delegate
<1>3. /\ val'[v] = r /\ del'[d][v] = q /\ st'[v] = s
      /\ \A e \in Delegator : e # d => del'[e][v] = del[e][v]
      /\ \A w \in Validator : w # v => Untouched(w)
  BY <1>0, <1>2, StoredOne
<1>4. /\ r # Nil /\ r.last = block /\ r.pool = 0 /\ r.commissionPool = val[v].commissionPool
      /\ r.stake = val[v].stake + amount /\ val[v].stake \in Nat /\ q.last = block
  BY <1>0, <1>1, ValFields, ValMoves, DelFields, StakeNat
<1>5. RewardOf(d, v) \in Int
  BY <1>0, <1>4, RewardPaid
<1>6. PICK x : x = r.stake - val[v].stake - RewardOf(d, v)
  OBVIOUS
<1>7. x \in Int /\ x = amount - RewardOf(d, v) /\ r.stake \in Int
  BY <1>4, <1>5, <1>6
<1>8. Fate(v, x)
  <2>1. \/ StatesCredited(d, v) = StatesSettled(v)
        \/ Delegated(d, v) /\ StatesCredited(d, v) = StatesClaimed(d, v)
    BY DEF StatesCredited
  <2>2. 1 \in Nat /\ st'[v] = PutState(StatesCredited(d, v), v, 1)
    BY <1>1, <1>3
  <2> QED
    BY <1>0, <1>3, <1>4, <1>6, <1>7, <2>1, <2>2, StoredSettles
<1>9. Awaiting' = Awaiting /\ Awaiting \in Nat /\ Funded /\ Backing \in Int /\ IsFiniteSet(und)
  BY <1>0, <1>2, AwaitingNat DEF Awaiting, Counted
<1>10. Funded' /\ Backing' \in Int /\ Backing' = Backing + amount - RewardOf(d, v)
  <2>1. transferContractBalance(d, amount, RewardOf(d, v))
    BY DEF delegate
  <2> QED
    BY <1>5, <2>1, TransferFunds
<1>11. Reserve' = Reserve + x /\ Reserve \in Int /\ Reserve' \in Int
  BY <1>2, <1>5, <1>7, <1>9, <1>10 DEF Reserve
<1>12. Counted'
  BY <1>2, <1>9, <1>10 DEF Counted
<1> QED
  BY <1>3, <1>7, <1>8, <1>11, <1>12, FlowsOne

(* One settled validator: how the balance and the queue pay for it.        *)
LEMMA SettledFlows ==
  ASSUME Sound, Counted, AllFresh, Calling, NEW d \in Delegator, NEW v \in Validator, Exists(v),
         CanSettle(v), Delegated(d, v) => CanClaim(d, v), NEW n \in Nat, NEW states,
         states = StatesSettled(v) \/ (Delegated(d, v) /\ states = StatesClaimed(d, v)),
         NEW r, r # Nil, r.last = block, r.pool = 0, r.commissionPool = val[v].commissionPool,
         r.stake \in Int, NEW q, q # Nil => q.last = block,
         val' = [val EXCEPT ![v] = r], del' = [del EXCEPT ![d][v] = q],
         st' = [st EXCEPT ![v] = PutState(states, v, n)],
         IsFiniteSet(und'), Awaiting' \in Int, Funded' /\ Backing' \in Int,
         Backing' - Awaiting' >= Backing - Awaiting + (r.stake - val[v].stake - RewardOf(d, v))
  PROVE  Counted' /\ Flows
<1>0. LedgerOK /\ block \in Blocks /\ StakeTrue /\ FreshAt(v)
  BY DEF Sound, AllFresh
<1>1. PICK s : s = PutState(states, v, n)
  OBVIOUS
<1>2. /\ val'[v] = r /\ del'[d][v] = q /\ st'[v] = s
      /\ \A e \in Delegator : e # d => del'[e][v] = del[e][v]
      /\ \A w \in Validator : w # v => Untouched(w)
  <2>1. st' = [st EXCEPT ![v] = s]
    BY <1>1
  <2> QED
    BY <1>0, <2>1, StoredOne
<1>3. val[v].stake \in Nat
  BY <1>0, StakeNat
<1>4. RewardOf(d, v) \in Int
  BY <1>0, <1>3, RewardPaid
<1>5. PICK x : x = r.stake - val[v].stake - RewardOf(d, v)
  OBVIOUS
<1>6. x \in Int
  BY <1>3, <1>4, <1>5
<1>7. Fate(v, x)
  BY <1>0, <1>1, <1>2, <1>5, StoredSettles
<1>8. Reserve \in Int /\ Reserve' \in Int /\ Reserve' >= Reserve + x
  BY <1>0, <1>5, AwaitingNat DEF Reserve
<1>9. Counted'
  BY DEF Counted
<1> QED
  BY <1>2, <1>6, <1>7, <1>8, <1>9, FlowsOne

(* undelegate.                                                             *)
LEMMA UndelegateFlows ==
  ASSUME Sound, Counted, AllFresh, NEW d \in Delegator, NEW v \in Validator, NEW amount \in Nat,
         undelegate(d, v, amount)
  PROVE  Counted' /\ Flows
<1>0. /\ LedgerOK /\ block \in Blocks /\ StakeTrue /\ Exists(v) /\ CanSettle(v) /\ FreshAt(v)
      /\ Delegated(d, v) /\ CanClaim(d, v) /\ Calling
  BY DEF Sound, undelegate, CanClaim, MayWithdraw, AllFresh, Call, Calling
<1>1. PICK r, q, n : /\ r = ValUndelegated(v, amount) /\ q = Debited(d, v, amount)
                     /\ n = KeepsDelegation(d, v, amount)
  OBVIOUS
<1>2. PICK u : u = [delegator |-> d, validator |-> v, id |-> lastId[d] + 1,
                    amount |-> amount, block |-> block + DelegationLockingPeriod]
  OBVIOUS
<1>3. /\ val' = [val EXCEPT ![v] = r] /\ del' = [del EXCEPT ![d][v] = q]
      /\ st' = [st EXCEPT ![v] = PutState(StatesClaimed(d, v), v, n)]
      /\ und' = und \cup {u} /\ u.amount = amount
  <2>1. /\ val' = [val EXCEPT ![v] = r] /\ del' = [del EXCEPT ![d][v] = q]
        /\ st' = [st EXCEPT ![v] = PutState(StatesClaimed(d, v), v, n)]
    BY <1>1 DEF undelegate
  <2>2. und' = und \cup {u}
    BY <1>2 DEF undelegate
  <2> QED
    BY <1>2, <2>1, <2>2
<1>4. /\ r # Nil /\ r.last = block /\ r.pool = 0 /\ r.commissionPool = val[v].commissionPool
      /\ r.stake = val[v].stake + (-amount) /\ val[v].stake \in Nat /\ (q # Nil => q.last = block)
  BY <1>0, <1>1, ValFields, ValMoves, DelFields, StakeNat
<1>5. n \in Nat
  BY <1>1 DEF KeepsDelegation
<1>6. RewardOf(d, v) \in Int /\ RewardOf(d, v) = Reward(d, v)
  BY <1>0, <1>4, RewardPaid DEF RewardOf
<1>7. IsFiniteSet(und') /\ Awaiting' \in Nat /\ Awaiting' <= Awaiting + amount /\ Awaiting \in Nat
  BY <1>0, <1>3, AwaitingGrows, AwaitingNat
<1>8. /\ Funded /\ Backing \in Int /\ Funded' /\ Backing' \in Int /\ r.stake \in Int
      /\ Backing' - Awaiting' >= Backing - Awaiting + (r.stake - val[v].stake - RewardOf(d, v))
  <2>1. transferContractBalance(d, 0, Reward(d, v))
    BY DEF undelegate
  <2>2. Funded' /\ Backing' \in Int /\ Backing' = Backing - Reward(d, v)
    BY <1>6, <2>1, TransferFunds DEF Counted
  <2> QED
    BY <1>4, <1>6, <1>7, <2>2 DEF Counted
<1>9. Awaiting' \in Int
  BY <1>7
<1> QED
  BY <1>0, <1>3, <1>4, <1>5, <1>7, <1>8, <1>9, SettledFlows

(* cancelUndelegate, when the stake fits.                                  *)
LEMMA CancelFlows ==
  ASSUME Sound, Counted, AllFresh, NEW u \in und, cancelUndelegate(u), FitsMaximum(u.validator, u.amount)
  PROVE  Counted' /\ Flows
<1>1. PICK v, d, amount : v = u.validator /\ d = u.delegator /\ amount = u.amount
  OBVIOUS
<1>2. v \in Validator /\ d \in Delegator /\ amount \in Nat
  BY <1>1 DEF Sound, LedgerOK, UndelegationRec
<1>3. /\ LedgerOK /\ block \in Blocks /\ StakeTrue /\ Exists(v) /\ CanSettle(v) /\ FreshAt(v)
      /\ Delegated(d, v) => CanClaim(d, v)
      /\ Calling
  BY <1>1, <1>2 DEF Sound, cancelUndelegate, CanCredit, AllFresh, Call, Calling
<1>4. PICK r, q : r = ValCancelled(v, amount) /\ q = Credited(d, v, amount)
  OBVIOUS
<1>5. /\ val' = [val EXCEPT ![v] = r] /\ del' = [del EXCEPT ![d][v] = q]
      /\ st' = [st EXCEPT ![v] = PutState(StatesCredited(d, v), v, 1)]
      /\ und' = und \ {u} /\ transferContractBalance(d, 0, RewardOf(d, v))
  BY <1>1, <1>4 DEF cancelUndelegate
<1>6. /\ r # Nil /\ r.last = block /\ r.pool = 0 /\ r.commissionPool = val[v].commissionPool
      /\ r.stake = val[v].stake + amount /\ val[v].stake \in Nat /\ q.last = block
  BY <1>2, <1>3, <1>4, ValFields, ValMoves, DelFields, StakeNat
<1>7. RewardOf(d, v) \in Int
  BY <1>2, <1>3, <1>6, RewardPaid
<1>8. IsFiniteSet(und') /\ Awaiting' \in Int /\ Awaiting' = Awaiting - amount /\ Awaiting \in Nat
  BY <1>1, <1>3, <1>5, AwaitingFalls, AwaitingNat
<1>9. /\ Funded /\ Backing \in Int /\ Funded' /\ Backing' \in Int /\ r.stake \in Int
      /\ Backing' - Awaiting' >= Backing - Awaiting + (r.stake - val[v].stake - RewardOf(d, v))
  <2>1. Funded' /\ Backing' \in Int /\ Backing' = Backing - RewardOf(d, v)
    BY <1>5, <1>7, TransferFunds DEF Counted
  <2> QED
    BY <1>2, <1>6, <1>7, <1>8, <2>1 DEF Counted
<1>10. \/ StatesCredited(d, v) = StatesSettled(v)
       \/ Delegated(d, v) /\ StatesCredited(d, v) = StatesClaimed(d, v)
  BY DEF StatesCredited
<1>11. 1 \in Nat
  OBVIOUS
<1> QED
  BY <1>2, <1>3, <1>5, <1>6, <1>8, <1>9, <1>10, <1>11, SettledFlows

(* A validator is stored with other amounts.                               *)
LEMMA AdjustedFlows ==
  ASSUME LedgerOK, Counted, NEW v \in Validator, Exists(v), NEW r \in ValidatorRec,
         r.last = val[v].last, r.pool >= val[v].pool, r.stake <= val[v].stake,
         Calling' => r.pool = val[v].pool,
         val' = [val EXCEPT ![v] = r], st' = st,
         \A d \in Delegator : del'[d][v] = del[d][v] \/ del'[d][v] = Nil,
         \A d \in Delegator, w \in Validator : w # v => del'[d][w] = del[d][w],
         IsFiniteSet(und'), Awaiting' \in Int, Funded' /\ Backing' \in Int,
         Backing' - Awaiting' >= Backing - Awaiting + (Kept(r) - Kept(val[v]))
  PROVE  Counted' /\ Flows
<1>1. val'[v] = r /\ \A w \in Validator : w # v => val'[w] = val[w]
  BY DEF LedgerOK
<1>2. \A w \in Validator : w # v => Untouched(w)
  BY <1>1 DEF Untouched
<1>3. r # Nil
  BY NilAssumption
<1>4. Kept(r) \in Int
  BY DEF Kept, ValidatorRec
<1>5. Kept(val[v]) \in Int
  BY HeldTypes
<1>6. PICK x : x = Kept(r) - Kept(val[v])
  OBVIOUS
<1>7. x \in Int
  BY <1>4, <1>5, <1>6
<1>8. Adjusted(v, x)
  BY <1>1, <1>3, <1>6 DEF Adjusted, Exists
<1>9. Fate(v, x)
  BY <1>7, <1>8 DEF Fate
<1>10. Reserve \in Int /\ Reserve' \in Int /\ Reserve' >= Reserve + x
  BY <1>6, AwaitingNat DEF Reserve
<1>11. Counted'
  BY DEF Counted
<1> QED
  BY <1>2, <1>7, <1>9, <1>10, <1>11, FlowsOne

(* What nobody has staked with has no delegators to pay.                   *)
LEMMA NothingAccrues ==
  ASSUME LedgerOK, StakeTrue, AllPositive, NEW v \in Validator, ValidatorStake(v) = 0
  PROVE  AccruedTo(v) = 0
<1>1. PICK f : f = [d \in Delegator |-> Accrued(d, v)]
  OBVIOUS
<1>2. \A d \in Delegator : f[d] = 0
  BY <1>1, NoDelegations DEF Accrued
<1>3. SumFunctionOnSet(f, Delegator) = 0
  BY <1>2, InputAssumption, SumZero
<1> QED
  BY <1>1, <1>3 DEF AccruedTo

(* An empty validator is deleted and its commission paid.                  *)
LEMMA DeletedFlows ==
  ASSUME Sound, Counted, NEW v \in Validator, Exists(v), val[v].stake = 0,
         val' = [val EXCEPT ![v] = Nil], del' = del,
         st' = [st EXCEPT ![v] = Decrement(st[v], val[v].last)],
         IsFiniteSet(und'), Awaiting' \in Int, Funded' /\ Backing' \in Int,
         Backing' - Awaiting' >= Backing - Awaiting - val[v].commissionPool
  PROVE  Counted' /\ Flows
<1>0. LedgerOK /\ StakeTrue /\ AllPositive /\ ValidatorStake(v) = 0 /\ ValidatorMaximumStake \in Nat
  BY ConfigAssumption DEF Sound, ValidatorStake
<1>1. PICK s : s = Decrement(st[v], val[v].last)
  OBVIOUS
<1>2. /\ val'[v] = Nil /\ st'[v] = s
      /\ \A w \in Validator : w # v => val'[w] = val[w] /\ st'[w] = st[w]
  BY <1>0, <1>1 DEF LedgerOK
<1>3. \A w \in Validator : w # v => Untouched(w)
  BY <1>2 DEF Untouched
<1>4. OnlyNew(v)
  <2>1. val[v].last \in Blocks /\ st[v] \in States
    BY <1>0, RecordFields DEF LedgerOK
  <2> QED
    BY <1>1, <1>2, <2>1, DecrementKeeps DEF OnlyNew, Has
<1>5. \A d \in Delegator : ~Delegated(d, v)'
  <2>1. \A d \in Delegator : ~Delegated(d, v)
    BY <1>0, NoDelegations
  <2> QED
    BY <2>1 DEF Delegated
<1>6. PICK x, m, p, c : x = -c /\ m = ValidatorMaximumStake /\ p = val[v].pool /\ c = val[v].commissionPool
  OBVIOUS
<1>7. p \in Nat /\ c \in Nat /\ m \in Nat /\ x \in Int
  BY <1>0, <1>6, RecordFields
<1>8. m * x + Held(v) >= 0
  <2>1. Held(v) = m * (0 + c + p) + 0
    BY <1>0, <1>6, NothingAccrues DEF Held, Kept
  <2>2. m * (-c) + (m * (0 + c + p) + 0) = m * p /\ m * p >= 0
    BY <1>7
  <2> QED
    BY <1>6, <2>1, <2>2
<1>9. Fate(v, x)
  BY <1>2, <1>4, <1>5, <1>6, <1>7, <1>8 DEF Fate, Removed, Exists
<1>10. Reserve \in Int /\ Reserve' \in Int /\ Reserve' >= Reserve + x
  BY <1>0, <1>6, <1>7, AwaitingNat DEF Reserve
<1>11. Counted'
  BY DEF Counted
<1> QED
  BY <1>3, <1>7, <1>9, <1>10, <1>11, FlowsOne

(* Validators, delegations and states stay.                                *)
LEMMA QuietFlows ==
  ASSUME LedgerOK, Counted, val' = val, del' = del, st' = st,
         IsFiniteSet(und'), Awaiting' \in Int, Funded' /\ Backing' \in Int, Backing' - Awaiting' = Backing - Awaiting
  PROVE  Counted' /\ Flows
<1>1. \A v \in Validator : Untouched(v)
  BY DEF Untouched
<1>2. Reserve \in Int /\ Reserve' = Reserve
  BY AwaitingNat DEF Reserve
<1>3. Counted'
  BY DEF Counted
<1> QED
  BY <1>1, <1>2, <1>3, FlowsNone

(* confirmUndelegate.                                                      *)
LEMMA ConfirmFlows ==
  ASSUME Sound, Counted, NEW u \in und, confirmUndelegate(u)
  PROVE  Counted' /\ Flows
<1>0. /\ LedgerOK /\ del' = del /\ und' = und \ {u}
      /\ transferContractBalance(u.delegator, 0, u.amount)
  BY DEF Sound, confirmUndelegate
<1>1. PICK v : v = u.validator
  OBVIOUS
<1>2. v \in Validator
  BY <1>0, <1>1 DEF LedgerOK, UndelegationRec
<1>3. /\ IsFiniteSet(und') /\ Awaiting' \in Int /\ Awaiting' = Awaiting - u.amount /\ Awaiting \in Nat
      /\ u.amount \in Nat /\ Funded /\ Backing \in Int
  BY <1>0, AwaitingFalls, AwaitingNat DEF Counted
<1>4. Funded' /\ Backing' \in Int /\ Backing' - Awaiting' = Backing - Awaiting /\ Backing - Awaiting \in Int
  <2>1. Funded' /\ Backing' \in Int /\ Backing' = Backing - u.amount
    BY <1>0, <1>3, TransferFunds
  <2> QED
    BY <1>3, <2>1
<1>5. CASE Exists(v) /\ Dec(val[v].undelegations) = 0 /\ val[v].stake = 0 /\ val[v].commissionPool = 0
  <2>1. val' = [val EXCEPT ![v] = Nil] /\ st' = [st EXCEPT ![v] = Decrement(st[v], val[v].last)]
    BY <1>1, <1>5 DEF confirmUndelegate, DeleteValidator
  <2>2. Backing' - Awaiting' >= Backing - Awaiting - val[v].commissionPool
    BY <1>4, <1>5
  <2> QED
    BY <1>0, <1>2, <1>3, <1>4, <1>5, <2>1, <2>2, DeletedFlows
<1>6. CASE ~(Exists(v) /\ Dec(val[v].undelegations) = 0 /\ val[v].stake = 0 /\ val[v].commissionPool = 0)
  <2>1. /\ val' = IF Exists(v) THEN [val EXCEPT ![v].undelegations = Dec(val[v].undelegations)] ELSE val
        /\ st' = st
    BY <1>1, <1>6 DEF confirmUndelegate
  <2>2. CASE Exists(v)
    <3>1. PICK r : r = [val[v] EXCEPT !.undelegations = Dec(val[v].undelegations)]
      OBVIOUS
    <3>2. val[v] \in ValidatorRec
      BY <1>0, <1>2, <2>2 DEF LedgerOK, Exists, BoundedRec
    <3>3. Dec(val[v].undelegations) \in Nat
      BY <3>2 DEF Dec, ValidatorRec
    <3>4. /\ r \in ValidatorRec /\ r.last = val[v].last /\ r.pool = val[v].pool
          /\ r.stake = val[v].stake /\ r.commissionPool = val[v].commissionPool
          /\ r.stake \in Int /\ r.pool \in Int /\ r.commissionPool \in Int
      BY <3>1, <3>2, <3>3 DEF ValidatorRec
    <3>5. val' = [val EXCEPT ![v] = r]
      BY <1>0, <1>2, <2>1, <2>2, <3>1 DEF LedgerOK
    <3>6. Kept(r) - Kept(val[v]) = 0
      BY <3>4 DEF Kept
    <3>7. Backing' - Awaiting' >= Backing - Awaiting + (Kept(r) - Kept(val[v]))
      BY <1>4, <3>6
    <3>8. r.pool >= val[v].pool /\ r.stake <= val[v].stake
      BY <3>4
    <3> QED
      BY <1>0, <1>2, <1>3, <1>4, <2>1, <2>2, <3>4, <3>5, <3>7, <3>8, AdjustedFlows
  <2>3. CASE ~Exists(v)
    BY <1>0, <1>3, <1>4, <2>1, <2>3, QuietFlows
  <2> QED
    BY <2>2, <2>3
<1> QED
  BY <1>5, <1>6

(* The queue of undelegations stays.                                       *)
LEMMA QueueKept ==
  ASSUME LedgerOK, Counted, und' = und
  PROVE  IsFiniteSet(und') /\ Awaiting' = Awaiting /\ Awaiting \in Int /\ Funded /\ Backing \in Int
<1>1. Awaiting' = Awaiting
  BY DEF Awaiting
<1> QED
  BY <1>1, AwaitingNat DEF Counted

(* claimCommissionRewards and setCommission.                               *)
LEMMA CommissionFlows ==
  ASSUME Sound, Counted, NEW d \in Delegator, NEW v \in Validator, NEW c \in Nat,
         claimCommissionRewards(d, v) \/ setCommission(d, v, c)
  PROVE  Counted' /\ Flows
<1>0. LedgerOK /\ block \in Blocks /\ Exists(v) /\ del' = del /\ und' = und
  BY DEF Sound, claimCommissionRewards, setCommission
<1>1. PICK o : o = val[v]
  OBVIOUS
<1>2. o \in ValidatorRec /\ o.commissionPool \in Nat /\ o.stake \in Int /\ o.pool \in Nat
  BY <1>0, <1>1 DEF LedgerOK, Exists, BoundedRec, ValidatorRec
<1>3. IsFiniteSet(und') /\ Awaiting' = Awaiting /\ Awaiting \in Int /\ Funded /\ Backing \in Int
  BY <1>0, QueueKept
<1>4. CASE claimCommissionRewards(d, v)
  <2>0. Funded' /\ Backing' \in Int /\ Backing' = Backing - o.commissionPool
    <3>1. transferContractBalance(d, 0, o.commissionPool)
      BY <1>1, <1>4 DEF claimCommissionRewards
    <3> QED
      BY <1>2, <1>3, <3>1, TransferFunds
  <2>1. Funded' /\ Backing' \in Int /\ Backing' - Awaiting' >= Backing - Awaiting - o.commissionPool
    BY <1>2, <1>3, <2>0
  <2>2. CASE val[v].stake = 0 /\ val[v].undelegations = 0
    <3>1. val' = [val EXCEPT ![v] = Nil] /\ st' = [st EXCEPT ![v] = Decrement(st[v], val[v].last)]
      BY <1>4, <2>2 DEF claimCommissionRewards, DeleteValidator
    <3> QED
      BY <1>0, <1>1, <1>3, <2>1, <2>2, <3>1, DeletedFlows
  <2>3. CASE ~(val[v].stake = 0 /\ val[v].undelegations = 0)
    <3>1. val' = [val EXCEPT ![v].commissionPool = 0] /\ st' = st
      BY <1>4, <2>3 DEF claimCommissionRewards
    <3>2. PICK r : r = [o EXCEPT !.commissionPool = 0]
      OBVIOUS
    <3>3. /\ r \in ValidatorRec /\ r.last = o.last /\ r.pool = o.pool /\ r.stake = o.stake
          /\ r.commissionPool = 0
      BY <1>2, <3>2 DEF ValidatorRec
    <3>4. val' = [val EXCEPT ![v] = r]
      BY <1>0, <1>1, <3>1, <3>2 DEF LedgerOK
    <3>5. Kept(r) - Kept(o) = -o.commissionPool
      BY <1>2, <3>3 DEF Kept
    <3>6. Backing' - Awaiting' >= Backing - Awaiting + (Kept(r) - Kept(o))
      BY <1>2, <1>3, <2>1, <3>5
    <3>7. r.pool >= o.pool /\ r.stake <= o.stake
      BY <1>2, <3>3
    <3> QED
      BY <1>0, <1>1, <1>3, <2>1, <3>1, <3>3, <3>4, <3>6, <3>7, AdjustedFlows
  <2> QED
    BY <2>2, <2>3
<1>5. CASE setCommission(d, v, c)
  <2>1. /\ val' = [val EXCEPT ![v].commission = c, ![v].lastCommissionChange = block] /\ st' = st
        /\ Funded' /\ Backing' \in Int /\ Backing' = Backing
    BY <1>5, FundsKept DEF setCommission
  <2>2. PICK r : r = [o EXCEPT !.commission = c, !.lastCommissionChange = block]
    OBVIOUS
  <2>3. c \in 0..MaxCommission
    <3>1. c <= MaxCommission
      BY <1>5 DEF setCommission
    <3> QED
      BY <3>1 DEF MaxCommission, BasisPointsScale
  <2>4. /\ r \in ValidatorRec /\ r.last = o.last /\ r.pool = o.pool /\ r.stake = o.stake
        /\ r.commissionPool = o.commissionPool
    BY <1>0, <1>2, <2>2, <2>3 DEF ValidatorRec
  <2>5. val' = [val EXCEPT ![v] = r]
    BY <1>0, <1>1, <2>1, <2>2 DEF LedgerOK
  <2>6. Kept(r) - Kept(o) = 0
    BY <1>2, <2>4 DEF Kept
  <2>7. Funded' /\ Backing' \in Int /\ Backing' - Awaiting' >= Backing - Awaiting + (Kept(r) - Kept(o))
    BY <1>3, <2>1, <2>6
  <2>8. r.pool >= o.pool /\ r.stake <= o.stake
    BY <1>2, <2>4
  <2> QED
    BY <1>0, <1>1, <1>3, <2>1, <2>4, <2>5, <2>7, <2>8, AdjustedFlows
<1> QED
  BY <1>4, <1>5

(* Rewards come with their tokens.                                         *)
LEMMA RewardFlows ==
  ASSUME LedgerOK, Counted, NEW v \in Validator, Exists(v), NEW reward \in Nat, NEW fees \in Nat,
         AddValidatorRewards(v, reward, fees), st' = st, del' = del, und' = und, astray' = astray, ~Calling'
  PROVE  Counted' /\ Flows
<1>0. PICK o : o = val[v]
  OBVIOUS
<1>1. o \in ValidatorRec /\ o.commissionPool \in Nat /\ o.stake \in Int /\ o.pool \in Nat
  BY <1>0 DEF LedgerOK, Exists, BoundedRec, ValidatorRec
<1>2. PICK c : c = (reward * val[v].commission) \div MaxCommission
  OBVIOUS
<1>3. c \in 0..reward
  <2>1. val[v].commission \in 0..MaxCommission
    BY <1>0, <1>1 DEF ValidatorRec
  <2> QED
    BY <1>2, <2>1, ShareBound
<1>4. PICK p, q : p = o.commissionPool + c + fees /\ q = o.pool + (reward - c)
  OBVIOUS
<1>5. p \in Nat /\ q \in Nat /\ q >= o.pool /\ p + q = o.commissionPool + o.pool + reward + fees
  BY <1>1, <1>3, <1>4
<1>6. PICK r : r = [o EXCEPT !.commissionPool = p, !.pool = q]
  OBVIOUS
<1>7. r \in ValidatorRec /\ r.last = o.last /\ r.stake = o.stake /\ r.commissionPool = p /\ r.pool = q
  BY <1>1, <1>5, <1>6 DEF ValidatorRec
<1>8. val' = [val EXCEPT ![v] = r]
  BY <1>0, <1>2, <1>4, <1>6 DEF AddValidatorRewards, LedgerOK
<1>9. Funded' /\ Backing' \in Int /\ Backing' = Backing + reward + fees
  BY DEF AddValidatorRewards, Counted, Funded, Backing
<1>10. IsFiniteSet(und') /\ Awaiting' = Awaiting /\ Awaiting \in Int /\ Funded /\ Backing \in Int
  BY QueueKept
<1>11. Kept(r) - Kept(o) = reward + fees
  BY <1>1, <1>5, <1>7 DEF Kept
<1>12. Funded' /\ Backing' \in Int /\ Backing' - Awaiting' >= Backing - Awaiting + (Kept(r) - Kept(o))
  BY <1>9, <1>10, <1>11
<1>13. r.pool >= o.pool /\ r.stake <= o.stake
  BY <1>1, <1>5, <1>7
<1> QED
  BY <1>0, <1>7, <1>8, <1>10, <1>12, <1>13, AdjustedFlows

(* undelegateInternal moves a delegation to the queue.                     *)
LEMMA EvictionFlows ==
  ASSUME IInv, Counted, NEW d \in Delegator, undelegateInternal(d)
  PROVE  Counted' /\ Flows
<1>0. LedgerOK
  BY DEF IInv
<1>1. PICK v \in Validator : v = loop.current /\ Exists(v) /\ Delegated(d, v) /\ del[d][v].stake \in Nat
  BY EvictionMoves
<1>2. PICK r, o, amount : r = WithoutDelegation(v, amount) /\ o = val[v] /\ amount = del[d][v].stake
  OBVIOUS
<1>3. /\ val' = [val EXCEPT ![v] = r] /\ del' = [del EXCEPT ![d][v] = Nil] /\ st' = st
      /\ Funded' /\ Backing' \in Int /\ Backing' = Backing
  BY <1>1, <1>2, FundsKept DEF undelegateInternal
<1>4. o \in ValidatorRec /\ amount \in Nat
  BY <1>0, <1>1, <1>2 DEF LedgerOK, Exists, BoundedRec
<1>5. o.stake \in Int /\ o.pool \in Int /\ o.commissionPool \in Int /\ o.undelegations \in Nat
  BY <1>4 DEF ValidatorRec
<1>6. PICK p, q : p = o.stake - amount /\ q = Inc(o.undelegations)
  OBVIOUS
<1>7. p \in Int /\ q \in Nat
  BY <1>4, <1>5, <1>6, ConfigAssumption DEF Inc
<1>8. /\ r \in ValidatorRec /\ r.last = o.last /\ r.pool = o.pool /\ r.stake = p
      /\ r.commissionPool = o.commissionPool
  <2>1. r = [o EXCEPT !.stake = p, !.undelegations = q]
    BY <1>2, <1>6 DEF WithoutDelegation
  <2> QED
    BY <1>4, <1>7, <2>1 DEF ValidatorRec
<1>9. /\ \A e \in Delegator : del'[e][v] = del[e][v] \/ del'[e][v] = Nil
      /\ \A e \in Delegator, w \in Validator : w # v => del'[e][w] = del[e][w]
  BY <1>0, <1>1, <1>3 DEF LedgerOK
<1>10. PICK u : u = [delegator |-> d, validator |-> v, id |-> lastId[d] + 1, amount |-> amount,
                     block |-> block]
  OBVIOUS
<1>11. und' = und \cup {u} /\ u.amount = amount
  BY <1>1, <1>2, <1>10 DEF undelegateInternal
<1>12. IsFiniteSet(und') /\ Awaiting' \in Nat /\ Awaiting' <= Awaiting + amount /\ Awaiting \in Nat
  BY <1>0, <1>4, <1>11, AwaitingGrows, AwaitingNat
<1>13. Kept(r) - Kept(o) = -amount
  BY <1>4, <1>5, <1>6, <1>8 DEF Kept
<1>14. /\ Funded' /\ Backing' \in Int /\ Backing' - Awaiting' >= Backing - Awaiting + (Kept(r) - Kept(o))
       /\ Awaiting' \in Int
  BY <1>3, <1>4, <1>12, <1>13 DEF Counted
<1>15. r.pool >= o.pool /\ r.stake <= o.stake
  BY <1>4, <1>5, <1>6, <1>8
<1> QED
  BY <1>0, <1>1, <1>2, <1>3, <1>8, <1>9, <1>12, <1>14, <1>15, AdjustedFlows

(* registerValidatorWithoutChecks.                                         *)
LEMMA RegisterFlows ==
  ASSUME Sound, Counted, NEW owner \in Delegator, NEW v \in Validator, NEW amount \in Nat,
         NEW c \in Nat, registerValidatorWithoutChecks(v, owner, amount, c)
  PROVE  Counted' /\ Flows
<1>0. /\ LedgerOK /\ block \in Blocks /\ ~Exists(v) /\ del[owner][v] = Nil
      /\ und' = und /\ transferContractBalance(owner, amount, 0)
  BY DEF Sound, registerValidatorWithoutChecks, Delegated
<1>1. PICK r : r = [stake |-> amount, commission |-> c, lastCommissionChange |-> block, last |-> block,
                    undelegations |-> 0, pool |-> 0, commissionPool |-> 0, owner |-> owner]
  OBVIOUS
<1>2. PICK n : n = IF amount > 0 THEN 2 ELSE 1
  OBVIOUS
<1>3. PICK s : s = [rps |-> 0, count |-> n]
  OBVIOUS
<1>4. /\ val' = [val EXCEPT ![v] = r] /\ st' = [st EXCEPT ![v][block] = s]
      /\ del' = IF amount > 0 THEN [del EXCEPT ![owner][v] = [stake |-> amount, last |-> block]] ELSE del
  BY <1>1, <1>2, <1>3 DEF registerValidatorWithoutChecks
<1>5. /\ val'[v] = r /\ \A w \in Validator : w # v => val'[w] = val[w] /\ st'[w] = st[w]
      /\ \A b \in Blocks : b # block => st'[v][b] = st[v][b]
  BY <1>0, <1>4 DEF LedgerOK, States
<1>6. /\ \A e \in Delegator, w \in Validator : ~(e = owner /\ w = v) => del'[e][w] = del[e][w]
      /\ del'[owner][v] = IF amount > 0 THEN [stake |-> amount, last |-> block] ELSE Nil
  BY <1>0, <1>4 DEF LedgerOK
<1>7. \A w \in Validator : w # v => Untouched(w)
  BY <1>5, <1>6 DEF Untouched
<1>8. \A d \in Delegator : Delegated(d, v)' => del'[d][v].last = block
  <2>1. \A d \in Delegator : ~Delegated(d, v)
    BY <1>0, NoDelegations DEF Sound, ValidatorStake
  <2> QED
    BY <1>6, <2>1 DEF Delegated
<1>9. r.last = block /\ r.pool = 0 /\ Kept(r) = amount
  BY <1>1 DEF Kept
<1>10. Exists(v)'
  <2>1. c \in 0..MaxCommission
    <3>1. c <= MaxCommission
      BY DEF registerValidatorWithoutChecks
    <3> QED
      BY <3>1 DEF MaxCommission, BasisPointsScale
  <2>2. r \in ValidatorRec
    BY <1>0, <1>1, <2>1 DEF ValidatorRec
  <2> QED
    BY <1>5, <2>2, NilAssumption DEF Exists
<1>11. OnlyNew(v)
  BY <1>5 DEF OnlyNew, Has
<1>12. Fate(v, amount)
  BY <1>0, <1>5, <1>8, <1>9, <1>10, <1>11 DEF Fate, Created
<1>13. /\ IsFiniteSet(und') /\ Awaiting' = Awaiting /\ Awaiting \in Int /\ Funded /\ Backing \in Int
  BY <1>0, QueueKept
<1>14. Funded' /\ Backing' \in Int /\ Reserve \in Int /\ Reserve' \in Int /\ Reserve' >= Reserve + amount
  <2>1. Funded' /\ Backing' \in Int /\ Backing' = Backing + amount
    BY <1>0, <1>13, TransferFunds
  <2> QED
    BY <1>13, <2>1 DEF Reserve
<1>15. Counted'
  BY <1>13, <1>14 DEF Counted
<1>16. amount \in Int
  OBVIOUS
<1> QED
  BY <1>7, <1>12, <1>14, <1>15, <1>16, FlowsOne

(* claimRewards and claimAllRewards.                                       *)
LEMMA ClaimFlows ==
  ASSUME Sound, Counted, AllFresh, Calling, NEW d \in Delegator, NEW from \in SUBSET Validator,
         ClaimFrom(d, from),
         \/ transferContractBalance(d, 0, RewardsFrom(d, from))
         \/ UndoneTransfer(0, RewardsFrom(d, from))
  PROVE  Counted' /\ Flows
<1>0. LedgerOK /\ block \in Blocks /\ StakeTrue /\ AllPositive /\ und' = und
  BY DEF Sound, ClaimFrom
<1>1. /\ \A w \in Validator : st'[w] = IF w \in from THEN PutState(StatesClaimed(d, w), w, 1) ELSE st[w]
      /\ \A w \in Validator : val'[w] = IF w \in from THEN ValSettled(w) ELSE val[w]
  BY DEF ClaimFrom
<1>2. \A e \in Delegator, w \in Validator :
          del'[e][w] = IF e = d /\ w \in from THEN [stake |-> del[e][w].stake, last |-> block]
                       ELSE del[e][w]
  BY <1>0 DEF ClaimFrom, LedgerOK
<1>3. PICK f, h, g, z : /\ f = [v \in from |-> Reward(d, v)]
                        /\ h = [v \in Validator |-> IF v \in from THEN Reward(d, v) ELSE 0]
                        /\ g = [v \in Validator |-> -h[v]] /\ z = [v \in Validator |-> 0]
  OBVIOUS
<1>4. ASSUME NEW v \in from PROVE Reward(d, v) \in Int /\ Fate(v, -Reward(d, v))
  <2>0. v \in Validator /\ FreshAt(v)
    BY DEF AllFresh
  <2>1. Delegated(d, v) /\ CanClaim(d, v) /\ CanSettle(v)
    BY DEF ClaimFrom, CanClaim
  <2>2. Exists(v)
    BY <1>0, <2>0, <2>1, NoDelegations DEF ValidatorStake
  <2>3. val[v].stake \in Nat
    BY <1>0, <2>0, <2>2, StakeNat
  <2>4. RewardOf(d, v) \in Int /\ RewardOf(d, v) = Reward(d, v)
    BY <1>0, <2>0, <2>1, <2>2, <2>3, RewardPaid DEF RewardOf
  <2>5. val'[v] = ValSettled(v) /\ st'[v] = PutState(StatesClaimed(d, v), v, 1)
    BY <1>1, <2>0
  <2>6. /\ val'[v] \in ValidatorRec /\ val'[v].last = block /\ val'[v].pool = 0
        /\ val'[v].stake = val[v].stake /\ val'[v].commissionPool = val[v].commissionPool
    BY <1>0, <2>0, <2>1, <2>2, <2>5, ValSettledIs
  <2>7. val'[v] # Nil /\ val'[v].stake \in Int
    BY <2>3, <2>6, NilAssumption
  <2>8. del'[d][v].last = block /\ \A e \in Delegator : e # d => del'[e][v] = del[e][v]
    <3>1. del'[d][v] = [stake |-> del[d][v].stake, last |-> block]
      BY <1>2, <2>0
    <3>2. \A e \in Delegator : e # d => del'[e][v] = del[e][v]
      BY <1>2, <2>0
    <3> QED
      BY <3>1, <3>2
  <2>9. PICK x : x = val'[v].stake - val[v].stake - RewardOf(d, v)
    OBVIOUS
  <2>10. x = -Reward(d, v)
    BY <2>3, <2>4, <2>6, <2>9
  <2>11. 1 \in Nat
    OBVIOUS
  <2>12. Fate(v, x)
    BY <2>0, <2>1, <2>2, <2>5, <2>6, <2>7, <2>8, <2>9, <2>11, StoredSettles
  <2> QED
    BY <2>4, <2>10, <2>12, Zenon
<1>5. /\ \A v \in Validator : /\ h[v] \in Int /\ g[v] \in Int /\ z[v] \in Int
                               /\ z[v] = 0 /\ g[v] = z[v] + (-1) * h[v]
      /\ \A v \in from : f[v] \in Int /\ h[v] = f[v]
      /\ \A v \in Validator \ from : h[v] = 0
  <2>1. \A v \in Validator : h[v] \in Int
    BY <1>3, <1>4
  <2> QED
    BY <1>3, <2>1
<1>6. ASSUME NEW v \in Validator PROVE Fate(v, g[v])
  <2>1. CASE v \in from
    <3>1. g[v] = -Reward(d, v)
      BY <1>3, <2>1
    <3> QED
      BY <1>4, <2>1, <3>1, Zenon
  <2>2. CASE v \notin from
    <3>1. g[v] = 0
      BY <1>5, <2>2
    <3>2. Untouched(v)
      BY <1>1, <1>2, <2>2 DEF Untouched
    <3>3. Fate(v, 0)
      BY <3>2 DEF Fate
    <3> QED
      BY <3>1, <3>3, Zenon
  <2> QED
    BY <2>1, <2>2
<1>7. PICK F : F = SumFunctionOnSet(f, from)
  OBVIOUS
<1>8. SumFunctionOnSet(g, Validator) = -F /\ F \in Int
  <2>0. IsFiniteSet(Validator) /\ IsFiniteSet(from) /\ IsFiniteSet(Validator \ from)
    BY InputAssumption, FS_Subset
  <2>1. SumFunctionOnSet(h, Validator) = SumFunctionOnSet(h, from) + SumFunctionOnSet(h, Validator \ from)
    BY <1>5, <2>0, SumSplit
  <2>2. SumFunctionOnSet(h, from) = F /\ F \in Int
    BY <1>5, <1>7, <2>0, SumSame, SumInt
  <2>3. SumFunctionOnSet(h, Validator \ from) = 0
    BY <1>5, <2>0, SumZero
  <2>4. SumFunctionOnSet(g, Validator)
          = SumFunctionOnSet(z, Validator) + (-1) * SumFunctionOnSet(h, Validator)
    <3>1. -1 \in Int
      OBVIOUS
    <3>2. /\ \A v \in Validator : z[v] \in Int
          /\ \A v \in Validator : h[v] \in Int
          /\ \A v \in Validator : g[v] = z[v] + (-1) * h[v]
      BY <1>5, Zenon
    <3> QED
      BY <2>0, <3>1, <3>2, SumLinear
  <2>5. SumFunctionOnSet(z, Validator) = 0
    BY <1>5, <2>0, SumZero
  <2> QED
    BY <2>1, <2>2, <2>3, <2>4, <2>5
<1>9. Funded' /\ Backing' \in Int /\ Backing' = Backing - F
  <2>1. F = RewardsFrom(d, from)
    BY <1>3, <1>7 DEF RewardsFrom
  <2>2. transferContractBalance(d, 0, F) \/ UndoneTransfer(0, F)
    BY <2>1
  <2> QED
    BY <1>8, <2>2, TransferFunds DEF Counted
<1>10. IsFiniteSet(und') /\ Awaiting' = Awaiting /\ Awaiting \in Int /\ Funded /\ Backing \in Int
  BY <1>0, QueueKept
<1>11. Funded' /\ Backing' \in Int /\ Reserve' >= Reserve + SumFunctionOnSet(g, Validator)
  BY <1>8, <1>9, <1>10 DEF Reserve
<1>12. Counted'
  BY <1>10, <1>11 DEF Counted
<1>13. g \in [Validator -> Int]
  BY <1>3, <1>5
<1> QED
  BY <1>6, <1>11, <1>12, <1>13 DEF Flows

(* Two validators change.                                                  *)
LEMMA FlowsTwo ==
  ASSUME NEW v \in Validator, NEW w \in Validator, v # w, NEW x \in Int, NEW y \in Int,
         Fate(v, x), Fate(w, y), \A u \in Validator : u # v /\ u # w => Untouched(u),
         Reserve \in Int, Reserve' \in Int, Reserve' >= Reserve + x + y
  PROVE  Flows
<1>1. PICK g, h, z : /\ g = [u \in Validator |-> IF u = v THEN x ELSE IF u = w THEN y ELSE 0]
                     /\ h = [u \in Validator |-> IF u = v THEN x ELSE 0]
                     /\ z = [u \in Validator |-> 0]
  OBVIOUS
<1>2. g \in [Validator -> Int]
  BY <1>1
<1>3. ASSUME NEW u \in Validator PROVE Fate(u, g[u])
  <2>1. CASE u = v
    BY <1>1, <2>1
  <2>2. CASE u = w
    BY <1>1, <2>2
  <2>3. CASE u # v /\ u # w
    <3>1. g[u] = 0 /\ Untouched(u)
      BY <1>1, <2>3
    <3>2. Fate(u, 0)
      BY <3>1 DEF Fate
    <3> QED
      BY <3>1, <3>2, Zenon
  <2> QED
    BY <2>1, <2>2, <2>3
<1>4. SumFunctionOnSet(g, Validator) = x + y
  <2>1. /\ \A u \in Validator : z[u] \in Int /\ h[u] \in Int /\ g[u] \in Int /\ z[u] = 0
        /\ \A u \in Validator \ {v} : h[u] = z[u]
        /\ \A u \in Validator \ {w} : g[u] = h[u]
    BY <1>1
  <2>2. SumFunctionOnSet(z, Validator) = 0
    BY <2>1, InputAssumption, SumZero
  <2>3. SumFunctionOnSet(h, Validator) = SumFunctionOnSet(z, Validator) + h[v] - z[v]
    BY <2>1, InputAssumption, SumChange
  <2>4. SumFunctionOnSet(g, Validator) = SumFunctionOnSet(h, Validator) + g[w] - h[w]
    BY <2>1, InputAssumption, SumChange
  <2>5. h[v] = x /\ z[v] = 0 /\ g[w] = y /\ h[w] = 0
    BY <1>1
  <2> QED
    BY <2>2, <2>3, <2>4, <2>5
<1>5. Reserve' >= Reserve + SumFunctionOnSet(g, Validator)
  BY <1>4
<1> QED
  BY <1>2, <1>3, <1>5 DEF Flows

(* Validator f, whose stake is redelegated.                                *)
LEMMA LeftFate ==
  ASSUME Sound, Sound', AllFresh, NEW d \in Delegator, NEW f \in Validator, NEW t \in Validator,
         NEW amount \in Nat, redelegate(d, f, t, amount), "redelegate" \notin defects',
         val'[f] = ValLeft(f, amount), st'[f] = StatesLeft(d, f, amount),
         del'[d][f] = Debited(d, f, amount), \A e \in Delegator : e # d => del'[e][f] = del[e][f],
         NEW x, x = -amount - Reward(d, f)
  PROVE  x \in Int /\ Reward(d, f) \in Int /\ Fate(f, x)
<1>0. /\ LedgerOK /\ block \in Blocks /\ Exists(f) /\ CanClaim(d, f) /\ MayWithdraw(d, f, amount)
      /\ CanSettle(f) /\ Delegated(d, f) /\ StakeTrue /\ AllPositive /\ FreshAt(f) /\ Calling
  BY DEF Sound, AllFresh, redelegate, CanClaim, MayWithdraw, Call, Calling
<1>1. PICK o : o = val[f]
  OBVIOUS
<1>2. o \in ValidatorRec /\ o.stake \in Nat /\ o.pool \in Nat /\ o.commissionPool \in Nat
  BY <1>0, <1>1, StakeNat DEF LedgerOK, Exists, BoundedRec, ValidatorRec
<1>3. /\ RewardOf(d, f) \in Int /\ RewardOf(d, f) = Reward(d, f)
      /\ ValidatorMaximumStake * RewardOf(d, f) <= Accrued(d, f) + Share(f) * StakeOf(d, f)
  BY <1>0, <1>1, <1>2, RewardPaid DEF RewardOf
<1>4. x \in Int
  BY <1>3
<1>5. CASE ~EmptyAfter(f, amount)
  <2>1. PICK n : n = KeepsDelegation(d, f, amount)
    OBVIOUS
  <2>2. st'[f] = PutState(StatesClaimed(d, f), f, n) /\ n \in Nat
    BY <1>5, <2>1 DEF StatesLeft, KeepsDelegation
  <2>3. PICK s : s = ValSettled(f)
    OBVIOUS
  <2>4. /\ s \in ValidatorRec /\ s.last = block /\ s.pool = 0 /\ s.stake = o.stake
        /\ s.commissionPool = o.commissionPool
    BY <1>0, <1>1, <2>3, ValSettledIs
  <2>5. val'[f] = [s EXCEPT !.stake = s.stake - amount]
    BY <1>5, <2>3 DEF ValLeft
  <2>6. s.stake - amount \in Int
    BY <1>2, <2>4
  <2>7. /\ val'[f] \in ValidatorRec /\ val'[f].last = block /\ val'[f].pool = 0
        /\ val'[f].stake = s.stake - amount /\ val'[f].commissionPool = o.commissionPool
    BY <2>4, <2>5, <2>6 DEF ValidatorRec
  <2>8. val'[f] # Nil /\ val'[f].stake \in Int
    BY <2>6, <2>7, NilAssumption
  <2>9. x = val'[f].stake - val[f].stake - RewardOf(d, f)
    BY <1>1, <1>2, <1>3, <2>4, <2>7
  <2>10. del'[d][f] # Nil => del'[d][f].last = block
    BY <1>0, DelFields
  <2>11. Fate(f, x)
    BY <1>0, <1>1, <2>2, <2>7, <2>8, <2>9, <2>10, StoredSettles
  <2> QED
    BY <1>3, <1>4, <2>11
<1>6. CASE EmptyAfter(f, amount)
  <2>1. /\ ValidatorStake(f) = amount /\ StakeOf(d, f) = del[d][f].stake /\ amount <= del[d][f].stake
        /\ o.stake = amount /\ o.commissionPool = 0
    BY <1>0, <1>1, <1>6 DEF EmptyAfter, ValidatorStake, StakeOf, MayWithdraw
  <2>2. /\ \A e \in Delegator : e # d => ~Delegated(e, f)
        /\ StakeOf(d, f) = amount
    BY <1>0, <2>1, OnlyDelegator
  <2>3. \A e \in Delegator : del'[e][f] = Nil
    BY <2>1, <2>2 DEF Debited, Delegated
  <2>4. CASE val[f].undelegations = 0
    <3>1. val'[f] = Nil /\ st'[f] = [StatesClaimed(d, f) EXCEPT ![block] = NoState]
      BY <1>6, <2>4 DEF ValLeft, StatesLeft
    <3>2. OnlyNew(f)
      <4>1. PICK s : s = StatesClaimed(d, f)
        OBVIOUS
      <4>2. s \in States
        BY <1>0, <4>1, ClaimTypes
      <4>3. \A b \in Blocks : s[b].count > 0 => Has(f, b)
        BY <1>0, <4>1, SettledKeeps
      <4>4. \A b \in Blocks : b # block => st'[f][b] = s[b]
        BY <3>1, <4>1, <4>2 DEF States
      <4> QED
        BY <4>3, <4>4 DEF OnlyNew, Has
    <3>3. \A e \in Delegator : ~Delegated(e, f)'
      BY <2>3 DEF Delegated
    <3>4. AccruedTo(f) = Accrued(d, f) /\ Accrued(d, f) \in Int
      <4>1. PICK a, z : a = [e \in Delegator |-> Accrued(e, f)] /\ z = [e \in Delegator |-> 0]
        OBVIOUS
      <4>2. /\ \A e \in Delegator : a[e] \in Int /\ z[e] \in Int /\ z[e] = 0
            /\ \A e \in Delegator \ {d} : a[e] = z[e]
        <5>1. \A e \in Delegator : Accrued(e, f) \in Int
          BY <1>0, HeldTypes
        <5>2. \A e \in Delegator \ {d} : Accrued(e, f) = 0
          BY <2>2 DEF Accrued
        <5> QED
          BY <4>1, <5>1, <5>2
      <4>3. SumFunctionOnSet(z, Delegator) = 0
        BY <4>2, InputAssumption, SumZero
      <4>4. SumFunctionOnSet(a, Delegator) = SumFunctionOnSet(z, Delegator) + a[d] - z[d]
        BY <4>2, InputAssumption, SumChange
      <4>5. a[d] = Accrued(d, f) /\ a[d] \in Int /\ z[d] = 0
        BY <4>1, <4>2
      <4>6. SumFunctionOnSet(a, Delegator) = a[d]
        BY <4>3, <4>4, <4>5
      <4> QED
        BY <4>1, <4>5, <4>6 DEF AccruedTo
    <3>5. PICK m, p, w, c, q : /\ m = ValidatorMaximumStake /\ p = o.pool /\ w = Reward(d, f)
                               /\ c = Accrued(d, f) /\ q = Share(f) * amount
      OBVIOUS
    <3>6. m \in Nat /\ p \in Nat /\ w \in Int /\ c \in Int
      BY <1>2, <1>3, <3>4, <3>5, ConfigAssumption
    <3>7. q \in Int /\ q <= m * p /\ m * w <= c + q
      <4>1. Share(f) \in Nat /\ Share(f) * o.stake <= ValidatorMaximumStake * o.pool
        BY <1>0, <1>1, <1>2, SettledIs
      <4>2. q \in Int
        BY <3>5, <4>1
      <4> QED
        BY <1>3, <2>1, <2>2, <3>5, <4>1, <4>2
    <3>8. Held(f) = m * (amount + 0 + p) + c
      BY <1>0, <1>1, <2>1, <3>4, <3>5 DEF Held, Kept
    <3>9. m * x + Held(f) >= 0
      <4>1. m * (-amount - w) + m * (amount + 0 + p) = m * p - m * w
        BY <3>6
      <4>2. m * (-amount - w) \in Int /\ m * (amount + 0 + p) \in Int /\ m * p \in Int /\ m * w \in Int
        BY <3>6
      <4>3. m * p - m * w + c >= 0
        BY <3>6, <3>7, <4>2
      <4>4. m * x = m * (-amount - w)
        BY <3>5
      <4> QED
        BY <3>6, <3>8, <4>1, <4>2, <4>3, <4>4
    <3>10. Fate(f, x)
      BY <1>4, <3>1, <3>2, <3>3, <3>5, <3>9 DEF Fate, Removed, Exists
    <3> QED
      BY <1>3, <1>4, <3>10
  <2>5. CASE val[f].undelegations # 0
    <3>1. Has(f, block)
      <4>1. LosesState(f, amount) => "redelegate" \in defects'
        BY DEF redelegate
      <4> QED
        BY <1>6, <2>5, <4>1 DEF LosesState
    <3>2. /\ ValSettled(f) = o /\ StatesSettled(f) = st[f] /\ Settled(f) = st[f][block]
          /\ o.last = block /\ o.pool = 0
      BY <1>0, <1>1, <3>1 DEF ValSettled, StatesSettled, Settled, FreshAt
    <3>3. PICK l : l = del[d][f].last
      OBVIOUS
    <3>4. /\ st'[f] = Decrement(st[f], l) /\ val'[f] = [o EXCEPT !.stake = 0, !.pool = o.pool]
          /\ l \in Blocks /\ st[f] \in States
      BY <1>0, <1>1, <1>6, <2>5, <3>2, <3>3, RecordFields DEF StatesLeft, StatesClaimed, ValLeft, LedgerOK
    <3>5. /\ val'[f] \in ValidatorRec /\ val'[f].last = block /\ val'[f].pool = 0 /\ val'[f].stake = 0
          /\ val'[f].commissionPool = o.commissionPool
      <4>1. PICK r : r = [o EXCEPT !.stake = 0, !.pool = 0]
        OBVIOUS
      <4>2. val'[f] = r
        BY <3>2, <3>4, <4>1
      <4>3. /\ r \in ValidatorRec /\ r.last = o.last /\ r.pool = 0 /\ r.stake = 0
            /\ r.commissionPool = o.commissionPool
        <5>1. PICK w : w = [o EXCEPT !.stake = 0]
          OBVIOUS
        <5>2. /\ w \in ValidatorRec /\ w.last = o.last /\ w.stake = 0
              /\ w.commissionPool = o.commissionPool
          BY <1>2, <5>1 DEF ValidatorRec
        <5>3. r = [w EXCEPT !.pool = 0]
          BY <1>2, <4>1, <5>1 DEF ValidatorRec
        <5> QED
          BY <5>2, <5>3 DEF ValidatorRec
      <4> QED
        BY <3>2, <4>2, <4>3
    <3>6. Exists(f)'
      BY <3>5, NilAssumption DEF Exists
    <3>7. \A b \in Blocks : Has(f, b)' => Has(f, b) /\ Rps(f, b)' = Rps(f, b)
      BY <3>4, DecrementKeeps DEF Has, Rps
    <3>8. st'[f][block].rps = Settled(f).rps
      <4>1. st'[f][block].count > 0
        BY <3>5, <3>6, ReferredNext DEF Sound, AllHeld, Has
      <4> QED
        BY <1>0, <3>2, <3>7, <4>1 DEF Has, Rps
    <3>9. OnlyNew(f) /\ RpsKept(f)
      BY <3>7 DEF OnlyNew, RpsKept
    <3>10. x = val'[f].stake - val[f].stake - RewardOf(d, f)
      BY <1>1, <1>3, <2>1, <3>5
    <3>11. SettledFor(d, f, x)
      BY <1>0, <1>1, <2>3, <3>5, <3>6, <3>8, <3>9, <3>10 DEF SettledFor
    <3>12. Fate(f, x)
      BY <1>4, <3>11 DEF Fate
    <3> QED
      BY <1>3, <1>4, <3>12
  <2> QED
    BY <2>4, <2>5
<1> QED
  BY <1>5, <1>6

(* redelegate.                                                             *)
LEMMA RedelegateFlows ==
  ASSUME Sound, Sound', Counted, AllFresh, NEW d \in Delegator, NEW f \in Validator, NEW t \in Validator,
         NEW amount \in Nat, redelegate(d, f, t, amount), "redelegate" \notin defects'
  PROVE  Counted' /\ Flows
<1>0. /\ LedgerOK /\ block \in Blocks /\ f # t /\ Exists(t) /\ CanSettle(t) /\ StakeTrue
      /\ Delegated(d, t) => CanClaim(d, t)
      /\ FreshAt(t) /\ Calling
      /\ und' = und
  BY DEF Sound, AllFresh, redelegate, CanCredit, Call, Calling
<1>1. PICK a, b, p, q, i, j :
        /\ a = ValLeft(f, amount) /\ b = ValCredited(t, amount)
        /\ p = StatesLeft(d, f, amount) /\ q = PutState(StatesCredited(d, t), t, 1)
        /\ i = Debited(d, f, amount) /\ j = Credited(d, t, amount)
  OBVIOUS
<1>2. /\ val' = [val EXCEPT ![f] = a, ![t] = b] /\ st' = [st EXCEPT ![f] = p, ![t] = q]
      /\ del' = [del EXCEPT ![d][f] = i, ![d][t] = j]
      /\ transferContractBalance(d, 0, Reward(d, f) + RewardOf(d, t))
  BY <1>1 DEF redelegate
<1>3. /\ val'[f] = a /\ val'[t] = b /\ st'[f] = p /\ st'[t] = q
      /\ \A w \in Validator : w # f /\ w # t => val'[w] = val[w] /\ st'[w] = st[w]
  BY <1>0, <1>2 DEF LedgerOK
<1>4. /\ del'[d][f] = i /\ del'[d][t] = j
      /\ \A e \in Delegator, w \in Validator : ~(e = d /\ (w = f \/ w = t)) => del'[e][w] = del[e][w]
  BY <1>0, <1>2 DEF LedgerOK
<1>5. \A w \in Validator : w # f /\ w # t => Untouched(w)
  BY <1>3, <1>4 DEF Untouched
<1>6. PICK x, y : x = -amount - Reward(d, f) /\ y = b.stake - val[t].stake - RewardOf(d, t)
  OBVIOUS
<1>7. x \in Int /\ Reward(d, f) \in Int /\ Fate(f, x)
  <2>1. \A e \in Delegator : e # d => del'[e][f] = del[e][f]
    BY <1>4
  <2> QED
    BY <1>1, <1>3, <1>4, <1>6, <2>1, LeftFate
<1>8. /\ b # Nil /\ b.last = block /\ b.pool = 0 /\ b.commissionPool = val[t].commissionPool
      /\ b.stake = val[t].stake + amount /\ val[t].stake \in Nat /\ j.last = block
  BY <1>0, <1>1, ValFields, ValMoves, DelFields, StakeNat
<1>9. RewardOf(d, t) \in Int
  BY <1>0, <1>8, RewardPaid
<1>10. y \in Int /\ y = amount - RewardOf(d, t) /\ b.stake \in Int
  BY <1>6, <1>8, <1>9
<1>11. Fate(t, y)
  <2>1. \/ StatesCredited(d, t) = StatesSettled(t)
        \/ Delegated(d, t) /\ StatesCredited(d, t) = StatesClaimed(d, t)
    BY DEF StatesCredited
  <2>2. 1 \in Nat /\ st'[t] = PutState(StatesCredited(d, t), t, 1)
    BY <1>1, <1>3
  <2>3. \A e \in Delegator : e # d => del'[e][t] = del[e][t]
    BY <1>4
  <2> QED
    BY <1>0, <1>3, <1>4, <1>6, <1>8, <1>10, <2>1, <2>2, <2>3, StoredSettles
<1>12. IsFiniteSet(und') /\ Awaiting' = Awaiting /\ Awaiting \in Int /\ Funded /\ Backing \in Int
  BY <1>0, QueueKept
<1>13. /\ Funded' /\ Backing' \in Int /\ Reserve \in Int /\ Reserve' \in Int /\ Reserve' >= Reserve + x + y
  <2>1. PICK z : z = Reward(d, f) + RewardOf(d, t)
    OBVIOUS
  <2>2. z \in Int /\ transferContractBalance(d, 0, z)
    BY <1>2, <1>7, <1>9, <2>1
  <2>3. Funded' /\ Backing' \in Int /\ Backing' = Backing - z
    BY <1>12, <2>2, TransferFunds
  <2> QED
    BY <1>6, <1>7, <1>9, <1>10, <1>12, <2>1, <2>3 DEF Reserve
<1>14. Counted'
  BY <1>12, <1>13 DEF Counted
<1> QED
  BY <1>0, <1>5, <1>7, <1>10, <1>11, <1>13, <1>14, FlowsTwo

(* The error paths of the code that the accounts of rewards depend on.     *)
Whole == Spared({"cancel", "redelegate", "zero"})

(* Transactions leave the block as it is.                                  *)
LEMMA TransactionClock ==
  ASSUME Transaction
  PROVE  Calling /\ block' = block /\ phase' = phase
<1> DEFINE Goal == Calling /\ block' = block /\ phase' = phase
<1>1. ASSUME NEW d, NEW v, NEW a, NEW c, registerValidator(v, d, a, c) PROVE Goal
  BY <1>1 DEF registerValidator, registerValidatorWithoutChecks, Call, Calling, control
<1>2. ASSUME NEW d, NEW v, NEW a, Delegate(d, v, a) PROVE Goal
  BY <1>2 DEF Delegate, delegate, Call, Calling, control
<1>3. ASSUME NEW d, NEW v, NEW a, undelegate(d, v, a) PROVE Goal
  BY <1>3 DEF undelegate, Call, Calling, control
<1>4. ASSUME NEW d, NEW f, NEW t, NEW a, redelegate(d, f, t, a) PROVE Goal
  BY <1>4 DEF redelegate, Call, Calling, control
<1>5. ASSUME NEW d, NEW from, Call("txs"), ClaimFrom(d, from) PROVE Goal
  BY <1>5 DEF ClaimFrom, Call, Calling, control
<1>6. ASSUME NEW d, NEW v, NEW c, claimCommissionRewards(d, v) \/ setCommission(d, v, c) PROVE Goal
  BY <1>6 DEF claimCommissionRewards, setCommission, Call, Calling, control
<1>7. ASSUME NEW u, confirmUndelegate(u) \/ cancelUndelegate(u) PROVE Goal
  BY <1>7 DEF confirmUndelegate, cancelUndelegate, Call, Calling, control
<1> HIDE DEF Goal
<1>8. Goal
  BY <1>1, <1>2, <1>3, <1>4, <1>5, <1>6, <1>7, ClaimsSome DEF Transaction, claimRewards
<1> QED
  BY <1>8 DEF Goal

(* Every transaction pays for what it changes, until one of the defects.   *)
LEMMA TransactionFlows ==
  ASSUME Sound, Sound', Counted, AllFresh, Transaction, Whole'
  PROVE  Counted' /\ Flows
<1>0. Amounts \subseteq Nat /\ Commissions \subseteq Nat /\ Calling
  BY InputAssumption, TransactionClock
<1>1. ASSUME NEW d \in Delegator, NEW v \in Validator, NEW a \in Amounts, NEW c \in Commissions,
             registerValidator(v, d, a, c)
      PROVE  Counted' /\ Flows
  <2>1. registerValidatorWithoutChecks(v, d, a, c) /\ a \in Nat /\ c \in Nat
    BY <1>0, <1>1 DEF registerValidator
  <2> QED
    BY <2>1, RegisterFlows
<1>2. ASSUME NEW d \in Delegator, NEW v \in Validator, NEW a \in Amounts, Delegate(d, v, a)
      PROVE  Counted' /\ Flows
  <2>1. delegate(d, v, a) /\ a \in Nat
    BY <1>0, <1>2 DEF Delegate
  <2> QED
    BY <1>0, <2>1, DelegateFlows
<1>3. ASSUME NEW d \in Delegator, NEW v \in Validator, NEW a \in Amounts, undelegate(d, v, a)
      PROVE  Counted' /\ Flows
  BY <1>0, <1>3, UndelegateFlows
<1>4. ASSUME NEW d \in Delegator, NEW v \in Validator, NEW t \in Validator, NEW a \in Amounts,
             redelegate(d, v, t, a)
      PROVE  Counted' /\ Flows
  <2>1. "redelegate" \notin defects' /\ a \in Nat
    BY <1>0 DEF Whole, Spared
  <2> QED
    BY <1>4, <2>1, RedelegateFlows
<1>5. ASSUME NEW d \in Delegator, NEW v \in Validator, claimRewards(d, v) PROVE Counted' /\ Flows
  <2>1. /\ ClaimFrom(d, {v}) /\ {v} \in SUBSET Validator
        /\ transferContractBalance(d, 0, RewardsFrom(d, {v}))
    BY <1>5 DEF claimRewards
  <2> QED
    BY <1>0, <2>1, ClaimFlows
<1>6. ASSUME NEW d \in Delegator, NEW v \in Validator, claimCommissionRewards(d, v)
      PROVE  Counted' /\ Flows
  <2>1. 0 \in Nat
    OBVIOUS
  <2> QED
    BY <1>6, <2>1, CommissionFlows
<1>7. ASSUME NEW d \in Delegator, NEW v \in Validator, NEW c \in Commissions, setCommission(d, v, c)
      PROVE  Counted' /\ Flows
  BY <1>0, <1>7, CommissionFlows
<1>8. ASSUME NEW u \in und, confirmUndelegate(u) PROVE Counted' /\ Flows
  BY <1>8, ConfirmFlows
<1>9. ASSUME NEW u \in und, cancelUndelegate(u) PROVE Counted' /\ Flows
  <2>1. FitsMaximum(u.validator, u.amount)
    BY <1>9 DEF cancelUndelegate, Whole, Spared
  <2> QED
    BY <1>9, <2>1, CancelFlows
<1>10. ASSUME NEW d \in Delegator, claimAllRewards(d) PROVE Counted' /\ Flows
  <2>1. PICK from \in SUBSET Validator :
          /\ ClaimFrom(d, from)
          /\ \/ transferContractBalance(d, 0, RewardsFrom(d, from))
             \/ UndoneTransfer(0, RewardsFrom(d, from))
    BY <1>10 DEF claimAllRewards
  <2> QED
    BY <1>0, <2>1, ClaimFlows
<1> QED
  BY <1>1, <1>2, <1>3, <1>4, <1>5, <1>6, <1>7, <1>8, <1>9, <1>10 DEF Transaction

(* Steps that leave the ledger alone.                                      *)
LEMMA LedgerFlows ==
  ASSUME LedgerOK, Counted, UNCHANGED ledger
  PROVE  Counted' /\ Flows
<1>1. val' = val /\ del' = del /\ st' = st /\ und' = und
      /\ Funded' /\ Backing' \in Int /\ Backing' = Backing
  BY FundsKept DEF ledger
<1>2. IsFiniteSet(und') /\ Awaiting' = Awaiting /\ Awaiting \in Int /\ Funded /\ Backing \in Int
  BY <1>1, QueueKept
<1>3. Awaiting' \in Int /\ Funded' /\ Backing' \in Int /\ Backing' - Awaiting' = Backing - Awaiting
  BY <1>1, <1>2
<1> QED
  BY <1>1, <1>2, <1>3, QuietFlows

(* The same for the steps outside transactions.                            *)
LEMMA OtherFlows ==
  ASSUME IInv, Sound, Sound', Counted, AllFresh,
         Genesis \/ Distribution \/ Penalties \/ EndBlock \/ UNCHANGED vars
  PROVE  Counted' /\ Flows
<1>0. Amounts \subseteq Nat /\ Rewards \subseteq Nat /\ Commissions \subseteq Nat /\ LedgerOK
  BY InputAssumption DEF Sound
<1>1. CASE Genesis
  <2>1. ASSUME NEW v \in Validator, NEW d \in Delegator, NEW c \in Commissions, GenesisValidator(v, d, c)
        PROVE  Counted' /\ Flows
    <3>1. registerValidatorWithoutChecks(v, d, 0, c) /\ 0 \in Nat /\ c \in Nat
      BY <1>0, <2>1 DEF GenesisValidator
    <3> QED
      BY <3>1, RegisterFlows
  <2>2. ASSUME NEW v \in Validator, NEW d \in Delegator, NEW a \in Amounts, GenesisDelegation(d, v, a)
        PROVE  Counted' /\ Flows
    <3>1. delegate(d, v, a) /\ a \in Nat /\ Calling
      BY <1>0, <2>2 DEF GenesisDelegation, Call, Calling
    <3> QED
      BY <3>1, DelegateFlows
  <2>3. ASSUME EndGenesis PROVE Counted' /\ Flows
    BY <1>0, <2>3, LedgerFlows DEF EndGenesis
  <2> QED
    BY <1>1, <2>1, <2>2, <2>3 DEF Genesis
<1>2. CASE Distribution
  <2>1. ASSUME NEW listed \in SUBSET Validator, NEW author \in Validator, NEW r \in Rewards,
               DistributeRewards(listed, author, r)
        PROVE  Counted' /\ Flows
    <3>0. st' = st /\ del' = del /\ und' = und /\ astray' = astray /\ ~Calling' /\ r \in Nat /\ 0 \in Nat
      BY <1>0, <2>1 DEF DistributeRewards, Calling
    <3>1. CASE r > 0 /\ Exists(author)
      <4>1. AddValidatorRewards(author, r, 0)
        BY <2>1, <3>1 DEF DistributeRewards
      <4> QED
        BY <1>0, <3>0, <3>1, <4>1, RewardFlows
    <3>2. CASE ~(r > 0 /\ Exists(author))
      <4>1. UNCHANGED ledger
        BY <2>1, <3>2 DEF DistributeRewards, ledger
      <4> QED
        BY <1>0, <4>1, LedgerFlows
    <3> QED
      BY <3>1, <3>2
  <2>2. ASSUME NEW v \in Validator, NEW active \in BOOLEAN, NEW r \in Rewards, NEW f \in Rewards,
               RewardValidator(v, active, r, f)
        PROVE  Counted' /\ Flows
    <3>0. st' = st /\ del' = del /\ und' = und /\ astray' = astray /\ ~Calling' /\ r \in Nat /\ f \in Nat
      BY <1>0, <2>2 DEF RewardValidator, Calling
    <3>1. CASE Exists(v)
      <4>1. AddValidatorRewards(v, r, f)
        BY <2>2, <3>1 DEF RewardValidator
      <4> QED
        BY <1>0, <3>0, <3>1, <4>1, RewardFlows
    <3>2. CASE ~Exists(v)
      <4>1. UNCHANGED ledger
        BY <2>2, <3>2 DEF RewardValidator, ledger
      <4> QED
        BY <1>0, <4>1, LedgerFlows
    <3> QED
      BY <3>1, <3>2
  <2>3. ASSUME EndDistribution PROVE Counted' /\ Flows
    BY <1>0, <2>3, LedgerFlows DEF EndDistribution
  <2> QED
    BY <1>2, <2>1, <2>2, <2>3 DEF Distribution
<1>3. CASE Penalties
  <2>1. ASSUME NEW d \in Delegator, undelegateInternal(d) PROVE Counted' /\ Flows
    BY <2>1, EvictionFlows
  <2>2. CASE ~\E d \in Delegator : undelegateInternal(d)
    <3>1. UNCHANGED ledger
      BY <1>3, <2>2 DEF Penalties, ResumeEviction, forceEvictValidator, EndResume, Scan, EndScan,
           StartEviction, EndEviction, EndPenalties
    <3> QED
      BY <1>0, <3>1, LedgerFlows
  <2> QED
    BY <2>1, <2>2
<1>4. CASE EndBlock \/ UNCHANGED vars
  BY <1>0, <1>4, LedgerFlows DEF EndBlock, vars
<1> QED
  BY <1>1, <1>2, <1>3, <1>4

(* The next block begins, or calls go on until rewards are distributed.    *)
LEMMA StepClock ==
  ASSUME [Next]_vars
  PROVE  \/ block' = block /\ (Calling' => Calling)
         \/ block' = block + 1 /\ UNCHANGED ledger
<1>1. CASE Transaction
  BY <1>1, TransactionClock DEF Calling
<1>2. CASE Genesis
  BY <1>2 DEF Genesis, GenesisValidator, registerValidatorWithoutChecks, GenesisDelegation, delegate,
              EndGenesis, NextBlock, Call, Calling, control
<1>3. CASE Distribution
  BY <1>3 DEF Distribution, DistributeRewards, RewardValidator, EndDistribution, Calling
<1>4. CASE Penalties
  BY <1>4 DEF Penalties, ResumeEviction, forceEvictValidator, EndResume, Scan, EndScan, StartEviction,
              EndEviction, EndPenalties, undelegateInternal, Calling
<1>5. CASE EndBlock \/ UNCHANGED vars
  BY <1>5 DEF EndBlock, NextBlock, vars, control, Calling
<1> QED
  BY <1>1, <1>2, <1>3, <1>4, <1>5 DEF Next

(* Each step pays for what it changes and keeps the states fresh.          *)
LEMMA StepFlows ==
  ASSUME IInv, Sound, Sound', Counted, AllFresh, [Next]_vars, Whole'
  PROVE  Counted' /\ Flows /\ AllFresh'
<1>1. Counted' /\ Flows
  BY TransactionFlows, OtherFlows DEF Next
<1>2. PICK g \in [Validator -> Int] : \A v \in Validator : Fate(v, g[v])
  BY <1>1 DEF Flows
<1>3. ASSUME NEW v \in Validator PROVE FreshAt(v)'
  <2>0. FreshAt(v) /\ Fate(v, g[v]) /\ block \in Blocks /\ block' \in Blocks
    BY <1>2 DEF AllFresh, Sound
  <2>1. CASE block' = block /\ (Calling' => Calling)
    BY <2>0, <2>1, FateFresh
  <2>2. CASE block' = block + 1 /\ UNCHANGED ledger
    <3>1. Untouched(v)
      BY <2>2 DEF Untouched, ledger
    <3> QED
      BY <2>0, <2>2, <3>1, BlockFresh
  <2> QED
    BY <2>1, <2>2, StepClock
<1> QED
  BY <1>1, <1>3 DEF AllFresh

AllOrdered == \A v \in Validator : OrderedAt(v)

(* What the reserve gives the validators covers what they hold more.       *)
LEMMA StepBacked ==
  ASSUME Sound, Sound', Counted, Counted', AllFresh, AllOrdered, Backed, Flows
  PROVE  AllOrdered' /\ Backed'
<1>0. LedgerOK /\ LedgerOK' /\ IsFiniteSet(Validator) /\ ValidatorMaximumStake \in Nat
  BY InputAssumption, ConfigAssumption DEF Sound
<1>1. PICK g \in [Validator -> Int] :
        /\ \A v \in Validator : Fate(v, g[v])
        /\ Reserve' >= Reserve + SumFunctionOnSet(g, Validator)
  BY DEF Flows
<1>2. AllOrdered'
  BY <1>1, FateOrdered DEF AllFresh, AllOrdered
<1>3. ASSUME NEW v \in Validator PROVE Held(v)' <= Held(v) + ValidatorMaximumStake * g[v]
  BY <1>1, FateHeld DEF AllFresh, AllOrdered
<1>4. PICK h, e, k, m : /\ h = [v \in Validator |-> Held(v)] /\ e = [v \in Validator |-> Held(v)']
                        /\ k = [v \in Validator |-> Held(v) + m * g[v]] /\ m = ValidatorMaximumStake
  OBVIOUS
<1>5. /\ \A v \in Validator : g[v] \in Int /\ Held(v) \in Int /\ Held(v)' \in Int
      /\ m \in Int
  <2>1. \A v \in Validator : Held(v) \in Int
    BY <1>0, HeldTypes
  <2>2. \A v \in Validator : Held(v)' \in Int
    BY <1>0, HeldTypesNext
  <2> QED
    BY <1>0, <1>1, <1>4, <2>1, <2>2
<1>6. \A v \in Validator : /\ h[v] \in Int /\ e[v] \in Int /\ k[v] \in Int
                           /\ k[v] = h[v] + m * g[v] /\ e[v] <= k[v]
  <2>1. \A v \in Validator : m * g[v] \in Int
    BY <1>5
  <2>2. \A v \in Validator : h[v] = Held(v) /\ e[v] = Held(v)' /\ k[v] = Held(v) + m * g[v]
    BY <1>4
  <2> QED
    BY <1>3, <1>4, <1>5, <2>1, <2>2
<1>7. PICK G, H, E, K : /\ G = SumFunctionOnSet(g, Validator) /\ H = SumFunctionOnSet(h, Validator)
                        /\ E = SumFunctionOnSet(e, Validator) /\ K = SumFunctionOnSet(k, Validator)
  OBVIOUS
<1>8. G \in Int /\ H \in Int /\ E \in Int /\ K \in Int /\ E <= K /\ K = H + m * G
  <2>1. G \in Int /\ H \in Int /\ E \in Int /\ K \in Int
    BY <1>0, <1>5, <1>6, <1>7, SumInt
  <2>2. E <= K
    BY <1>0, <1>6, <1>7, SumGreater
  <2>3. K = H + m * G
    BY <1>0, <1>5, <1>6, <1>7, SumLinear
  <2> QED
    BY <2>1, <2>2, <2>3
<1>9. HeldTotal = H /\ HeldTotal' = E
  BY <1>4, <1>7 DEF HeldTotal
<1>10. PICK p, q : p = Reserve /\ q = Reserve'
  OBVIOUS
<1>11. p \in Int /\ q \in Int /\ q >= p + G
  <2>1. Reserve \in Int
    BY <1>0, AwaitingNat
  <2>2. Reserve' \in Int
    <3>1. Awaiting' \in Nat
      <4>1. PICK f : f = [u \in und' |-> u.amount]
        OBVIOUS
      <4>2. \A u \in und' : f[u] \in Nat
        BY <1>0, <4>1 DEF LedgerOK, UndelegationRec
      <4>3. SumFunctionOnSet(f, und') \in Nat
        BY <4>2, SumNat DEF Counted
      <4> QED
        BY <4>1, <4>3 DEF Awaiting
    <3> QED
      BY <3>1 DEF Reserve, Counted
  <2> QED
    BY <1>1, <1>7, <1>10, <2>1, <2>2
<1>12. m * q >= m * p + m * G
  <2>1. m * (p + G) = m * p + m * G /\ m * (p + G) \in Int /\ m * q \in Int
    BY <1>5, <1>8, <1>11
  <2>2. \A i, j \in Int : i >= j => m * i >= m * j
    BY <1>0, <1>4
  <2> QED
    BY <1>8, <1>11, <2>1, <2>2
<1>13. m * q >= E
  <2>1. m * p >= H
    BY <1>4, <1>9, <1>10 DEF Backed
  <2>2. m * p \in Int /\ m * G \in Int /\ m * q \in Int
    BY <1>5, <1>8, <1>11
  <2> QED
    BY <1>8, <1>12, <2>1, <2>2
<1>14. Backed'
  BY <1>4, <1>9, <1>10, <1>13 DEF Backed
<1> QED
  BY <1>2, <1>14

(* What is owed to a delegator has accrued, or is its share of the pool.   *)
LEMMA OwedCovered ==
  ASSUME LedgerOK, StakeTrue, NEW v \in Validator, Exists(v), NEW d \in Delegator
  PROVE  /\ Owed(d, v) \in Int
         /\ ValidatorMaximumStake * Owed(d, v) <= Accrued(d, v) + Share(v) * StakeOf(d, v)
<1>0. ValidatorMaximumStake \in Nat \ {0} /\ Share(v) \in Nat
  BY ConfigAssumption, StakeNat, ShareCovered
<1>1. CASE ~Delegated(d, v)
  <2>1. Owed(d, v) = 0 /\ Accrued(d, v) = 0 /\ StakeOf(d, v) = 0
    BY <1>1 DEF Owed, Accrued, StakeOf
  <2>2. ValidatorMaximumStake * 0 <= 0 + Share(v) * 0 /\ 0 \in Int
    BY <1>0
  <2> QED
    BY <2>1, <2>2
<1>2. CASE Delegated(d, v)
  <2>1. PICK l, r, q, s : /\ l = Rps(v, val[v].last) /\ r = Rps(v, del[d][v].last) /\ q = Share(v)
                          /\ s = del[d][v].stake
    OBVIOUS
  <2>2. l \in Nat /\ r \in Nat /\ q \in Nat /\ s \in Nat
    BY <1>0, <1>2, <2>1, RecordFields
  <2>3. Owed(d, v) = ((l - r + q) * s) \div ValidatorMaximumStake
    BY <1>2, <2>1 DEF Owed, Share, Rps, calculateDelegatorReward
  <2>4. PICK y : y = (l - r + q) * s
    OBVIOUS
  <2>5. y \in Int /\ y = (l - r) * s + q * s
    BY <2>2, <2>4
  <2>6. Owed(d, v) \in Int /\ ValidatorMaximumStake * Owed(d, v) <= y
    BY <1>0, <2>3, <2>4, <2>5, DivBelow
  <2>7. Accrued(d, v) = (l - r) * s /\ StakeOf(d, v) = s
    BY <1>2, <2>1 DEF Accrued, StakeOf
  <2> QED
    BY <2>1, <2>5, <2>6, <2>7
<1> QED
  BY <1>1, <1>2

(* What v owes is within what it holds.                                    *)
LEMMA LiabilityCovered ==
  ASSUME LedgerOK, StakeTrue, NEW v \in Validator
  PROVE  Liability(v) \in Int /\ ValidatorMaximumStake * Liability(v) <= Held(v)
<1>0. PICK m : m = ValidatorMaximumStake
  OBVIOUS
<1>1. m \in Nat /\ IsFiniteSet(Delegator)
  BY <1>0, ConfigAssumption, InputAssumption
<1>2. PICK f : f = [d \in Delegator |-> Owed(d, v)]
  OBVIOUS
<1>3. PICK F : F = SumFunctionOnSet(f, Delegator)
  OBVIOUS
<1>4. CASE ~Exists(v)
  <2>1. \A d \in Delegator : f[d] = 0
    BY <1>2, <1>4 DEF Owed
  <2>2. F = 0
    BY <1>1, <1>3, <2>1, SumZero
  <2>3. Liability(v) = 0 + 0 + F /\ Held(v) = 0
    BY <1>2, <1>3, <1>4 DEF Liability, ValidatorStake, Held
  <2>4. Liability(v) = 0
    BY <2>2, <2>3
  <2>5. m * 0 <= 0 /\ 0 \in Int
    BY <1>1
  <2> QED
    BY <1>0, <2>3, <2>4, <2>5
<1>5. CASE Exists(v)
  <2>1. PICK s, c, p, q : s = val[v].stake /\ c = val[v].commissionPool /\ p = val[v].pool /\ q = Share(v)
    OBVIOUS
  <2>2. s \in Nat /\ c \in Nat /\ p \in Nat /\ q \in Nat /\ q * s <= m * p /\ StakeSum(v) = s
    BY <1>0, <1>5, <2>1, RecordFields, StakeNat, ShareCovered
  <2>3. PICK a, b, h, k, z : /\ a = [d \in Delegator |-> Accrued(d, v)]
                             /\ b = [d \in Delegator |-> StakeOf(d, v)]
                             /\ h = [d \in Delegator |-> Accrued(d, v) + q * StakeOf(d, v)]
                             /\ k = [d \in Delegator |-> m * Owed(d, v)]
                             /\ z = [d \in Delegator |-> 0]
    OBVIOUS
  <2>4. \A d \in Delegator : /\ Owed(d, v) \in Int /\ Accrued(d, v) \in Int /\ StakeOf(d, v) \in Int
                             /\ m * Owed(d, v) <= Accrued(d, v) + q * StakeOf(d, v)
    <3>1. \A d \in Delegator : Accrued(d, v) \in Int
      BY HeldTypes
    <3>2. \A d \in Delegator : StakeOf(d, v) \in Int
      BY StakeTypes
    <3> QED
      BY <1>0, <1>5, <2>1, <3>1, <3>2, OwedCovered
  <2>5. \A d \in Delegator : m * Owed(d, v) \in Int /\ q * StakeOf(d, v) \in Int
    BY <1>1, <2>2, <2>4
  <2>6. \A d \in Delegator : /\ a[d] \in Int /\ b[d] \in Int /\ f[d] \in Int /\ z[d] \in Int /\ z[d] = 0
                             /\ h[d] \in Int /\ h[d] = a[d] + q * b[d]
                             /\ k[d] \in Int /\ k[d] = z[d] + m * f[d] /\ k[d] <= h[d]
    BY <1>2, <2>3, <2>4, <2>5
  <2>7. PICK A, B, H, K, Z : /\ A = SumFunctionOnSet(a, Delegator) /\ B = SumFunctionOnSet(b, Delegator)
                             /\ H = SumFunctionOnSet(h, Delegator) /\ K = SumFunctionOnSet(k, Delegator)
                             /\ Z = SumFunctionOnSet(z, Delegator)
    OBVIOUS
  <2>8. /\ F \in Int /\ A \in Int /\ B = s /\ H \in Int /\ K \in Int
    <3>1. F \in Int /\ A \in Int /\ H \in Int /\ K \in Int
      BY <1>1, <1>3, <2>6, <2>7, SumInt
    <3>2. B = s
      BY <2>2, <2>3, <2>7 DEF StakeSum
    <3> QED
      BY <3>1, <3>2
  <2>9. K <= H
    BY <1>1, <2>6, <2>7, SumGreater
  <2>10. H = A + q * s
    <3>1. q \in Int
      BY <2>2
    <3>2. H = A + q * B
      BY <1>1, <2>6, <2>7, <3>1, SumLinear
    <3> QED
      BY <2>8, <3>2
  <2>11. K = 0 + m * F
    <3>1. m \in Int
      BY <1>1
    <3>2. K = Z + m * F
      BY <1>1, <1>3, <2>6, <2>7, <3>1, SumLinear
    <3>3. Z = 0
      BY <1>1, <2>6, <2>7, SumZero
    <3> QED
      BY <3>2, <3>3
  <2>12. Liability(v) = s + c + F /\ Held(v) = m * (s + c + p) + A
    BY <1>0, <1>2, <1>3, <1>5, <2>1, <2>3, <2>7 DEF Liability, ValidatorStake, Held, Kept, AccruedTo
  <2>13. m * (s + c + F) <= m * (s + c + p) + A
    <3>1. m * (s + c + F) = m * (s + c) + m * F /\ m * (s + c + p) = m * (s + c) + m * p
      BY <1>1, <2>2, <2>8
    <3>2. m * (s + c) \in Int /\ m * F \in Int /\ m * p \in Int /\ q * s \in Int
      BY <1>1, <2>2, <2>8
    <3>3. m * F <= A + q * s
      BY <2>8, <2>9, <2>10, <2>11, <3>2
    <3>4. m * F <= A + m * p
      BY <2>2, <2>8, <3>2, <3>3
    <3> QED
      BY <2>8, <3>1, <3>2, <3>4
  <2>14. s + c + F \in Int
    BY <2>2, <2>8
  <2> QED
    BY <1>0, <2>12, <2>13, <2>14
<1> QED
  BY <1>4, <1>5

(* A backed ledger can pay.                                                *)
LEMMA BackedIsSolvent ==
  ASSUME LedgerOK, StakeTrue, Counted, Backed
  PROVE  balance + astray >= SumFunctionOnSet([u \in und |-> u.amount], und)
                             + SumFunctionOnSet([v \in Validator |-> Liability(v)], Validator)
<1>0. PICK m : m = ValidatorMaximumStake
  OBVIOUS
<1>1. m \in Nat \ {0} /\ m \in Int /\ IsFiniteSet(Validator)
  BY <1>0, ConfigAssumption, InputAssumption
<1>2. PICK f, h, k, z : /\ f = [v \in Validator |-> Liability(v)] /\ h = [v \in Validator |-> Held(v)]
                        /\ k = [v \in Validator |-> m * Liability(v)] /\ z = [v \in Validator |-> 0]
  OBVIOUS
<1>3. \A v \in Validator : Liability(v) \in Int /\ m * Liability(v) <= Held(v) /\ Held(v) \in Int
  <2>1. \A v \in Validator : Held(v) \in Int
    BY HeldTypes
  <2> QED
    BY <1>0, <2>1, LiabilityCovered
<1>4. \A v \in Validator : m * Liability(v) \in Int
  BY <1>1, <1>3
<1>5. \A v \in Validator : /\ f[v] \in Int /\ h[v] \in Int /\ z[v] \in Int /\ z[v] = 0
                           /\ k[v] \in Int /\ k[v] = z[v] + m * f[v] /\ k[v] <= h[v]
  BY <1>2, <1>3, <1>4
<1>6. PICK F, H, K, Z : /\ F = SumFunctionOnSet(f, Validator) /\ H = SumFunctionOnSet(h, Validator)
                        /\ K = SumFunctionOnSet(k, Validator) /\ Z = SumFunctionOnSet(z, Validator)
  OBVIOUS
<1>7. F \in Int /\ H \in Int /\ K \in Int
  BY <1>1, <1>5, <1>6, SumInt
<1>8. K <= H
  BY <1>1, <1>5, <1>6, SumGreater
<1>9. Z = 0
  BY <1>1, <1>5, <1>6, SumZero
<1>10. K = Z + m * F
  BY <1>1, <1>5, <1>6, SumLinear
<1>11. PICK r : r = Reserve
  OBVIOUS
<1>12. r \in Int /\ m * r >= H
  BY <1>0, <1>2, <1>6, <1>11, AwaitingNat DEF Backed, HeldTotal
<1>13. m * F <= m * r
  <2>1. m * F \in Int /\ m * r \in Int
    BY <1>1, <1>7, <1>12
  <2> QED
    BY <1>7, <1>8, <1>9, <1>10, <1>12, <2>1
<1>14. F <= r
  <2>1. \A i, j \in Int : m * i <= m * j => i <= j
    BY <1>1
  <2> QED
    BY <1>7, <1>12, <1>13, <2>1
<1>15. Backing - Awaiting >= F /\ Funded /\ Backing \in Int /\ Awaiting \in Int
  BY <1>11, <1>14, AwaitingNat DEF Reserve, Counted
<1>16. Backing >= Awaiting + F
  BY <1>7, <1>15
<1> QED
  BY <1>2, <1>6, <1>16 DEF Awaiting, Backing

(***************************************************************************)
(* The inductive invariant behind solvency: that of the theorems above,    *)
(* and, unless an error path damaged the ledger, fresh and ordered states  *)
(* and a reserve that backs what the validators hold.                      *)
(***************************************************************************)
Covered == Whole => Counted /\ AllFresh /\ AllOrdered /\ Backed

PaidInv == IInv /\ StakeAccounted /\ Positive /\ RefsCounted /\ Covered

(* An undamaged ledger adds up.                                            *)
LEMMA WholeIsSound ==
  ASSUME IInv, StakeAccounted, Positive, RefsCounted, Whole
  PROVE  Sound
<1>1. Spared({"cancel", "zero"}) /\ Spared({"zero"}) /\ Spared({"cancel", "redelegate", "zero"})
  BY DEF Whole, Spared
<1>2. AllHeld /\ AllPositive
  BY <1>1 DEF RefsCounted, AllHeld, RefsHeld, Positive
<1>3. StakeTrue
  BY <1>1 DEF StakeAccounted, StakeTrue, StakeSum, StakeTotal
<1> QED
  BY <1>2, <1>3 DEF Sound, IInv, ControlOK

(* The same after a step.                                                  *)
LEMMA WholeIsSoundNext ==
  ASSUME IInv', StakeAccounted', Positive', RefsCounted', Whole'
  PROVE  Sound'
<1>1. Spared({"cancel", "zero"})' /\ Spared({"zero"})' /\ Spared({"cancel", "redelegate", "zero"})'
  BY DEF Whole, Spared
<1>2. AllHeld' /\ AllPositive'
  BY <1>1 DEF RefsCounted, AllHeld, RefsHeld, Positive
<1>3. StakeTrue'
  BY <1>1, Zenon DEF StakeAccounted, StakeTrue, StakeSum, StakeTotal
<1> QED
  BY <1>2, <1>3 DEF Sound, IInv, ControlOK

(* What every step of an undamaged behaviour does.                         *)
LEMMA WholeStep ==
  ASSUME PaidInv, IInv', StakeAccounted', Positive', RefsCounted', [Next]_vars, Whole'
  PROVE  /\ Sound /\ Sound' /\ Counted /\ AllFresh /\ AllOrdered /\ Backed
         /\ Counted' /\ AllFresh' /\ Flows
<1>1. defects \subseteq defects'
  BY StepStakes DEF PaidInv, IInv
<1>2. Whole
  BY <1>1, SparedBefore DEF Whole
<1>3. Sound /\ Sound'
  BY <1>2, WholeIsSound, WholeIsSoundNext DEF PaidInv
<1>4. Counted /\ AllFresh /\ AllOrdered /\ Backed
  BY <1>2 DEF PaidInv, Covered
<1>5. Counted' /\ Flows /\ AllFresh'
  BY <1>3, <1>4, StepFlows DEF PaidInv
<1> QED
  BY <1>3, <1>4, <1>5

(* Every step keeps the invariant.                                         *)
LEMMA StepPaid ==
  ASSUME MinimumDeposit > 0, PaidInv, [Next]_vars
  PROVE  PaidInv'
<1>1. IInv'
  BY StepPreserves DEF PaidInv
<1>2. StakeAccounted' /\ Positive' /\ RefsCounted'
  BY <1>1, StepAccounts, StepPositive, StepRefs DEF PaidInv
<1>3. ASSUME Whole' PROVE Counted' /\ AllFresh' /\ AllOrdered' /\ Backed'
  <2>1. /\ Sound /\ Sound' /\ Counted /\ AllFresh /\ AllOrdered /\ Backed
        /\ Counted' /\ AllFresh' /\ Flows
    BY <1>1, <1>2, <1>3, WholeStep
  <2> QED
    BY <2>1, StepBacked
<1> QED
  BY <1>1, <1>2, <1>3 DEF PaidInv, Covered

(* Nothing is held at the start.                                           *)
LEMMA InitPaid == Init => PaidInv
<1> SUFFICES ASSUME Init PROVE PaidInv
  OBVIOUS
<1>1. IInv /\ StakeAccounted /\ Positive /\ RefsCounted
  BY InitIInv, InitAccounts, InitRefs
<1>2. /\ \A v \in Validator : ~Exists(v)
      /\ \A v \in Validator, b \in Blocks : ~Has(v, b)
      /\ und = {} /\ Funded /\ Backing = 0
  BY DEF Init, Exists, Has, NoState, Funded, Backing
<1>3. AllFresh /\ AllOrdered
  BY <1>2 DEF AllFresh, FreshAt, AllOrdered, OrderedAt
<1>4. Counted
  BY <1>2, FS_EmptySet DEF Counted
<1>5. HeldTotal = 0
  <2>1. PICK h : h = [v \in Validator |-> Held(v)]
    OBVIOUS
  <2>2. \A v \in Validator : h[v] = 0
    BY <1>2, <2>1 DEF Held
  <2>3. SumFunctionOnSet(h, Validator) = 0
    BY <2>2, InputAssumption, SumZero
  <2> QED
    BY <2>1, <2>3 DEF HeldTotal
<1>6. Reserve = 0
  <2>1. Awaiting = 0
    BY <1>2, SumEmpty DEF Awaiting
  <2> QED
    BY <1>2, <2>1 DEF Reserve
<1>7. Backed
  BY <1>5, <1>6, ConfigAssumption DEF Backed
<1> QED
  BY <1>1, <1>3, <1>4, <1>7 DEF PaidInv, Covered

(***************************************************************************)
(* With a minimum deposit, for any number of validators, delegators,       *)
(* blocks and calls in any order and by any of the frames, the ledger owes *)
(* no more than it counts as received: the balance, with what is astray,   *)
(* covers every stake, undelegation, commission and reward, unless one of  *)
(* the damaging error paths was taken.  What rounding loses in             *)
(* calculateRewardPer1Stake and calculateDelegatorReward stays with the    *)
(* contract.                                                               *)
(***************************************************************************)
THEOREM ContractStaysSolvent ==
  ASSUME MinimumDeposit > 0
  PROVE  Spec => []Solvent
<1>1. PaidInv /\ [Next]_vars => PaidInv'
  BY StepPaid
<1>2. PaidInv => Solvent
  <2> SUFFICES ASSUME PaidInv, Spared({"cancel", "redelegate", "zero"})
               PROVE  balance + astray >= SumFunctionOnSet([u \in und |-> u.amount], und)
                                          + SumFunctionOnSet([v \in Validator |-> Liability(v)], Validator)
    BY DEF Solvent
  <2>1. Whole
    BY DEF Whole
  <2>2. Counted /\ Backed /\ LedgerOK /\ StakeTrue
    BY <2>1, WholeIsSound DEF PaidInv, Covered, Sound
  <2> QED
    BY <2>2, BackedIsSolvent
<1> QED
  BY <1>1, <1>2, InitPaid, PTL DEF Spec

(* A call that is a CALL and kept leaves nothing astray.                   *)
LEMMA KeptOnly ==
  ASSUME Frames = {}, NEW d, NEW value, NEW payout, transferContractBalance(d, value, payout)
  PROVE  astray' = astray
BY DEF transferContractBalance, KeptTransfer

(* Neither does any other step, while the ledger is undamaged.             *)
LEMMA NothingStrays ==
  ASSUME Frames = {}, Sound, [Next]_vars
  PROVE  astray' = astray
<1>1. CASE Transaction
  <2>1. ASSUME NEW d, NEW v, NEW a, NEW c, registerValidator(v, d, a, c) PROVE astray' = astray
    BY <2>1, KeptOnly DEF registerValidator, registerValidatorWithoutChecks
  <2>2. ASSUME NEW d, NEW v, NEW a, Delegate(d, v, a) PROVE astray' = astray
    BY <2>2, KeptOnly DEF Delegate, delegate
  <2>3. ASSUME NEW d, NEW v, NEW a, undelegate(d, v, a) PROVE astray' = astray
    BY <2>3, KeptOnly DEF undelegate
  <2>4. ASSUME NEW d, NEW f, NEW t, NEW a, redelegate(d, f, t, a) PROVE astray' = astray
    BY <2>4, KeptOnly DEF redelegate
  <2>5. ASSUME NEW d, NEW v, claimRewards(d, v) PROVE astray' = astray
    BY <2>5, KeptOnly DEF claimRewards
  <2>6. ASSUME NEW d, NEW v, NEW c, claimCommissionRewards(d, v) \/ setCommission(d, v, c)
        PROVE  astray' = astray
    BY <2>6, KeptOnly DEF claimCommissionRewards, setCommission
  <2>7. ASSUME NEW u, confirmUndelegate(u) \/ cancelUndelegate(u) PROVE astray' = astray
    BY <2>7, KeptOnly DEF confirmUndelegate, cancelUndelegate
  <2>8. ASSUME NEW d \in Delegator, claimAllRewards(d) PROVE astray' = astray
    <3>1. \A v \in Validator : Delegated(d, v) => ~ClaimFails(v)
      BY NoDelegations DEF Sound, ValidatorStake, ClaimFails
    <3> QED
      BY <2>8, <3>1, KeptOnly DEF claimAllRewards
  <2> QED
    BY <1>1, <2>1, <2>2, <2>3, <2>4, <2>5, <2>6, <2>7, <2>8 DEF Transaction
<1>2. CASE Genesis
  BY <1>2, KeptOnly DEF Genesis, GenesisValidator, GenesisDelegation, EndGenesis, delegate,
                        registerValidatorWithoutChecks, ledger
<1>3. CASE Distribution \/ EndBlock \/ UNCHANGED vars
  BY <1>3 DEF Distribution, DistributeRewards, RewardValidator, EndDistribution, EndBlock, ledger, vars
<1>4. CASE Penalties
  BY <1>4 DEF Penalties, ResumeEviction, forceEvictValidator, undelegateInternal, EndEviction,
              EndResume, Scan, EndScan, StartEviction, EndPenalties, ledger
<1> QED
  BY <1>1, <1>2, <1>3, <1>4 DEF Next

(***************************************************************************)
(* While every call of the contract is a CALL that is kept, the contract   *)
(* can always pay what it owes, out of its own balance: no call, in any    *)
(* order, meets the panic of transferContractBalance, unless one of the    *)
(* damaging error paths was taken.                                         *)
(***************************************************************************)
THEOREM KeptCallsArePaid ==
  ASSUME MinimumDeposit > 0, Frames = {}
  PROVE  Spec => [](Spared({"cancel", "redelegate", "zero"}) =>
                      balance >= SumFunctionOnSet([u \in und |-> u.amount], und)
                                 + SumFunctionOnSet([v \in Validator |-> Liability(v)], Validator))
<1> DEFINE Home == Whole => astray = 0
           Pays == Spared({"cancel", "redelegate", "zero"}) =>
                     balance >= SumFunctionOnSet([u \in und |-> u.amount], und)
                                + SumFunctionOnSet([v \in Validator |-> Liability(v)], Validator)
<1>1. Init => PaidInv /\ Home
  BY InitPaid DEF Init
<1>2. PaidInv /\ Home /\ [Next]_vars => PaidInv' /\ Home'
  <2> SUFFICES ASSUME PaidInv, Home, [Next]_vars PROVE PaidInv' /\ Home'
    OBVIOUS
  <2>1. PaidInv'
    BY StepPaid
  <2>2. ASSUME Whole' PROVE astray' = 0
    <3>1. Sound /\ Whole
      <4>1. defects \subseteq defects'
        BY <2>1, StepStakes DEF PaidInv, IInv
      <4>2. Whole
        BY <2>2, <4>1, SparedBefore DEF Whole
      <4> QED
        BY <4>2, WholeIsSound DEF PaidInv
    <3> QED
      BY <3>1, NothingStrays
  <2> QED
    BY <2>1, <2>2
<1>3. PaidInv /\ Home => Pays
  <2> SUFFICES ASSUME PaidInv, Home, Whole
               PROVE  balance >= SumFunctionOnSet([u \in und |-> u.amount], und)
                                 + SumFunctionOnSet([v \in Validator |-> Liability(v)], Validator)
    BY DEF Whole
  <2>1. Counted /\ Backed /\ LedgerOK /\ StakeTrue
    BY WholeIsSound DEF PaidInv, Covered, Sound
  <2>2. balance + astray >= SumFunctionOnSet([u \in und |-> u.amount], und)
                            + SumFunctionOnSet([v \in Validator |-> Liability(v)], Validator)
    BY <2>1, BackedIsSolvent
  <2>3. balance + astray = balance
    BY <2>1 DEF Counted, Funded
  <2> QED
    BY <2>2, <2>3
<1> QED
  BY <1>1, <1>2, <1>3, PTL DEF Spec

(***************************************************************************)
(* What others do never costs a delegation: while no error path damages    *)
(* the ledger, no call, distribution or eviction that leaves a delegation  *)
(* as it is lowers the reward it would be paid.                            *)
(***************************************************************************)
THEOREM RewardsNeverShrink ==
  ASSUME MinimumDeposit > 0
  PROVE  Spec => RewardsKept
<1>1. PaidInv /\ [Next]_vars => PaidInv'
  BY StepPaid
<1>2. PaidInv /\ [Next]_vars =>
        [\A d \in Delegator, v \in Validator :
           Delegated(d, v) /\ del'[d][v] = del[d][v] /\ defects' = {}
             => Owed(d, v)' >= Owed(d, v)]_vars
  <2> SUFFICES ASSUME PaidInv, [Next]_vars, NEW d \in Delegator, NEW v \in Validator,
                      Delegated(d, v), del'[d][v] = del[d][v], defects' = {}
               PROVE  Owed(d, v)' >= Owed(d, v)
    OBVIOUS
  <2>1. Whole'
    BY DEF Whole, Spared
  <2>2. IInv' /\ StakeAccounted' /\ Positive' /\ RefsCounted'
    BY <1>1 DEF PaidInv
  <2>3. Sound /\ Sound' /\ AllFresh /\ Flows
    BY <2>1, <2>2, WholeStep
  <2>4. PICK g \in [Validator -> Int] : \A w \in Validator : Fate(w, g[w])
    BY <2>3 DEF Flows
  <2>5. Fate(v, g[v]) /\ FreshAt(v)
    BY <2>3, <2>4 DEF AllFresh
  <2> QED
    BY <2>3, <2>5, FateOwed
<1> QED
  BY <1>1, <1>2, InitPaid, PTL DEF Spec, RewardsKept

=============================================================================
