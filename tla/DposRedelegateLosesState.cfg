SPECIFICATION Spec
CONSTANTS
  Validator = {v1, v2}
  Delegator = {d1, d2}
  Nil = Nil
  ValidatorMaximumStake = 3
  MinimumDeposit = 1
  EligibilityBalanceThreshold = 2
  VoteEligibilityBalanceStep = 1
  DelegationLockingPeriod = 0
  CommissionChangeFrequency = 9
  CommissionChangeDelta = 0
  InactivityEpochBlocks = 9
  MaxEvictionsPerBlock = 1
  MinimumCommission = 0
  UndelegationsModulus = 65536
  Frames = {}
  Funds = 2
  Amounts = {1, 2}
  Commissions = {500}
  Rewards = {0}
  MaxCalls = 4
  MaxBatch = 1
  MaxBlock = 2
INVARIANT
  StateNeverMissing
CHECK_DEADLOCK FALSE
