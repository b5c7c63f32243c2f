SPECIFICATION Spec
CONSTANTS
  Validator = {v1, v2}
  Delegator = {d1, d2}
  Nil = Nil
  ValidatorMaximumStake = 4
  MinimumDeposit = 1
  EligibilityBalanceThreshold = 2
  VoteEligibilityBalanceStep = 1
  DelegationLockingPeriod = 1
  CommissionChangeFrequency = 9
  CommissionChangeDelta = 0
  InactivityEpochBlocks = 1
  MaxEvictionsPerBlock = 1
  MinimumCommission = 0
  UndelegationsModulus = 65536
  Frames = {}
  Funds = 2
  Amounts = {2}
  Commissions = {0}
  Rewards = {0}
  MaxCalls = 1
  MaxBatch = 2
  MaxBlock = 6
INVARIANTS
  EligibleVotesExact
  DecayOncePerEpoch
PROPERTY
  DistributionAdvances
  EvictionComplete
CONSTRAINT Undamaged
SYMMETRY Symmetry
CHECK_DEADLOCK FALSE
