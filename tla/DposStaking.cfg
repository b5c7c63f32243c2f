SPECIFICATION Spec
CONSTANTS
  Validator = {v1, v2}
  Delegator = {d1, d2}
  Nil = Nil
  ValidatorMaximumStake = 2
  MinimumDeposit = 1
  EligibilityBalanceThreshold = 2
  VoteEligibilityBalanceStep = 1
  DelegationLockingPeriod = 1
  CommissionChangeFrequency = 2
  CommissionChangeDelta = 4000
  InactivityEpochBlocks = 10
  MaxEvictionsPerBlock = 1
  MinimumCommission = 1000
  UndelegationsModulus = 65536
  Frames = {"code", "undone"}
  Funds = 2
  Amounts = {1, 2}
  Commissions = {5000}
  Rewards = {3}
  MaxCalls = 2
  MaxBatch = 1
  MaxBlock = 2
INVARIANTS
  TypeOK
  StakeAccounted
  RefsCounted
  NothingDangles
  MaxStakeRespected
  Solvent
PROPERTY
  RewardsKept
CONSTRAINT Undamaged
SYMMETRY Symmetry
CHECK_DEADLOCK FALSE
