SPECIFICATION SplitSpec
CONSTANTS
  Word = 65536
  EpochLength = 10000000
  BlocksPerYear = 1
  Validator = {a, b, c}
  MaxSupply = 40
  GenesisSupply = 10
  DagProposersReward = 50
  MaxBlockAuthorReward = 10
  Delegations = {145, 290}
  BlockNums = {0}
  MaxWeight = 4
INVARIANTS
  SupplyCapped
  YieldDecays
SYMMETRY Symmetry
