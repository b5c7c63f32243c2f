CONSTANTS
  Accounts = {a1, a2}
  Workers = {w1, w2}
  QueueCap = 1
  MainCap = 1
  MaxMutations = 2
  MaxUpdates = 3
SPECIFICATION Spec
INVARIANTS
  OneHolder
  RootComplete
PROPERTIES
  TasksInOrder
  BlockEnds
