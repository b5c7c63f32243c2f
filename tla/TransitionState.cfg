CONSTANTS
  sender = sender
  callee = callee
  dpos = dpos
  Addr = {sender, callee, dpos}
  Precompile = dpos
  Creatable = {callee}
  Key = {k1}
  MaxVal = 1
  Amounts <- MCAmounts
  Fees <- MCFees
  Genesis <- MCGenesis
  Nil = Nil
  MaxDepth = 1
  MaxOps = 3
  MaxTx = 2
  MaxBlock = 1
SPECIFICATION Spec
CONSTRAINT NoLeftovers
CHECK_DEADLOCK FALSE
INVARIANTS
  NoCoinsCreated
  RefundCovered
  ReadsOwnWrites
PROPERTIES
  ImplementsWorld
