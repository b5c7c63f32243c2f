SPECIFICATION Spec
CONSTANTS
  Item = {a, b, c, d, e}
  Nil = Nil
  MaxPos = 10
INVARIANTS
  Consistent
  PagesCoverItems
PROPERTY
  ImplementsList
CHECK_DEADLOCK FALSE
