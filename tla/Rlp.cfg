SPECIFICATION Spec
CONSTANTS
  SingleTop = 2
  Short = 3
  LongTags = 2
  Strings <- MCStrings
  Uints <- MCUints
  ArrayLengths = {0, 1, 2}
  MaxAppends = 4
  MaxDrops = 1
  Inputs <- MCInputs
INVARIANTS
  ReadsCanonical
  RoundTrip
  SplitAgrees
CHECK_DEADLOCK FALSE
