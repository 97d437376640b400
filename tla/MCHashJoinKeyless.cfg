SPECIFICATION Spec
CONSTANTS
  Half = 8
  Regime = "auto"
  NullKey = 8
  MissingKey = 9
INVARIANT OuterKeepsKeyless
