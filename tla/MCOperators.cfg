SPECIFICATION Spec
CONSTANTS
  Half = 8
  Regime = "auto"
  NullKey = 8
  MissingKey = 9
INVARIANTS JoinsExact MergeJoinSound OrderLimitExact AggregatesExact MergeExact NoFalseAlarm
