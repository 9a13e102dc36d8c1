SPECIFICATION Spec
CONSTANTS
  M = 16
  Configs <- MCConfigs
  MaxGap = 3
  MaxRows = 4
  Horizon = 7
INVARIANTS WindowExact AggregateExact SlideKept BaseExact
CHECK_DEADLOCK FALSE
