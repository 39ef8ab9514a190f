SPECIFICATION FeeSpec
CONSTANTS
  RateLimit = 4096
  MaxRate = 4095
  MaxSize = 6
CHECK_DEADLOCK FALSE
INVARIANTS
  DustPaysForSpending
PROPERTIES
  FeeOnlyRises
