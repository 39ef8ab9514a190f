SPECIFICATION KeySpec
CONSTANTS
  S1 = S1
  S2 = S2
  Roots = {S1, S2}
  Hardened = 2
  MaxDepth = 2
  MaxKeyCalls = 3
  Holdings <- MCHoldings
INVARIANTS
  KeyTypeOK
  RefusedOnlyIfForbidden
PROPERTIES
  KeepsAuthority
CHECK_DEADLOCK FALSE
