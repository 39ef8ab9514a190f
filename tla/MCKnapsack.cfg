SPECIFICATION FairSpec
CONSTANTS
  MCMaxCoins = 3
  MCValues = {1, 2, 4, 7}
  MCMaxTarget = 8
  Pools <- MCPools
  Targets <- MCTargets
  MinChanges = {0, 2}
  Iterations = 1
INVARIANTS
  TypeOK
  RunningTotal
  BestIsSubset
  NoSmallChange
PROPERTIES
  Finishes
  KeepsContract
