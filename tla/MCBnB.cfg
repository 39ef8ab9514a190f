SPECIFICATION FairSpec
CONSTANTS
  RateLimit = 65536
  MCMaxCoins = 4
  MCAmounts = {2, 3, 6}
  MCSizes = {70, 150}
  MCRate = 15
  MCLongTermRate = 7
  MCMaxTarget = 9
  Pools <- MCPools
  Targets <- MCTargets
  TxFees <- MCTxFees
  Costs <- MCCosts
  MaxTries = 15
  MaxAmount = 1000
INVARIANTS
  TypeOK
  RunningTotals
  BestIsSolution
  BestIsLeastWaste
PROPERTIES
  NoBranchTwice
  WalkCompletes
  KeepsContract
