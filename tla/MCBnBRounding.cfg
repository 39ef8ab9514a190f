SPECIFICATION FairSpec
CONSTANTS
  RateLimit = 65536
  MCMaxCoins = 4
  MCAmounts = {146, 150}
  MCSizes = {148, 149}
  MCRate = 919
  MCLongTermRate = 499
  MCMaxTarget = 9
  Pools <- MCPools
  Targets <- MCTargets
  TxFees <- MCTxFees
  Costs <- MCCosts
  MaxTries = 40
  MaxAmount = 1000
INVARIANTS
  SkippedCoinHasSameWaste
