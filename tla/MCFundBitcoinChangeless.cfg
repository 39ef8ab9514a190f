SPECIFICATION Spec
CONSTANTS
  RateLimit = 65536
  MCMaxCoins = 1
  MCAmounts = {3, 8, 13}
  MCSizes = {2, 3}
  MCRates = {1000}
  MCTxAmounts = {0, 4}
  MCTargets = {0, 2, 6}
  MCDusts = {2}
  ChangeSize = 1
  Requests <- MCRequests
  Wallets <- MCWallets
  Listed <- MCListed
INVARIANTS
  ChangelessIsAccepted
