SPECIFICATION Spec
CONSTANTS
  RateLimit = 65536
  Lbtc = Lbtc
  Token = Token
  NoAsset = NoAsset
  MCMaxCoins = 2
  MCAmounts = {3, 7, 13}
  MCRates = {0, 1000}
  MCDust = 2
  ChangeSize = 5
  Assets <- MCAssets
  Requests <- MCRequests
  Wallets <- MCWallets
  Listed <- MCListed
INVARIANTS
  MatchAppendsNothing
