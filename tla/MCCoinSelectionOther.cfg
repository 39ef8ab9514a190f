SPECIFICATION Spec
CONSTANTS
  NoAsset = NoAsset
  Lbtc = Lbtc
  Token = Token
  MCMaxCoins = 2
  MCAmounts = {1, 3, 4}
  MCMaxTarget = 3
  Leftovers = {0, 3}
  Requests <- MCRequests
  Wallets <- MCWallets
INVARIANTS
  OtherAssetsIgnoreFees
