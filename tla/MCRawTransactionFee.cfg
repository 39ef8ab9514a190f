SPECIFICATION Spec
CONSTANTS
  A = A
  B = B
  o1 = o1
  o2 = o2
  Outpoints = {o1, o2}
  Assets = {A, B}
  NoAsset = NoAsset
  Locktimes = {0, 1}
  MaxSequence = 3
  TxIns <- MCTxIns
  TxOuts <- MCTxOuts
  Listed <- MCListed
  Coins <- MCCoins
  Changes <- MCChanges
  MaxTxOuts = 5
  MaxCalls = 4
PROPERTIES
  FeeAssetsAreKept
