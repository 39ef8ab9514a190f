SPECIFICATION Spec
CONSTANTS
  K1 = K1
  K2 = K2
  NoKey = NoKey
  MCKeys = {K1, K2, NoKey, Foreign}
  MCMaxLen = 2
  MaxSigns = 3
  MaxCalls = 2
  PubkeyLists <- MCPubkeyLists
  SignLists <- MCSignLists
INVARIANTS
  TypeOK
  NoSignatureLost
  SignaturesInKeyOrder
  RefusedOnlyIfForeign
  WitnessUnlocks
PROPERTIES
  CallsReturn
