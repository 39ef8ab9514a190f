SPECIFICATION Spec
CONSTANTS
  K1 = K1
  K2 = K2
  NoKey = NoKey
  MCKeys = {K1, K2, NoKey}
  MCMaxLen = 2
  MaxSigns = 3
  MaxCalls = 1
  PubkeyLists <- MCPubkeyLists
  SignLists <- MCSignLists
INVARIANTS
  SignaturesAligned
