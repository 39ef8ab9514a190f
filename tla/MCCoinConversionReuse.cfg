SPECIFICATION Spec
CONSTANTS
  Assets = {A, B}
  None = None
  kScriptSize = 50
  EstimateWitness <- MCEstimateWitness
  EstimateUscript <- MCEstimateUscript
INVARIANTS
  OnlyOfThisCoin
