SPECIFICATION Spec
CONSTANTS
  MaxReorg = 1
  MaxBlock = 3
  MaxStored = 3
  MaxLocal = 1
INVARIANTS
  CachedAnswersFinal
  ForkIsOneChain
