SPECIFICATION ForkSpec
CONSTANTS
  Accounts = {a}
  Slots = {k1}
  Values = {0, 1}
  ForkBlock = 1
  Remote <- MCRemote
  Undefined = Undefined
  MaxRoots = 3
  MaxCheckpoints = 2
  MaxWrites = 3
PROPERTY ImplementsEagerState
