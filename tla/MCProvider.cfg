SPECIFICATION LiveSpec
CONSTANTS
  Clients = {c1, c2}
  BlockTimes = {0, 5}
  Slots = {1, 2}
  Forks = {local, fork, dead}
  NoFork = local
  Reachable = {local, fork}
  InitialFork = fork
  IntervalMining = 5
  Kinds = {"other", "setInterval", "reset"}
  MaxTicks = 2
  MaxResets = 1
  MaxChanges = 1
INVARIANTS
  OnlyCurrentTimerRuns
PROPERTIES
  EveryRequestAnswered
  IntervalMiningGoesOn
  MutexIsFair
