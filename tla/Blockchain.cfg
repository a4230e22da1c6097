SPECIFICATION Spec
CONSTANTS
  Timestamps = {1}
  Intervals = {2}
  Counts = {1, 3}
  Roots = {r1}
  Fees = {7}
  Difficulties = {1}
  Txs = {t1}
  MaxLength = 6
  MaxSnapshots = 2
INVARIANTS
  EveryNumberOnce
  IndexesExact
  SnapshotsRevertible
PROPERTIES
  RevertMatchesLoop
  LazyIsEager
