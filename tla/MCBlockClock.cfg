CONSTANTS
  AllowSame = FALSE
  StartDates = {600}
  InitialDates = {2300}
  Steps = {700}
  Increments = {1}
  Ahead <- MCAhead
  Counts = {4}
  Intervals = {2}
  ReserveThreshold = 1
  MaxDate = 2700
  MaxClock = 4
  MaxBlocks = 5
  MaxSnapshots = 2
SPECIFICATION Spec
INVARIANTS TimestampsIncrease ClockNotBehind BatchIsExact
PROPERTIES RevertRestoresClock
