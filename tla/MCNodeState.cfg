SPECIFICATION StateSpec
CONSTANTS
  Roots = {r0, r1, r2}
  Genesis = r0
  MaxBlock = 2
  MaxSnapshotId = 4
  NoContext = NoContext
INVARIANTS
  IrregularStatesAnchored
PROPERTIES
  ReadsLeaveNoTrace
  ImplementsStore
