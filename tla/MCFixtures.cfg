SPECIFICATION FixturesSpec
CONSTANTS
  f1 = f1
  f2 = f2
  Roots = {r0, r1}
  Genesis = r0
  FixtureFns = {f1, f2}
  MaxBlock = 1
  MaxSnapshotId = 5
  MaxResets = 1
SYMMETRY FixtureSymmetry
INVARIANTS
  RestoresOwnState
  LoadedFixturesUsable
