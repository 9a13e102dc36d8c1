SPECIFICATION Spec
CONSTANTS
  Keys = {k1, k2}
  Cursors = {c1, c2}
  All = All
  MaxCells = 3
  MaxPuts = 4
  MaxUpdates = 1
SYMMETRY Symm
INVARIANTS TypeOK PoolExact ChainExact
PROPERTY Refines
CHECK_DEADLOCK FALSE
