SPECIFICATION Spec
CONSTANTS
  Rows = {r1, r2, r3}
  MaxDepth = 3
  MaxRows = 2
  IoFaults = TRUE
SYMMETRY Symmetry
INVARIANTS
  NothingDangles
PROPERTIES
  NoCommitMidway
  StatementsAreAtomic
  InsertRowsCloses
