SPECIFICATION Spec
CONSTANTS
  r1 = r1
  r2 = r2
  Rows <- OneRow
  Writes <- OneInsert
  DeferredFk <- NoFk
  Conns = {c1, c2}
  IoFaults = FALSE
  RowArrays <- FailingArray
  Updates <- NoUpdate
  Queries <- LeavingQueries
SYMMETRY ConnSymmetry
PROPERTY TransactionClosedOnReturn
