SPECIFICATION Spec
CONSTANTS
  r1 = r1
  r2 = r2
  Rows <- OneRow
  Writes <- OneWrite
  DeferredFk <- NoFk
  Conns = {c1, c2}
  IoFaults = FALSE
  RowArrays <- OneArray
  Updates <- OneUpdate
  Queries <- LeavingQueries
PROPERTY CallsReturn
