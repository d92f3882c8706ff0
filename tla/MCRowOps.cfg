SPECIFICATION Spec
CONSTANTS
  r1 = r1
  r2 = r2
  Rows <- MCRows
  Writes <- MCWrites
  DeferredFk <- MCDeferredFk
  Conns = {c1, c2}
  IoFaults = TRUE
  RowArrays <- MCRowArrays
  Updates <- MCUpdates
  Queries <- MCQueries
SYMMETRY ConnSymmetry
INVARIANTS
  TypeOK
  LocksAreSound
  FileIsNotOrphaned
  BatchIsTransactional
PROPERTIES
  ImplementsStore
  LeavesOpenOnlyIfRefused
  CleanReturnIsDurable
  OwnTransactionIsExact
  FailureIsExplained
