SPECIFICATION MCSpec
CONSTANTS
  k1 = k1
  k2 = k2
  Kind <- MCKind
  On <- MCOn
  Shadows <- MCShadows
  References <- MCReferences
  Fires <- MCFires
  Hidden <- MCHidden
  Awkward <- MCAwkward
  Keys <- MCKeys
  ForeignKeys = TRUE
  Faults = {"busy", "ioerr", "commit"}
  MaxFaults = 1
  Contents <- AllContents
  Archives <- MCArchives
  Values <- MCValues
  MaxRows = 3
INVARIANTS
  FileIsNotOrphaned
  PlainComesBack
PROPERTIES
  CleanImportIsComplete
  RowsAppearTogether
  StoppedImportIsCommitted
  ImportLeavesOpenOnlyIf
  TablesLeftAreParents
  ExportInTransactionIsSnapshot
