SPECIFICATION MCSpec
CONSTANTS
  LastPage = 3
  MaxAttempts = 3
  Handles = {h1, h2}
  NoHandle = NoHandle
  Libraries = {l1, l2}
  NoLibrary = NoLibrary
  MaxDepth = 4
  MaxOpened = 3
INVARIANTS
  UndisturbedIsConsistent
  LibrariesAreCounted
  LoadingIsEnabledOnRequest
PROPERTIES
  BeginsOnACommit
  ReadsEnd
