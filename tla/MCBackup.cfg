SPECIFICATION MCSpec
CONSTANTS
  row = row
  from = from
  to = to
  reader = reader
  other = other
  Rows <- MCRows
  Writes <- MCWrites
  DeferredFk <- MCFk
  Used <- MCUsed
  Sources = {from, other}
  Destinations = {to, reader}
  From = from
  To = to
  Dicts <- MCDicts
  Again <- MCAgain
INVARIANTS
  LocksAreKept
  ForeignKeysHold
  CreatesWhatIsAsked
PROPERTIES
  CopiesWhatIsCommitted
  ReturnsCleanly
  CallReturns
