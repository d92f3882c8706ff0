SPECIFICATION Spec
CONSTANTS
  Handles = {h1, h2, h3}
  NoHandle = NoHandle
  Calls <- MCCalls
  MaxDepth = 2
SYMMETRY HandleSymmetry
INVARIANTS
  NoStatementLeaks
PROPERTIES
  OutcomeIsOwn
  ResultIsExact
