SPECIFICATION Spec
CONSTANTS
  Handles = {h1}
  NoHandle = NoHandle
  Calls <- OneSelect
  MaxDepth = 1
PROPERTIES
  EmptyMeansSuccess
