SPECIFICATION MCSpec
CONSTANTS
  h1 = h1
  h2 = h2
  c1 = c1
  c2 = c2
  null = null
  number = number
  text1 = text1
  text2 = text2
  wide = wide
  garbled = garbled
  a = a
  b = b
  Handles <- MCHandles
  NoHandle = NoHandle
  Callables <- MCCallables
  Freed = Freed
  Null = null
  Numbers <- MCNumbers
  Texts <- MCTexts
  Lists <- MCLists
  Latin1 <- MCLatin1
  MaxDepth = 2
  MaxCreated = 3
  ColumnValues <- MCValues
  MaxRowid = 3
  Inserts <- MCInserts
  Complex = FALSE
SYMMETRY MCSymmetry
INVARIANTS
  NoDanglingFunctions
  LastCreatedAnswers
  ListenerFollows
