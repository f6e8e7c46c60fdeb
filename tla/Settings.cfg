SPECIFICATION Spec
CONSTANTS
  NotANumber = NotANumber
  NoFile = NoFile
  MaxLines = 3
  MaxRequests = 1
  MaxInt = 3
  KeyOrder <- McKeyOrder
  OtherKeys <- McOtherKeys
  Kind <- McKind
  Words <- McWords
  Trim <- McTrim
  LineBroken <- McLineBroken
  Pieces <- McPieces
  Separated = {"w,x"}
  Modes = {"off"}
  Default <- McDefault
  InitTexts <- McInitTexts
  Patches <- McPatches
  Orders <- McOrders
  Links = {"x"}
INVARIANTS
  RewritesSettle
PROPERTIES
  PutChangesOnlyWhatItNames
  OrderIsNarrow
CHECK_DEADLOCK FALSE
