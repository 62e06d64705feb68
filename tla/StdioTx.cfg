SPECIFICATION FairSpec
CONSTANTS
  Writers = {w1, w2}
  Texts <- AnyTexts
  NBufs = 2
  Depth = 2
  MaxCalls = 1
  NoTx = NoTx
INVARIANTS
  TypeOK
  Line
PROPERTIES
  CallReturns
  Drained
CHECK_DEADLOCK FALSE
