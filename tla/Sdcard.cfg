SPECIFICATION FairSpec
CONSTANTS
  N = 2
  MaxNum = 2
  Data = {d1, d2}
  Junk = Junk
  Heap = 2
  LostAnswers = TRUE
  NoDma = NoDma
INVARIANTS
  Delivered
  Quiet
PROPERTIES
  CallReturns
