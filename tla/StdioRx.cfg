SPECIFICATION FairSpec
CONSTANTS
  Readers = {r1, r2}
  N = 5
  MaxLen = 2
  MaxReads = 3
  RxLen = 2
  CliLen = 2
  Nobody = Nobody
  NoIsr = NoIsr
INVARIANTS
  Ordered
  Operating
PROPERTIES
  Heard
CHECK_DEADLOCK FALSE
