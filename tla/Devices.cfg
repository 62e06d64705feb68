SPECIFICATION DevicesSpec
CONSTANTS
  N = 3
  P = 2
  W = 16
  Byte = {b0, b1}
  Zero = b0
  Ops = {"read", "read_page", "write_page_raw", "write_page", "write_sector", "erase_sector"}
  MaxLen = 4
  Args = {0, 1, 2, 3, 5, 14, 15}
  Chars = {x, y}
  RxSize = 3
  CmdMax = 4
  Letters = {"a"}
  NAME_MAX = 8
  Cwds <- SomeCwds
INVARIANTS
  TypeOK
  
  
  InOrder
  CursorKept
  PathsMeant
