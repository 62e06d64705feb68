SPECIFICATION Spec
CONSTANTS
  Users = {u1, u2}
  Monitor = monitor
  Nobody = Nobody
  Files = {f1, f2}
  Dirs = {d1}
  Root = Root
  Blank = Blank
  FF_FS_LOCK = 2
  MaxMounts = 2
  MaxOpens = 2
SYMMETRY Symmetric
INVARIANTS
  TypeOK
  Locked
  Shares
  OpenKept
CHECK_DEADLOCK FALSE
