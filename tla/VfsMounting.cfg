SPECIFICATION Spec
CONSTANTS
  NULL = NULL
  root = root
  sd = sd
  in_root = in_root
  in_sd = in_sd
  dev = dev
  Users = {u1, u2}
  Mounters = {monitor}
  MountPts = {root, sd, dev}
  Names = {in_root, in_sd}
  VFS_MAX_OPEN_FILES = 4
  Prefixes <- Prefix
  PathLen <- Len1
  MountPath <- Path
  DirFs = {root, sd}
  Ops = {"open", "iterate", "path"}
  ForceArgs = {}
CONSTRAINT Bound
SYMMETRY Symmetric
INVARIANTS
  TypeOK
  RefsCounted
  FdKept
  ListExclusive
  LongestFound
  IterationComplete
