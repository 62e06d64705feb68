SPECIFICATION Spec
CONSTANTS
  NULL = NULL
  root = root
  sd = sd
  in_root = in_root
  in_sd = in_sd
  dev = dev
  Users = {u1}
  Mounters = {monitor}
  MountPts = {sd}
  Names = {in_sd}
  VFS_MAX_OPEN_FILES = 4
  Prefixes <- Prefix
  PathLen <- Len1
  MountPath <- Path
  DirFs = {sd}
  Ops = {"open"}
  ForceArgs = {TRUE}
PROPERTIES
  GivenByHolder
