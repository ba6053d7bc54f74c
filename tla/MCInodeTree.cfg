SPECIFICATION Spec
CONSTANTS
  NULL = NULL
  NoTask = NoTask
  i1 = i1
  i2 = i2
  n1 = n1
  n2 = n2
  l1 = l1
  l2 = l2
  l3 = l3
  Tasks = {t1, t2}
  Dirs = {i1, i2}
  Names = {n1, n2}
  DirOf <- TwoDirs
  LowerInodes = {l1, l2, l3}
  DirInodes = {l3}
  FirstTarget <- HardLinks
  Dentries = {d1, d2, d3}
  Slots = {s1, s2, s3}
  Ops = {"lookup", "mknod", "mkdir", "link", "unlink", "rmdir", "rename", "open"}
  Faults = {"dentry_info", "lower_lookup", "want_write", "lower_op", "file_info", "lower_open", "alloc_inode"}
  MaxOps = 5
  MaxFaults = 2
INVARIANTS
  TypeOK
  NothingLost
  DcacheTruthful
  
SYMMETRY Symmetry
CHECK_DEADLOCK FALSE
