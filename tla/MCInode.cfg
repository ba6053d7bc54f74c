SPECIFICATION FairSpec
CONSTANTS
  NULL = NULL
  NoTask = NoTask
  i1 = i1
  i2 = i2
  n1 = n1
  n2 = n2
  l1 = l1
  l2 = l2
  l3 = l3
  Tasks = {t1, t2}
  Dirs = {i1, i2}
  Names = {n1, n2}
  DirOf <- OneDir
  LowerInodes = {l1, l2}
  DirInodes = {}
  FirstTarget <- HardLinks
  Dentries = {d1, d2, d3}
  Slots = {s1, s2}
  Ops = {"lookup", "create", "symlink", "link", "unlink", "rename"}
  Faults = {"lower_lookup", "want_write", "lower_op"}
  MaxOps = 4
  MaxFaults = 1
INVARIANTS
  OneInodePerLower
  LowerRefsBalanced
PROPERTY
  CallsReturn
CHECK_DEADLOCK FALSE
