SPECIFICATION Spec
CONSTANTS
  NULL = NULL
  Zero = Zero
  Junk = Junk
  NoTask = NoTask
  t1 = t1
  t2 = t2
  f1 = f1
  f2 = f2
  k1 = k1
  k2 = k2
  d1 = d1
  d2 = d2
  Keys = {k1}
  Data = {d1}
  Tasks = {t1, t2}
  Files = {f1, f2}
  Opens <- AppendFile
  AppendFiles = {f2}
  WriteShapes <- AnyChunk
  TruncSizes <- AnySize
  Allow = {"sparse", "grow", "keyless", "clear"}
  Faults = {"grab_page", "dst_page", "cipher", "cipher_err", "lower_read", "lower_write", "lower_setattr", "short_copy"}
  PageSize = 2
  NumPages = 2
  MaxOps = 3
  MaxFaults = 1
  MaxKeyOps = 2
INVARIANTS
  Exclusive
  LostLockHidesNothing
  DirtyIsUptodate
CHECK_DEADLOCK FALSE
