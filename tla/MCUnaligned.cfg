SPECIFICATION Spec
CONSTANTS
  NULL = NULL
  Zero = Zero
  Junk = Junk
  NoTask = NoTask
  t1 = t1
  t2 = t2
  f1 = f1
  f2 = f2
  k1 = k1
  k2 = k2
  d1 = d1
  d2 = d2
  Keys = {k1}
  Data = {d1}
  Tasks = {t1, t2}
  Files = {f1, f2}
  Opens <- PrivateFiles
  AppendFiles = {}
  WriteShapes <- AnyChunk
  TruncSizes <- PageSizes
  Allow = {}
  Faults = {}
  PageSize = 2
  NumPages = 2
  MaxOps = 2
  MaxFaults = 0
  MaxKeyOps = 1
INVARIANT ChunkOnDisk
CHECK_DEADLOCK FALSE
