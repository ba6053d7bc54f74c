SPECIFICATION FairSpec
CONSTANTS
  NULL = NULL
  Tasks = {t1, t2}
  Files = {f1}
  Vmas = {v1, v2}
  NumPages = 2
  FirstSize = 1
  Values = {x1}
  Zero = Zero
  Ops = {"open", "close", "write", "truncate", "fsync", "mmap", "munmap", "touch", "link", "unlink"}
  Faults = {"file_info", "lower_open", "lower_write", "lower_truncate", "lower_mmap", "lower_link"}
  MaxOps = 5
  MaxFaults = 1
INVARIANTS
  TypeOK
  FaultFindsLower
  
  SizeRepaired
PROPERTIES
  FsyncDurable
  CallsReturn
CHECK_DEADLOCK FALSE
