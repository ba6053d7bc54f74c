SPECIFICATION Spec
CONSTANTS
  NULL = NULL
  Tasks = {t1, t2}
  Supers = {s1, s2}
  Strings = {x1, x2}
  Bufs = {b1, b2, b3}
  Faults = {"icache", "dcache", "register", "sget", "kern_path", "sb_info", "root_inode", "root_dentry", "root_info", "integ_val", "copy_args", "getname", "md5_digest", "alloc_hash", "hash_init", "hash_final", "link_buf", "readlink"}
  OptionStrings <- OptionLists
  MaxDevs = 2
  MaxOps = 6
  MaxFaults = 1
INVARIANTS
  TypeOK
  LowerAccounted
  CachesOutliveObjects
  FilesFollowOption
  KeyIsDigest
  KeyInUseStable
  AddrLimitRestored
  LinkBufsFreed
SYMMETRY Symmetry
CHECK_DEADLOCK FALSE
