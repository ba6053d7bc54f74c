----------------------------- MODULE LowerFile ------------------------------
(***************************************************************************)
(* The lower (ext3) regular file as src/ uses it: vfs_read, vfs_write and  *)
(* notify_change.  External code, modelled by the effect its callers rely  *)
(* on.  The contents are pages of cells; every cell at or past the size is *)
(* a raw zero, so growing the file exposes unencrypted zeros.              *)
(***************************************************************************)
EXTENDS PageCipher

CONSTANT NumPages     \* bound on the length of the file, in pages

ASSUME NumPagesAssumption == NumPages \in Nat \ {0}

Pages   == 0 .. NumPages - 1
MaxSize == NumPages * PageSize
Pos(p, o) == p * PageSize + o

EmptyFile == [p \in Pages |-> [o \in Offs |-> Raw(Zero)]]

\* The number of cells vfs_read returns for one page from position at.
ReadCount(size, at) ==
  IF at >= size THEN 0
  ELSE IF size - at < PageSize THEN size - at ELSE PageSize

\* vfs_read(file, dst, PAGE_CACHE_SIZE, at) into a page fresh from
\* alloc_page: the cells past the end of the file are left uninitialised.
ReadCells(file, size, at) ==
  [o \in Offs |-> IF o < ReadCount(size, at)
                  THEN file[(at + o) \div PageSize][(at + o) % PageSize]
                  ELSE Raw(Junk)]

\* vfs_write(file, src, n, at).
WriteCells(file, src, n, at) ==
  [p \in Pages |-> [o \in Offs |->
     IF at <= Pos(p, o) /\ Pos(p, o) < at + n
     THEN src[Pos(p, o) - at]
     ELSE file[p][o]]]

\* The size after vfs_write; MaxSize is the file system's s_maxbytes, at
\* which a write is cut off.
SizeAfter(size, n, at) ==
  LET end == IF at + n > MaxSize THEN MaxSize ELSE at + n IN
  IF n > 0 /\ end > size THEN end ELSE size

\* notify_change with ATTR_SIZE.
TruncateCells(file, size) ==
  [p \in Pages |-> [o \in Offs |->
     IF Pos(p, o) < size THEN file[p][o] ELSE Raw(Zero)]]

=============================================================================
