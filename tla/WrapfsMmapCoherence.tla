------------------------ MODULE WrapfsMmapCoherence -------------------------
(***************************************************************************)
(* The page cache and the encrypted lower file tell the same story, proved *)
(* for any number of tasks, files, pages and cells and any bounds, for the *)
(* uses of the file under which they do.                                   *)
(***************************************************************************)
EXTENDS WrapfsMmapProofs

\* How the file is used: written and truncated by whole pages, without holes,
\* through descriptors that tasks do not share, with one key that is not taken
\* away again.  Writes may find no page cache page, decryption may report an
\* error and the lower file system may refuse a size change.
Orderly ==
  /\ WriteShapes \subseteq {<<0, PageSize>>}
  /\ TruncSizes \subseteq {n * PageSize : n \in 0 .. NumPages}
  /\ Allow \subseteq {"keyless"}
  /\ AppendFiles = {}
  /\ \A t, u \in Tasks : t # u => Opens[t] \cap Opens[u] = {}
  /\ \A j, k \in Keys : j = k
  /\ Faults \subseteq {"grab_page", "cipher_err", "lower_setattr"}

-----------------------------------------------------------------------------
(***************************************************************************)
(* The inductive invariant.                                                *)
(***************************************************************************)

\* Whoever encrypts or decrypts does so with the key of the mount.
KeyInv ==
  \A t \in Tasks :
    /\ pc[t] \in {"wr_page", "wr_copy", "we_key"} => key # NULL
    /\ pc[t] \in {"rp_seek", "rp_read", "rp_done", "we_write", "we_tail"} =>
         key # NULL /\ encKey[t] = key

WriteCallPcs == {"wr_begin", "wr_page", "we_size"} \cup WritePcs

\* A write is of one whole page at most one page past the end of the file.
ChunkInv ==
  \A t \in Tasks :
    /\ pc[t] \in WriteCallPcs =>
         /\ req[t].from = 0 /\ req[t].len = PageSize /\ req[t].v \in Data
         /\ Pos(req[t].p, 0) <= isize
    /\ pc[t] \in {"we_key", "we_write", "we_tail", "we_size"} =>
         req[t].copied = PageSize
    /\ pc[t] \in {"we_tail", "we_size"} =>
         Pos(req[t].p, 0) + PageSize <= isize

\* The lower file is never shorter than the wrapfs file, and a truncation
\* has only pages past the new end left to visit.
LengthInv ==
  /\ isize <= lsize
  /\ \A t \in Tasks : pc[t] = "tr_pages" =>
       \A i \in todo[t] : isize <= Pos(i, 0)

\* readpage reads its page at its place, and what it has read stays what the
\* lower file holds, for as long as it has the page locked.
ReadInv ==
  \A t \in Tasks :
    /\ pc[t] \in ReadPcs \cup {"rd_find"} => req[t].f \in Opens[t]
    /\ pc[t] = "rp_read" => fpos[req[t].f] = Pos(req[t].p, 0)
    /\ pc[t] = "rp_done" => \A o \in Offs : Pos(req[t].p, o) < lsize =>
                              buf[t].cells[o] = lower[req[t].p][o]

\* Up to its end the lower file holds user data encrypted with the key.
StoreInv ==
  /\ key = NULL => lsize = 0
  /\ \A p \in Pages, o \in Offs : Pos(p, o) < lsize =>
       /\ lower[p][o].k = key /\ lower[p][o].o = o
       /\ lower[p][o].v \in Data

\* Between the copy and the end of write_end the page holds the user's data,
\* and from vfs_write on the lower file does.
WriterInv ==
  \A t \in Tasks, o \in Offs :
    /\ pc[t] \in {"we_key", "we_write", "we_tail"} =>
         data[req[t].p][o] = req[t].v
    /\ pc[t] = "we_tail" =>
         lower[req[t].p][o] = EncryptCell(key, o, req[t].v)

\* An up-to-date page nobody has locked holds what the lower file holds.
PageInv ==
  \A p \in Pages, o \in Offs :
    p \in uptodate /\ plock[p] = NoTask /\ Pos(p, o) < lsize =>
      data[p][o] = lower[p][o].v

DataInv == ReadInv /\ StoreInv /\ WriterInv /\ PageInv
CoherenceInv == KeyInv /\ ChunkInv /\ LengthInv /\ DataInv

-----------------------------------------------------------------------------
(***************************************************************************)
(* Whole pages.                                                            *)
(***************************************************************************)

\* Every size of a file is a natural number.
LEMMA SizesNatural == \A n \in 0 .. MaxSize : n \in Nat
BY ConstType

\* The place of a whole page.
LEMMA WholePage ==
  ASSUME NEW p \in Pages
  PROVE  /\ PageSize \in Nat \ {0} /\ MaxSize \in Nat
         /\ Pos(p, 0) \in 0 .. MaxSize /\ Pos(p, 0) + PageSize \in 0 .. MaxSize
<1>1. Pos(p, 0) \in 0 .. MaxSize /\ Pos(p, PageSize) \in 0 .. MaxSize
  BY ConstType, PosInFile
<1>2. Pos(p, PageSize) = Pos(p, 0) + PageSize
  BY ConstType DEF Pos, Pages
<1> QED
  BY Zenon, <1>1, <1>2, ConstType

\* A write of a whole page changes that page and no other.
LEMMA WholePageWrite ==
  ASSUME NEW p \in Pages, NEW file, NEW src
  PROVE  LET after == WriteCells(file, src, PageSize, Pos(p, 0)) IN
         /\ \A o \in Offs : after[p][o] = src[o]
         /\ \A q \in Pages \ {p}, o \in Offs : after[q][o] = file[q][o]
<1> DEFINE after == WriteCells(file, src, PageSize, Pos(p, 0))
<1>1. ASSUME NEW o \in Offs PROVE after[p][o] = src[o]
  <2>1. Pos(p, o) = Pos(p, 0) + o /\ o \in 0 .. PageSize - 1
    BY ConstType DEF Pos, Pages, Offs
  <2>2. /\ Pos(p, 0) <= Pos(p, o) /\ Pos(p, o) < Pos(p, 0) + PageSize
        /\ Pos(p, o) - Pos(p, 0) = o
    BY <2>1, WholePage
  <2> QED
    BY <2>2 DEF WriteCells
<1>2. ASSUME NEW q \in Pages \ {p}, NEW o \in Offs
      PROVE  after[q][o] = file[q][o]
  <2>1. ~ (Pos(p, 0) <= Pos(q, o) /\ Pos(q, o) < Pos(p, 0) + PageSize)
    BY SamePage
  <2> QED
    BY <2>1 DEF WriteCells
<1> QED
  BY <1>1, <1>2

\* At or before the end of the lower file it lets the file grow by that page at
\* most.
LEMMA WholePageGrows ==
  ASSUME NEW p \in Pages, NEW size \in 0 .. MaxSize, Pos(p, 0) <= size
  PROVE  LET new == SizeAfter(size, PageSize, Pos(p, 0)) IN
         /\ new \in 0 .. MaxSize /\ size <= new
         /\ Pos(p, 0) <= new /\ Pos(p, 0) + PageSize <= new
         /\ \A q \in Pages \ {p}, o \in Offs :
              Pos(q, o) < new => Pos(q, o) < size
<1> DEFINE new == SizeAfter(size, PageSize, Pos(p, 0))
<1>1. /\ new \in 0 .. MaxSize /\ size <= new
      /\ Pos(p, 0) <= new /\ Pos(p, 0) + PageSize <= new
      /\ new = size \/ new = Pos(p, 0) + PageSize
  BY WholePage DEF SizeAfter
<1>2. ASSUME NEW q \in Pages \ {p}, NEW o \in Offs, Pos(q, o) < new
      PROVE  Pos(q, o) < size
  <2>1. ~ (Pos(p, 0) <= Pos(q, o) /\ Pos(q, o) < Pos(p, 0) + PageSize)
    BY SamePage
  <2>2. Pos(q, o) \in Nat
    BY PosInFile, ConstType DEF Offs
  <2> QED
    BY <1>1, <1>2, <2>1, <2>2, WholePage
<1> QED
  BY <1>1, <1>2

\* Page number and offset of a position.
LEMMA PageAndOffset ==
  ASSUME NEW x \in Nat
  PROVE  /\ x \div PageSize \in Nat /\ x % PageSize \in 0 .. PageSize - 1
         /\ x = PageSize * (x \div PageSize) + (x % PageSize)
<1>1. PageSize \in Nat \ {0}
  BY ConstType
<1> DEFINE q == x \div PageSize
           m == x % PageSize
<1>2. q \in Int /\ m \in 0 .. PageSize - 1 /\ x = PageSize * q + m
  BY <1>1
<1>3. q >= 0
  BY <1>1, <1>2
<1>4. q \in Nat
  BY <1>2, <1>3
<1> QED
  BY <1>2, <1>4

\* Reading the page at its place gives its cells up to the end of the file.
LEMMA WholePageRead ==
  ASSUME NEW p \in Pages, NEW o \in Offs, NEW file, NEW size \in 0 .. MaxSize,
         Pos(p, o) < size
  PROVE  ReadCells(file, size, Pos(p, 0))[o] = file[p][o]
<1>1. /\ PageSize \in Nat \ {0} /\ MaxSize \in Nat /\ p \in Nat
      /\ o \in 0 .. PageSize - 1 /\ Pos(p, 0) + o = Pos(p, o)
      /\ Pos(p, 0) \in Nat /\ Pos(p, o) \in Nat
  BY ConstType DEF Pos, Pages, Offs
<1>2. o < ReadCount(size, Pos(p, 0))
  BY <1>1 DEF ReadCount
<1> DEFINE q == Pos(p, o) \div PageSize
           m == Pos(p, o) % PageSize
<1>3. q \in Pages /\ m \in Offs
  BY <1>1, PageOfPosition
<1>4. Pos(p, o) = PageSize * q + m /\ q \in Nat /\ m \in Nat
  <2>1. Pos(p, o) = PageSize * q + m
    BY <1>1, PageAndOffset, Zenon
  <2> QED
    BY <1>3, <2>1, ConstType DEF Pages, Offs
<1>5. Pos(q, m) = Pos(p, o)
  BY <1>1, <1>4 DEF Pos
<1> HIDE DEF q, m
<1>6. q = p /\ Pos(q, m) - Pos(p, 0) = m
  BY <1>1, <1>3, <1>5, SamePage
<1>7. m = o
  BY <1>1, <1>4, <1>5, <1>6
<1> QED
  BY <1>1, <1>2, <1>6, <1>7 DEF ReadCells, q, m

\* A size of whole pages: truncate_inode_pages visits only pages past it.
LEMMA WholePageTruncate ==
  ASSUME NEW n \in 0 .. NumPages, NEW i \in TruncPages(n * PageSize)
  PROVE  n * PageSize <= Pos(i, 0)
<1>1. PageSize \in Nat \ {0} /\ i \in Nat /\ n \in Nat
  BY ConstType DEF TruncPages, Pages
<1> DEFINE x == n * PageSize
           d == x \div PageSize
           m == x % PageSize
<1>x. x \in Nat
  BY <1>1
<1> HIDE DEF x
<1>2. x = PageSize * d + m /\ d \in Int /\ m \in 0 .. PageSize - 1
  BY <1>1, <1>x, PageAndOffset
<1>3. d <= i
  BY DEF TruncPages, x
<1> HIDE DEF d, m
<1>4. ~ (n >= d + 1)
  <2>1. SUFFICES ASSUME n >= d + 1 PROVE FALSE
    OBVIOUS
  <2>2. x >= (d + 1) * PageSize
    BY <1>1, <1>2, <2>1 DEF x
  <2>3. (d + 1) * PageSize = PageSize * d + PageSize
    BY <1>1, <1>2
  <2> QED
    BY <1>x, <1>1, <1>2, <2>2, <2>3
<1>5. n <= i
  BY <1>1, <1>2, <1>3, <1>4
<1>6. n * PageSize <= i * PageSize
  BY <1>1, <1>5
<1> QED
  BY <1>1, <1>6 DEF Pos

-----------------------------------------------------------------------------
(***************************************************************************)
(* One step keeps the invariant, part by part.                             *)
(***************************************************************************)

\* The key a task works with stays the key of the mount: an ioctl can only set
\* it to what it is.
LEMMA KeyInvNext ==
  ASSUME Orderly, TypeOK, KeyInv, [Next]_vars
  PROVE  KeyInv'
<1> DEFINE Keyed == {"wr_page", "wr_copy", "we_key", "rp_seek", "rp_read",
                     "rp_done", "we_write", "we_tail"}
<1>0. ControlType /\ key \in Keys \cup {NULL}
  BY Zenon, TypeOKControl DEF TypeOK
<1> USE <1>0 DEF ControlType, KeyInv
<1>1. CASE SetKey \/ ClearKey
  BY Zenon, <1>1 DEF SetKey, ClearKey, StoreKey, localVars, Orderly
<1>2. CASE \/ Evict \/ UNCHANGED vars
           \/ \E p \in Pages : Writeback(p) \/ Reclaim(p)
  BY Zenon, <1>2 DEF Evict, Writeback, Reclaim, vars, localVars
<1>3. ASSUME NEW t \in Tasks, UNCHANGED key, pc'[t] \notin Keyed,
             \A u \in Tasks \ {t} : pc'[u] = pc[u] /\ encKey'[u] = encKey[u]
      PROVE  KeyInv'
  BY Zenon, <1>3
<1>4. ASSUME NEW t \in Tasks, StartCall(t) PROVE KeyInv'
  BY Zenon, <1>3, <1>4 DEF StartCall, ReadStart, WriteStart, TruncStart, Call, Goto,
                    localVars
<1>5. ASSUME NEW t \in Tasks, \/ ReadHit(t) \/ ReadpageNoKey(t)
                              \/ ReadpageNoPage(t) \/ ReadpageDone(t)
      PROVE  KeyInv'
  BY <1>3, <1>5 DEF ReadHit, ReadpageNoKey, ReadpageNoPage, ReadpageDone, Return
<1>6. ASSUME NEW t \in Tasks, ReadMiss(t) PROVE KeyInv'
  BY <1>3, <1>6 DEF ReadMiss, Goto, localVars
<1>7. ASSUME NEW t \in Tasks, ReadpageKey(t) PROVE KeyInv'
  BY Zenon, <1>7 DEF ReadpageKey, Goto
<1>8. ASSUME NEW t \in Tasks, ReadpageSeek(t) PROVE KeyInv'
  BY <1>8 DEF ReadpageSeek, Goto, localVars
<1>9. ASSUME NEW t \in Tasks, ReadpageRead(t) PROVE KeyInv'
  <2>1. /\ pc[t] = "rp_read" /\ pc' = [pc EXCEPT ![t] = "rp_done"]
        /\ UNCHANGED <<key, encKey>>
    BY Zenon, <1>9 DEF ReadpageRead, Goto
  <2> QED
    BY <2>1
<1>10. ASSUME NEW t \in Tasks, WriteLock(t) PROVE KeyInv'
  BY Zenon, <1>3, <1>10 DEF WriteLock, Goto, localVars
<1>11. ASSUME NEW t \in Tasks, \/ WriteTooBig(t) \/ WriteBeginNoKey(t)
                               \/ WriteBeginNoPage(t) \/ WriteEndNoPage(t)
       PROVE  KeyInv'
  BY <1>3, <1>11 DEF WriteTooBig, WriteBeginNoKey, WriteBeginNoPage,
                     WriteEndNoPage, WriteReturn, Return
<1>12. ASSUME NEW t \in Tasks, WriteBeginKey(t) PROVE KeyInv'
  BY Zenon, <1>12 DEF WriteBeginKey, Goto, localVars
<1>13. ASSUME NEW t \in Tasks, WriteBeginPage(t) PROVE KeyInv'
  BY <1>13 DEF WriteBeginPage, Goto, localVars
<1>14. ASSUME NEW t \in Tasks, CopyFromUser(t) PROVE KeyInv'
  <2>1. /\ pc[t] = "wr_copy" /\ pc' = [pc EXCEPT ![t] = "we_key"]
        /\ UNCHANGED <<key, encKey>>
    BY Zenon, <1>14 DEF CopyFromUser, Goto, localVars
  <2> QED
    BY Zenon, <2>1
<1>15. ASSUME NEW t \in Tasks, WriteEndKey(t) PROVE KeyInv'
  BY <1>15 DEF WriteEndKey, Goto
<1>16. ASSUME NEW t \in Tasks, WriteEndLower(t) PROVE KeyInv'
  <2>1. /\ pc[t] = "we_write" /\ pc' = [pc EXCEPT ![t] = "we_tail"]
        /\ UNCHANGED <<key, encKey>>
    BY Zenon, <1>16 DEF WriteEndLower, Goto, localVars
  <2> QED
    BY <2>1
<1>17. ASSUME NEW t \in Tasks, WriteEndTail(t) PROVE KeyInv'
  BY Zenon, <1>3, <1>17 DEF WriteEndTail, Goto, localVars
<1>18. ASSUME NEW t \in Tasks, WriteEndSize(t) PROVE KeyInv'
  BY <1>3, <1>18 DEF WriteEndSize, WriteReturn, Return
<1>19. ASSUME NEW t \in Tasks, TruncUpper(t) PROVE KeyInv'
  BY Zenon, <1>3, <1>19 DEF TruncUpper
<1>20. ASSUME NEW t \in Tasks, TruncPage(t) PROVE KeyInv'
  BY Zenon, <1>3, <1>20 DEF TruncPage
<1>21. ASSUME NEW t \in Tasks, TruncLower(t) PROVE KeyInv'
  BY <1>3, <1>21 DEF TruncLower, WriteReturn, Return
<1> QED
  BY Zenon, <1>1, <1>2, <1>4, <1>5, <1>6, <1>7, <1>8, <1>9, <1>10, <1>11, <1>12,
     <1>13, <1>14, <1>15, <1>16, <1>17, <1>18, <1>19, <1>20, <1>21
  DEF Next, Continue, ReadStep, WriteStep, TruncStep

\* A write stays a write of one whole page, and the end of the file stays where
\* the i_mutex keeps it until the page is stored.
LEMMA ChunkInvNext ==
  ASSUME Orderly, TypeOK, Exclusive, ChunkInv, LengthInv, [Next]_vars
  PROVE  ChunkInv'
<1>0. ControlType /\ PageSize \in Nat \ {0}
  BY Zenon, TypeOKControl, ConstType
<1> USE <1>0 DEF ControlType, ChunkInv, WriteCallPcs, WritePcs
<1>1. CASE \/ SetKey \/ ClearKey \/ UNCHANGED vars
           \/ \E p \in Pages : Writeback(p) \/ Reclaim(p)
  BY Zenon, <1>1 DEF SetKey, ClearKey, StoreKey, Writeback, Reclaim, vars
<1>2. CASE Evict
  BY Zenon, <1>2 DEF Evict
<1>3. ASSUME NEW t \in Tasks, UNCHANGED isize, pc'[t] \notin WriteCallPcs,
             \A u \in Tasks \ {t} : pc'[u] = pc[u] /\ req'[u] = req[u]
      PROVE  ChunkInv'
  BY Zenon, <1>3
<1>4. ASSUME NEW t \in Tasks, StartCall(t) PROVE ChunkInv'
  BY <1>3, <1>4 DEF StartCall, ReadStart, WriteStart, TruncStart, Call, Goto
<1>5. ASSUME NEW t \in Tasks, ReadStep(t) PROVE ChunkInv'
  <2>1. CASE \/ ReadHit(t) \/ ReadpageNoKey(t) \/ ReadpageNoPage(t)
             \/ ReadpageDone(t)
    <3>1. /\ pc'[t] \in {"idle", "dead"} /\ UNCHANGED isize
          /\ \A u \in Tasks \ {t} : pc'[u] = pc[u] /\ req'[u] = req[u]
      BY Zenon, <2>1 DEF ReadHit, ReadpageNoKey, ReadpageNoPage, ReadpageDone,
                         Return
    <3> QED
      BY Zenon, <1>3, <3>1
  <2>2. CASE \/ ReadMiss(t) \/ ReadpageKey(t) \/ ReadpageSeek(t)
             \/ ReadpageRead(t)
    <3>1. /\ pc'[t] \in {"rp_key", "rp_seek", "rp_read", "rp_done"}
          /\ UNCHANGED isize
          /\ \A u \in Tasks \ {t} : pc'[u] = pc[u] /\ req'[u] = req[u]
      BY Zenon, <2>2 DEF ReadMiss, ReadpageKey, ReadpageSeek, ReadpageRead, Goto
    <3> QED
      BY Zenon, <1>3, <3>1
  <2> QED
    BY Zenon, <1>5, <2>1, <2>2 DEF ReadStep
<1>6. ASSUME NEW t \in Tasks, WriteLock(t) PROVE ChunkInv'
  <2>1. PICK s \in WriteShapes, p \in Pages, v \in Data :
          /\ ChunkAllowed(req[t].f, p, s[1])
          /\ req' = [req EXCEPT ![t] = NewRequest(req[t].f, p, s[1], s[2], v, 0)]
    BY Zenon, <1>6 DEF WriteLock
  <2>2. s = <<0, PageSize>> /\ Pos(p, 0) <= isize
    BY <2>1 DEF Orderly, ChunkAllowed
  <2>3. req'[t].from = 0 /\ req'[t].len = PageSize /\ req'[t].v = v
        /\ req'[t].p = p
    BY Zenon, <2>1, <2>2 DEF NewRequest
  <2>4. /\ pc' = [pc EXCEPT ![t] = "wr_begin"] /\ isize' = isize
        /\ \A u \in Tasks \ {t} : req'[u] = req[u]
    BY Zenon, <1>6, <2>1 DEF WriteLock, Goto
  <2> QED
    BY Zenon, <2>2, <2>3, <2>4
<1>7. ASSUME NEW t \in Tasks, \/ WriteTooBig(t) \/ WriteBeginNoKey(t)
                              \/ WriteBeginNoPage(t) \/ WriteEndNoPage(t)
      PROVE  ChunkInv'
  BY <1>3, <1>7 DEF WriteTooBig, WriteBeginNoKey, WriteBeginNoPage,
                    WriteEndNoPage, WriteReturn, Return
<1>8. ASSUME NEW t \in Tasks, WriteBeginKey(t) \/ WriteBeginPage(t)
      PROVE  ChunkInv'
  BY Zenon, <1>8 DEF WriteBeginKey, WriteBeginPage, Goto
<1>9. ASSUME NEW t \in Tasks, CopyFromUser(t) PROVE ChunkInv'
  <2>1. PICK n \in 0 .. req[t].len :
          /\ n = req[t].len \/ Fails("short_copy")
          /\ req' = [req EXCEPT ![t] = NewRequest(req[t].f, req[t].p,
                       req[t].from, req[t].len, req[t].v, n)]
    BY Zenon, <1>9 DEF CopyFromUser
  <2>2. n = req[t].len
    BY <2>1 DEF Fails, Orderly
  <2>3. /\ req'[t].p = req[t].p /\ req'[t].from = req[t].from
        /\ req'[t].len = req[t].len /\ req'[t].v = req[t].v
        /\ req'[t].copied = req[t].len
        /\ \A u \in Tasks \ {t} : req'[u] = req[u]
    BY Zenon, <2>1, <2>2 DEF NewRequest
  <2>4. /\ pc[t] = "wr_copy" /\ pc' = [pc EXCEPT ![t] = "we_key"]
        /\ isize' = isize
    BY Zenon, <1>9 DEF CopyFromUser, Goto
  <2> QED
    BY <2>3, <2>4
<1>10. ASSUME NEW t \in Tasks, WriteEndKey(t) PROVE ChunkInv'
  BY Zenon, <1>10 DEF WriteEndKey, Goto
<1>11. ASSUME NEW t \in Tasks, WriteEndLower(t) PROVE ChunkInv'
  <2>1. /\ pc[t] = "we_write" /\ pc' = [pc EXCEPT ![t] = "we_tail"]
        /\ UNCHANGED req
    BY Zenon, <1>11 DEF WriteEndLower, Goto
  <2>2. /\ Pos(req[t].p, 0) \in 0 .. MaxSize /\ lsize \in 0 .. MaxSize
        /\ Pos(req[t].p, 0) <= lsize
    <3>1. isize \in 0 .. MaxSize /\ lsize \in 0 .. MaxSize /\ isize <= lsize
      BY DEF TypeOK, LengthInv
    <3>2. Pos(req[t].p, 0) \in 0 .. MaxSize
      BY PosInFile
    <3>3. Pos(req[t].p, 0) <= isize
      BY <2>1
    <3> QED
      BY <3>1, <3>2, <3>3, ConstType
  <2>3. isize' = SizeAfter(lsize, PageSize, Pos(req[t].p, 0))
    BY Zenon, <1>11, <2>1 DEF WriteEndLower, StoreLower, WriteOffset, Fails, Orderly
  <2>4. /\ Pos(req[t].p, 0) + PageSize <= isize'
        /\ Pos(req[t].p, 0) <= isize'
    BY Zenon, <2>2, <2>3, WholePageGrows
  <2>5. \A u \in Tasks \ {t} : pc[u] \notin WriteCallPcs
    BY Zenon, <2>1 DEF Exclusive, MutexPcs
  <2> QED
    BY Zenon, <2>1, <2>4, <2>5
<1>12. ASSUME NEW t \in Tasks, WriteEndTail(t) PROVE ChunkInv'
  BY Zenon, <1>12 DEF WriteEndTail, Goto
<1>13. ASSUME NEW t \in Tasks, WriteEndSize(t) PROVE ChunkInv'
  <2>1. /\ pc'[t] = "idle"
        /\ \A u \in Tasks \ {t} : pc'[u] = pc[u] /\ req'[u] = req[u]
    BY <1>13 DEF WriteEndSize, WriteReturn, Return
  <2>2. \A u \in Tasks \ {t} : pc[u] \notin WriteCallPcs
    BY Zenon, <1>13 DEF WriteEndSize, Exclusive, MutexPcs
  <2> QED
    BY Zenon, <2>1, <2>2
<1>14. ASSUME NEW t \in Tasks, TruncUpper(t) PROVE ChunkInv'
  <2>1. /\ pc'[t] \notin WriteCallPcs
        /\ \A u \in Tasks \ {t} : pc'[u] = pc[u] /\ req'[u] = req[u]
    BY Zenon, <1>14 DEF TruncUpper
  <2>2. \A u \in Tasks \ {t} : pc[u] \notin WriteCallPcs
    BY Zenon, <1>14, MmapAssumption DEF TruncUpper, Exclusive, MutexPcs
  <2> QED
    BY Zenon, <2>1, <2>2
<1>15. ASSUME NEW t \in Tasks, TruncPage(t) PROVE ChunkInv'
  BY Zenon, <1>3, <1>15 DEF TruncPage
<1>16. ASSUME NEW t \in Tasks, TruncLower(t) PROVE ChunkInv'
  BY Zenon, <1>3, <1>16 DEF TruncLower, WriteReturn, Return
<1> QED
  BY Zenon, <1>1, <1>2, <1>4, <1>5, <1>6, <1>7, <1>8, <1>9, <1>10, <1>11, <1>12,
     <1>13, <1>14, <1>15, <1>16
  DEF Next, Continue, WriteStep, TruncStep

\* The i_size_write at the end of write_end finds nothing to do: the lower
\* size it copied before counts the page.
LEMMA SizeStays ==
  ASSUME TypeOK, ChunkInv, NEW t \in Tasks, WriteEndSize(t)
  PROVE  isize' = isize
<1>1. req[t].p \in Pages /\ PageSize \in Nat /\ isize \in 0 .. MaxSize
  BY Zenon, ConstType DEF TypeOK, Request
<1>2. /\ req[t].from + req[t].copied = PageSize
      /\ Pos(req[t].p, 0) + PageSize <= isize
  BY <1>1 DEF WriteEndSize, ChunkInv, WriteCallPcs
<1>3. Pos(req[t].p, PageSize) = Pos(req[t].p, 0) + PageSize
  BY <1>1 DEF Pos, Pages
<1>4. Pos(req[t].p, 0) + PageSize \in Nat
  BY <1>1, WholePage
<1> QED
  BY <1>1, <1>2, <1>3, <1>4, ConstType DEF WriteEndSize, GrownSize

\* The sizes: write_end leaves both at the same value, truncate_setsize only
\* lowers the upper one.
LEMMA LengthInvNext ==
  ASSUME Orderly, TypeOK, Exclusive, ChunkInv, LengthInv, [Next]_vars
  PROVE  LengthInv'
<1>0. /\ pc \in [Tasks -> PCs] /\ todo \in [Tasks -> SUBSET Pages]
      /\ isize \in 0 .. MaxSize /\ lsize \in 0 .. MaxSize /\ MaxSize \in Nat
  BY Zenon, ConstType DEF TypeOK
<1> USE <1>0 DEF LengthInv
<1>1. CASE \/ SetKey \/ ClearKey \/ UNCHANGED vars
           \/ \E p \in Pages : Writeback(p) \/ Reclaim(p)
  BY Zenon, <1>1 DEF SetKey, ClearKey, StoreKey, Writeback, Reclaim, vars, lowerVars,
              localVars
<1>2. CASE Evict
  BY <1>2 DEF Evict, lowerVars
<1>3. ASSUME NEW t \in Tasks, UNCHANGED <<isize, lsize, todo>>,
             pc'[t] # "tr_pages", \A u \in Tasks \ {t} : pc'[u] = pc[u]
      PROVE  LengthInv'
  BY <1>3
<1>4. ASSUME NEW t \in Tasks, StartCall(t) PROVE LengthInv'
  BY Zenon, <1>3, <1>4 DEF StartCall, ReadStart, WriteStart, TruncStart, Call, Goto,
                    lowerVars, localVars
<1>5. ASSUME NEW t \in Tasks, ReadStep(t) PROVE LengthInv'
  <2>1. CASE \/ ReadHit(t) \/ ReadpageNoKey(t) \/ ReadpageNoPage(t)
             \/ ReadpageDone(t)
    BY <1>3, <2>1 DEF ReadHit, ReadpageNoKey, ReadpageNoPage, ReadpageDone,
                      Return, lowerVars
  <2>2. CASE \/ ReadMiss(t) \/ ReadpageKey(t) \/ ReadpageSeek(t)
             \/ ReadpageRead(t)
    BY Zenon, <1>3, <2>2 DEF ReadMiss, ReadpageKey, ReadpageSeek, ReadpageRead, Goto,
                      lowerVars, localVars
  <2> QED
    BY Zenon, <1>5, <2>1, <2>2 DEF ReadStep
<1>6. ASSUME NEW t \in Tasks, \/ WriteLock(t) \/ WriteBeginKey(t)
                              \/ WriteBeginPage(t) \/ CopyFromUser(t)
                              \/ WriteEndKey(t) \/ WriteEndTail(t)
      PROVE  LengthInv'
  BY Zenon, <1>3, <1>6 DEF WriteLock, WriteBeginKey, WriteBeginPage, CopyFromUser,
                    WriteEndKey, WriteEndTail, Goto, lowerVars, localVars
<1>7. ASSUME NEW t \in Tasks, \/ WriteTooBig(t) \/ WriteBeginNoKey(t)
                              \/ WriteBeginNoPage(t) \/ WriteEndNoPage(t)
      PROVE  LengthInv'
  BY Zenon, <1>3, <1>7 DEF WriteTooBig, WriteBeginNoKey, WriteBeginNoPage,
                    WriteEndNoPage, WriteReturn, Return, lowerVars
<1>8. ASSUME NEW t \in Tasks, WriteEndLower(t) PROVE LengthInv'
  <2>1. isize' = lsize' /\ pc[t] = "we_write"
    BY Zenon, <1>8 DEF WriteEndLower, Goto, StoreLower, Fails, Orderly
  <2>2. pc' = [pc EXCEPT ![t] = "we_tail"]
    BY Zenon, <1>8 DEF WriteEndLower, Goto
  <2>3. \A u \in Tasks : pc'[u] # "tr_pages"
    BY Zenon, <2>1, <2>2 DEF Exclusive, MutexPcs, WritePcs
  <2>4. lsize' \in 0 .. MaxSize
    <3>1. req[t].p \in Pages
      BY Zenon DEF TypeOK, Request
    <3>2. Pos(req[t].p, 0) <= lsize
      <4>1. Pos(req[t].p, 0) <= isize
        BY <2>1 DEF ChunkInv, WriteCallPcs, WritePcs
      <4> QED
        BY <3>1, <4>1, WholePage
    <3>3. lsize' = SizeAfter(lsize, PageSize, Pos(req[t].p, 0))
      BY Zenon, <1>8, <2>1 DEF WriteEndLower, StoreLower, WriteOffset, Fails, Orderly,
                        ChunkInv
    <3> QED
      BY <3>1, <3>2, <3>3, WholePageGrows
  <2> QED
    BY <2>1, <2>3, <2>4
<1>9. ASSUME NEW t \in Tasks, WriteEndSize(t) PROVE LengthInv'
  <2>1. isize' = isize
    BY Zenon, <1>9, SizeStays
  <2>2. pc'[t] # "tr_pages" /\ \A u \in Tasks \ {t} : pc'[u] = pc[u]
    BY <1>9 DEF WriteEndSize, WriteReturn, Return
  <2>3. UNCHANGED <<lsize, todo>>
    BY Zenon, <1>9 DEF WriteEndSize, WriteReturn, Return, lowerVars
  <2> QED
    BY Zenon, <1>3, <2>1, <2>2, <2>3
<1>10. ASSUME NEW t \in Tasks, TruncUpper(t) PROVE LengthInv'
  <2>1. PICK n \in TruncSizes :
          n <= isize /\ isize' = n /\ todo' = [todo EXCEPT ![t] = TruncPages(n)]
    BY Zenon, <1>10 DEF TruncUpper, Orderly
  <2>2. PICK m \in 0 .. NumPages : n = m * PageSize
    BY Zenon DEF Orderly
  <2>3. \A i \in todo'[t] : isize' <= Pos(i, 0)
    BY Zenon, <2>1, <2>2, WholePageTruncate
  <2>4. \A u \in Tasks \ {t} : pc'[u] = pc[u] /\ pc[u] # "tr_pages"
    BY <1>10, MmapAssumption DEF TruncUpper, Exclusive, MutexPcs
  <2>5. isize' <= lsize'
    <3>1. n \in 0 .. MaxSize
      BY Zenon, MmapAssumption
    <3> QED
      BY <1>10, <2>1, <3>1 DEF TruncUpper, lowerVars
  <2> QED
    BY Zenon, <2>3, <2>4, <2>5
<1>11. ASSUME NEW t \in Tasks, TruncPage(t) PROVE LengthInv'
  BY <1>11 DEF TruncPage, lowerVars
<1>12. ASSUME NEW t \in Tasks, TruncLower(t) PROVE LengthInv'
  BY <1>12 DEF TruncLower, WriteReturn, Return, lowerVars
<1> QED
  BY Zenon, <1>1, <1>2, <1>4, <1>5, <1>6, <1>7, <1>8, <1>9, <1>10, <1>11, <1>12
  DEF Next, Continue, WriteStep, TruncStep

-----------------------------------------------------------------------------
(***************************************************************************)
(* The steps that change the lower file.                                   *)
(***************************************************************************)

\* The vfs_write of write_end stores the page, encrypted with the key, and
\* nothing else.
LEMMA StoresPage ==
  ASSUME Orderly, TypeOK, KeyInv, ChunkInv, LengthInv, WriterInv,
         NEW t \in Tasks, WriteEndLower(t)
  PROVE  /\ pc[t] = "we_write" /\ pc' = [pc EXCEPT ![t] = "we_tail"]
         /\ key # NULL
         /\ isize' = lsize' /\ lsize' \in 0 .. MaxSize /\ lsize <= lsize'
         /\ \A o \in Offs :
              lower'[req[t].p][o] = EncryptCell(key, o, req[t].v)
         /\ \A q \in Pages \ {req[t].p}, o \in Offs :
              /\ lower'[q][o] = lower[q][o]
              /\ Pos(q, o) < lsize' => Pos(q, o) < lsize
<1> DEFINE p == req[t].p
<1>1. pc[t] = "we_write" /\ pc' = [pc EXCEPT ![t] = "we_tail"]
  BY Zenon DEF WriteEndLower, Goto
<1>2. /\ p \in Pages /\ isize \in 0 .. MaxSize /\ lsize \in 0 .. MaxSize
  BY Zenon DEF TypeOK, Request
<1>3. key # NULL /\ encKey[t] = key /\ req[t].copied = PageSize
  BY Zenon, <1>1 DEF KeyInv, ChunkInv
<1>4. Pos(p, 0) <= lsize
  <2>1. Pos(p, 0) <= isize /\ isize <= lsize
    BY <1>1 DEF ChunkInv, LengthInv, WriteCallPcs, WritePcs
  <2> QED
    BY <1>2, <2>1, WholePage
<1>5. StoreLower(t, WriteSource(t), PageSize, TRUE)
  BY Zenon, <1>3 DEF WriteEndLower, Fails, Orderly
<1>6. WriteOffset(t) = Pos(p, 0)
  BY Zenon DEF WriteOffset, Orderly
<1>7. /\ lower' = WriteCells(lower, WriteSource(t), PageSize, Pos(p, 0))
      /\ lsize' = SizeAfter(lsize, PageSize, Pos(p, 0)) /\ isize' = lsize'
  BY Zenon, <1>5, <1>6 DEF StoreLower
<1>8. \A o \in Offs : WriteSource(t)[o] = EncryptCell(key, o, req[t].v)
  BY Zenon, <1>1, <1>3 DEF WriteSource, EncryptPage, WriterInv
<1>9. /\ \A o \in Offs : lower'[p][o] = WriteSource(t)[o]
      /\ \A q \in Pages \ {p}, o \in Offs : lower'[q][o] = lower[q][o]
  BY <1>2, <1>7, WholePageWrite
<1>10. /\ lsize' \in 0 .. MaxSize /\ lsize <= lsize'
       /\ \A q \in Pages \ {p}, o \in Offs :
            Pos(q, o) < lsize' => Pos(q, o) < lsize
  BY <1>2, <1>4, <1>7, WholePageGrows
<1> QED
  BY Zenon, <1>1, <1>3, <1>7, <1>8, <1>9, <1>10

\* The notify_change of setattr leaves what is before the new end as it is.
LEMMA CutsLower ==
  ASSUME TypeOK, LengthInv, NEW t \in Tasks, TruncLower(t)
  PROVE  /\ lsize' \in 0 .. MaxSize /\ lsize' <= lsize
         /\ \A p \in Pages, o \in Offs :
              Pos(p, o) < lsize' => lower'[p][o] = lower[p][o]
<1>1. /\ isize \in 0 .. MaxSize /\ lsize \in 0 .. MaxSize /\ isize <= lsize
      /\ MaxSize \in Nat
  BY Zenon, ConstType DEF TypeOK, LengthInv
<1>2. CASE lower' = TruncateCells(lower, isize) /\ lsize' = isize
  BY <1>1, <1>2 DEF TruncateCells
<1>3. CASE UNCHANGED lowerVars
  BY <1>1, <1>3 DEF lowerVars
<1> QED
  BY Zenon, <1>2, <1>3 DEF TruncLower

\* Only the ioctl changes the key.
LEMMA KeyStep ==
  ASSUME [Next]_vars, ~ SetKey, ~ ClearKey
  PROVE  UNCHANGED key
<1>1. CASE \/ Evict \/ UNCHANGED vars
           \/ \E p \in Pages : Writeback(p) \/ Reclaim(p)
  BY Zenon, <1>1 DEF Evict, Writeback, Reclaim, vars
<1>2. ASSUME NEW t \in Tasks, StartCall(t) \/ ReadStep(t)
      PROVE  UNCHANGED key
  BY Zenon, <1>2 DEF StartCall, ReadStart, WriteStart, TruncStart, ReadStep, ReadHit,
              ReadMiss, ReadpageNoKey, ReadpageKey, ReadpageNoPage,
              ReadpageSeek, ReadpageRead, ReadpageDone
<1>3. ASSUME NEW t \in Tasks, WriteStep(t) PROVE UNCHANGED key
  BY Zenon, <1>3 DEF WriteStep, WriteLock, WriteTooBig, WriteBeginNoKey,
              WriteBeginKey, WriteBeginNoPage, WriteBeginPage, CopyFromUser,
              WriteEndKey, WriteEndNoPage, WriteEndLower, WriteEndTail,
              WriteEndSize
<1>4. ASSUME NEW t \in Tasks, TruncStep(t) PROVE UNCHANGED key
  BY <1>4 DEF TruncStep, TruncUpper, TruncPage, TruncLower
<1> QED
  BY Zenon, <1>1, <1>2, <1>3, <1>4 DEF Next, Continue

\* The lower file holds user data encrypted with the key, up to its end.
LEMMA StoreInvNext ==
  ASSUME Orderly, TypeOK, KeyInv, ChunkInv, LengthInv, WriterInv, StoreInv,
         [Next]_vars
  PROVE  StoreInv'
<1>0. /\ \A p \in Pages, o \in Offs : Pos(p, o) \in Nat
      /\ lsize \in 0 .. MaxSize /\ MaxSize \in Nat
      /\ key \in Keys \cup {NULL}
  BY PosInFile, ConstType DEF Offs, TypeOK
<1>1. CASE SetKey \/ ClearKey
  <2>1. UNCHANGED lowerVars /\ key' \in Keys
    BY Zenon, <1>1 DEF SetKey, ClearKey, StoreKey, Orderly
  <2>2. CASE key = NULL
    BY <1>0, <2>1, <2>2, CipherAssumption DEF StoreInv, lowerVars
  <2>3. CASE key # NULL
    <3>1. key' = key
      BY Zenon, <1>0, <2>1, <2>3 DEF Orderly
    <3> QED
      BY Zenon, <2>1, <3>1 DEF StoreInv, lowerVars
  <2> QED
    BY Zenon, <2>2, <2>3
<1>2. CASE UNCHANGED key /\ UNCHANGED lowerVars
  BY Zenon, <1>2 DEF StoreInv, lowerVars
<1>3. ASSUME NEW t \in Tasks, WriteEndLower(t), UNCHANGED key PROVE StoreInv'
  <2>1. req[t].v \in Data
    BY <1>3 DEF ChunkInv, WriteCallPcs, WritePcs, WriteEndLower, Goto
  <2>2. key' # NULL
    BY Zenon, <1>3, StoresPage
  <2>3. ASSUME NEW o \in Offs
        PROVE  /\ lower'[req[t].p][o].k = key' /\ lower'[req[t].p][o].o = o
               /\ lower'[req[t].p][o].v \in Data
    <3>1. lower'[req[t].p][o] = EncryptCell(key, o, req[t].v)
      BY Zenon, <1>3, StoresPage
    <3> QED
      BY <1>3, <2>1, <3>1 DEF EncryptCell
  <2>4. ASSUME NEW q \in Pages \ {req[t].p}, NEW o \in Offs, Pos(q, o) < lsize'
        PROVE  /\ lower'[q][o].k = key' /\ lower'[q][o].o = o
               /\ lower'[q][o].v \in Data
    BY <1>3, <2>4, StoresPage DEF StoreInv
  <2> QED
    BY Zenon, <2>2, <2>3, <2>4 DEF StoreInv
<1>4. ASSUME NEW t \in Tasks, TruncLower(t), UNCHANGED key PROVE StoreInv'
  BY <1>0, <1>4, CutsLower DEF StoreInv
<1> QED
  BY Zenon, <1>1, <1>2, <1>3, <1>4, LowerStep, KeyStep

\* The page a write works on has the user's data from the copy on: nobody else
\* touches a page that is locked.
LEMMA WriterInvNext ==
  ASSUME Orderly, TypeOK, Exclusive, KeyInv, ChunkInv, LengthInv, WriterInv,
         [Next]_vars
  PROVE  WriterInv'
<1> DEFINE Filled == {"we_key", "we_write", "we_tail"}
<1>0. /\ ControlType /\ data \in [Pages -> [Offs -> Plain]]
      /\ key \in Keys \cup {NULL}
  BY Zenon, TypeOKControl DEF TypeOK
<1>1. CASE SetKey \/ ClearKey
  <2>1. key # NULL => key' = key
    BY Zenon, <1>0, <1>1 DEF SetKey, ClearKey, StoreKey, Orderly
  <2>2. UNCHANGED <<pc, req, data, lower>>
    BY <1>1 DEF SetKey, ClearKey, StoreKey, cacheVars, lowerVars
  <2> QED
    BY Zenon, <2>1, <2>2 DEF WriterInv, KeyInv
<1>2. CASE UNCHANGED vars
  BY Zenon, <1>2 DEF vars, cacheVars, lowerVars, WriterInv
<1>3. CASE \E p \in Pages : Writeback(p) \/ Reclaim(p)
  <2>1. UNCHANGED <<pc, req, key, lower>>
    BY Zenon, <1>3 DEF Writeback, Reclaim, lowerVars
  <2>2. \A q \in Pages : plock[q] # NoTask => data'[q] = data[q]
    BY Zenon, <1>0, <1>3 DEF Writeback, Reclaim, Drop
  <2>3. \A t \in Tasks : pc[t] \in Filled => plock[req[t].p] # NoTask
    BY Zenon, MmapAssumption DEF Exclusive, WritePcs
  <2> QED
    BY <1>0, <2>1, <2>2, <2>3 DEF WriterInv, ControlType
<1>4. CASE Evict
  BY Zenon, <1>4 DEF Evict, WriterInv
<1>5. ASSUME NEW t \in Tasks, UNCHANGED <<key, lower>>, pc'[t] \notin Filled,
             \A u \in Tasks \ {t} : pc'[u] = pc[u] /\ req'[u] = req[u],
             \A q \in Pages : plock[q] \in Tasks \ {t} => data'[q] = data[q]
      PROVE  WriterInv'
  <2>1. ASSUME NEW u \in Tasks \ {t}, pc[u] \in Filled
        PROVE  plock[req[u].p] = u /\ req[u].p \in Pages
    BY Zenon, <1>0, <2>1 DEF Exclusive, WritePcs, ControlType
  <2> QED
    BY <1>5, <2>1 DEF WriterInv
<1>6. ASSUME NEW t \in Tasks, StartCall(t) PROVE WriterInv'
  BY Zenon, <1>0, <1>5, <1>6 DEF StartCall, ReadStart, WriteStart, TruncStart, Call,
                          Goto, cacheVars, lowerVars, ControlType
<1>7. ASSUME NEW t \in Tasks, ReadStep(t) PROVE WriterInv'
  <2>1. CASE ReadHit(t) \/ ReadpageNoKey(t) \/ ReadpageNoPage(t)
    BY <1>0, <1>5, <2>1 DEF ReadHit, ReadpageNoKey, ReadpageNoPage, Return,
                            cacheVars, lowerVars, ControlType
  <2>2. CASE ReadMiss(t) \/ ReadpageKey(t) \/ ReadpageSeek(t) \/ ReadpageRead(t)
    BY Zenon, <1>0, <1>5, <2>2 DEF ReadMiss, ReadpageKey, ReadpageSeek, ReadpageRead,
                            Goto, cacheVars, lowerVars, ControlType
  <2>3. CASE ReadpageDone(t)
    <3>1. plock[req[t].p] = t /\ req[t].p \in Pages
      BY <1>0, <2>3 DEF ReadpageDone, Exclusive, ReadPcs, ControlType
    <3>2. \A q \in Pages \ {req[t].p} : data'[q] = data[q]
      BY Zenon, <1>0, <2>3 DEF ReadpageDone
    <3> QED
      BY Zenon, <1>0, <1>5, <2>3, <3>1, <3>2 DEF ReadpageDone, Return, lowerVars,
                                          ControlType
  <2> QED
    BY Zenon, <1>7, <2>1, <2>2, <2>3 DEF ReadStep
<1>8. ASSUME NEW t \in Tasks, \/ WriteLock(t) \/ WriteBeginKey(t)
      PROVE  WriterInv'
  BY Zenon, <1>0, <1>5, <1>8 DEF WriteLock, WriteBeginKey, Goto, cacheVars, lowerVars,
                          ControlType
<1>9. ASSUME NEW t \in Tasks, \/ WriteTooBig(t) \/ WriteBeginNoKey(t)
                              \/ WriteBeginNoPage(t) \/ WriteEndNoPage(t)
      PROVE  WriterInv'
  BY Zenon, <1>0, <1>5, <1>9 DEF WriteTooBig, WriteBeginNoKey, WriteBeginNoPage,
       WriteEndNoPage, WriteReturn, Return, cacheVars, lowerVars, ControlType
<1>10. ASSUME NEW t \in Tasks, WriteBeginPage(t) PROVE WriterInv'
  <2>1. plock[req[t].p] = NoTask /\ req[t].p \in Pages
    BY Zenon, <1>0, <1>10 DEF WriteBeginPage, Lock, ControlType
  <2>2. \A q \in Pages \ {req[t].p} : data'[q] = data[q]
    BY <1>0, <1>10 DEF WriteBeginPage
  <2> QED
    BY Zenon, <1>0, <1>5, <1>10, <2>1, <2>2, MmapAssumption
    DEF WriteBeginPage, Goto, lowerVars, ControlType
<1>11. ASSUME NEW t \in Tasks, CopyFromUser(t) PROVE WriterInv'
  <2>1. PICK n \in 0 .. req[t].len :
          /\ n = req[t].len \/ Fails("short_copy")
          /\ data' = [data EXCEPT ![req[t].p] =
                        [o \in Offs |-> IF req[t].from <= o /\ o < req[t].from + n
                                        THEN req[t].v ELSE @[o]]]
          /\ req' = [req EXCEPT ![t] = NewRequest(req[t].f, req[t].p,
                       req[t].from, req[t].len, req[t].v, n)]
    BY Zenon, <1>11 DEF CopyFromUser
  <2>2. /\ pc[t] = "wr_copy" /\ pc' = [pc EXCEPT ![t] = "we_key"]
        /\ UNCHANGED <<key, lower>>
    BY <1>11 DEF CopyFromUser, Goto, lowerVars
  <2>3. n = PageSize /\ req[t].from = 0
    BY Zenon, <2>1, <2>2 DEF Fails, Orderly, ChunkInv, WriteCallPcs, WritePcs
  <2>4. req[t].p \in Pages /\ plock[req[t].p] = t
    BY Zenon, <1>0, <2>2 DEF ControlType, Exclusive, WritePcs
  <2>5. \A o \in Offs : data'[req[t].p][o] = req[t].v
    <3>1. \A o \in Offs : 0 <= o /\ o < 0 + PageSize
      BY ConstType DEF Offs
    <3> QED
      BY Zenon, <1>0, <2>1, <2>3, <2>4, <3>1
  <2>6. \A q \in Pages \ {req[t].p} : data'[q] = data[q]
    BY Zenon, <1>0, <2>1
  <2>7. /\ req'[t].p = req[t].p /\ req'[t].v = req[t].v
        /\ \A u \in Tasks \ {t} : req'[u] = req[u] /\ pc'[u] = pc[u]
        /\ pc'[t] = "we_key"
    BY Zenon, <1>0, <2>1, <2>2 DEF NewRequest, ControlType
  <2>8. ASSUME NEW u \in Tasks \ {t}, pc[u] \in Filled
        PROVE  req[u].p \in Pages \ {req[t].p}
    BY <1>0, <2>4, <2>8 DEF Exclusive, WritePcs, ControlType
  <2> QED
    <3>1. ASSUME NEW u \in Tasks, NEW o \in Offs, pc'[u] \in Filled
          PROVE  data'[req'[u].p][o] = req'[u].v
      <4>1. CASE u = t
        BY Zenon, <2>5, <2>7, <4>1
      <4>2. CASE u # t
        <5>1. pc[u] \in Filled /\ req'[u] = req[u]
          BY Zenon, <2>7, <3>1, <4>2
        <5>2. data'[req[u].p] = data[req[u].p]
          BY Zenon, <2>6, <2>8, <4>2, <5>1
        <5> QED
          BY Zenon, <5>1, <5>2 DEF WriterInv
      <4> QED
        BY Zenon, <4>1, <4>2
    <3>2. ASSUME NEW u \in Tasks, NEW o \in Offs, pc'[u] = "we_tail"
          PROVE  lower'[req'[u].p][o] = EncryptCell(key', o, req'[u].v)
      <4>1. u # t
        BY Zenon, <2>7, <3>2
      <4> QED
        BY Zenon, <2>2, <2>7, <3>2, <4>1 DEF WriterInv
    <3> QED
      BY Zenon, <3>1, <3>2 DEF WriterInv
<1>12. ASSUME NEW t \in Tasks, WriteEndKey(t) PROVE WriterInv'
  BY Zenon, <1>0, <1>12 DEF WriteEndKey, Goto, cacheVars, lowerVars, WriterInv,
                     ControlType
<1>13. ASSUME NEW t \in Tasks, WriteEndLower(t) PROVE WriterInv'
  <2>1. UNCHANGED <<key, data, req>>
    BY Zenon, <1>13 DEF WriteEndLower, cacheVars
  <2>2. /\ pc[t] = "we_write" /\ pc' = [pc EXCEPT ![t] = "we_tail"]
        /\ \A o \in Offs : lower'[req[t].p][o] = EncryptCell(key, o, req[t].v)
    BY Zenon, <1>13, StoresPage
  <2>3. \A u \in Tasks \ {t} : pc[u] \notin Filled
    BY Zenon, <2>2 DEF Exclusive, MutexPcs, WritePcs
  <2> QED
    BY Zenon, <1>0, <2>1, <2>2, <2>3 DEF WriterInv, ControlType
<1>14. ASSUME NEW t \in Tasks, WriteEndTail(t) PROVE WriterInv'
  <2>1. plock[req[t].p] = t /\ req[t].p \in Pages
    BY <1>0, <1>14 DEF WriteEndTail, Goto, Exclusive, WritePcs, ControlType
  <2>2. \A q \in Pages \ {req[t].p} : data'[q] = data[q]
    BY Zenon, <1>0, <1>14 DEF WriteEndTail
  <2> QED
    BY Zenon, <1>0, <1>5, <1>14, <2>1, <2>2
    DEF WriteEndTail, Goto, lowerVars, localVars, ControlType
<1>15. ASSUME NEW t \in Tasks, WriteEndSize(t) PROVE WriterInv'
  <2>1. /\ pc'[t] \notin Filled
        /\ \A u \in Tasks \ {t} : pc'[u] = pc[u] /\ req'[u] = req[u]
    BY Zenon, <1>0, <1>15 DEF WriteEndSize, WriteReturn, Return, ControlType
  <2> QED
    BY Zenon, <1>5, <1>15, <2>1 DEF WriteEndSize, cacheVars, lowerVars
<1>16. ASSUME NEW t \in Tasks, TruncStep(t) PROVE WriterInv'
  <2>1. CASE TruncUpper(t)
    BY Zenon, <1>0, <1>5, <2>1 DEF TruncUpper, cacheVars, lowerVars, ControlType
  <2>2. CASE TruncPage(t)
    <3>1. \A q \in Pages : plock[q] # NoTask => data'[q] = data[q]
      BY Zenon, <1>0, <2>2 DEF TruncPage, Drop
    <3>2. /\ pc'[t] \notin Filled
          /\ \A u \in Tasks \ {t} : pc'[u] = pc[u] /\ req'[u] = req[u]
      BY Zenon, <1>0, <2>2 DEF TruncPage, ControlType
    <3> QED
      BY <1>5, <2>2, <3>1, <3>2, MmapAssumption DEF TruncPage, lowerVars
  <2>3. CASE TruncLower(t)
    <3>1. /\ pc'[t] = "idle"
          /\ \A u \in Tasks \ {t} : pc'[u] = pc[u] /\ pc[u] \notin Filled
      BY Zenon, <1>0, <2>3 DEF TruncLower, WriteReturn, Return, Exclusive, MutexPcs,
                        WritePcs, ControlType
    <3> QED
      BY Zenon, <3>1 DEF WriterInv
  <2> QED
    BY Zenon, <1>16, <2>1, <2>2, <2>3 DEF TruncStep
<1> QED
  BY Zenon, <1>1, <1>2, <1>3, <1>4, <1>6, <1>7, <1>8, <1>9, <1>10, <1>11, <1>12,
     <1>13, <1>14, <1>15, <1>16
  DEF Next, Continue, WriteStep

\* A page that is up to date and unlocked agrees with the lower file: readpage
\* has just decrypted it, or write_end has just stored it.
LEMMA PageInvNext ==
  ASSUME Orderly, TypeOK, Exclusive, KeyInv, ChunkInv, LengthInv, ReadInv,
         StoreInv, WriterInv, PageInv, [Next]_vars
  PROVE  PageInv'
<1>0. /\ ControlType /\ data \in [Pages -> [Offs -> Plain]]
      /\ NoTask \notin Tasks
  BY TypeOKControl, MmapAssumption DEF TypeOK
<1>1. ASSUME UNCHANGED <<lower, lsize>>,
             \A p \in Pages : p \in uptodate' /\ plock'[p] = NoTask =>
               p \in uptodate /\ plock[p] = NoTask /\ data'[p] = data[p]
      PROVE  PageInv'
  BY Zenon, <1>1 DEF PageInv
<1>2. CASE SetKey \/ ClearKey \/ UNCHANGED vars
  BY <1>1, <1>2 DEF SetKey, ClearKey, StoreKey, vars, cacheVars, lowerVars
<1>3. CASE Evict
  BY Zenon, <1>1, <1>3 DEF Evict, Drop, lowerVars
<1>4. ASSUME NEW p \in Pages, Writeback(p) \/ Reclaim(p) PROVE PageInv'
  BY <1>1, <1>4 DEF Writeback, Reclaim, Drop, lowerVars
<1>5. ASSUME NEW t \in Tasks, StartCall(t) PROVE PageInv'
  BY Zenon, <1>1, <1>5 DEF StartCall, ReadStart, WriteStart, TruncStart, cacheVars,
                    lowerVars
<1>6. ASSUME NEW t \in Tasks, ReadStep(t) PROVE PageInv'
  <2>1. CASE \/ ReadHit(t) \/ ReadpageNoKey(t) \/ ReadpageKey(t)
             \/ ReadpageSeek(t) \/ ReadpageRead(t)
    BY Zenon, <1>1, <2>1 DEF ReadHit, ReadpageNoKey, ReadpageKey, ReadpageSeek,
                      ReadpageRead, cacheVars, lowerVars
  <2>2. CASE ReadMiss(t)
    BY <1>0, <1>1, <2>2 DEF ReadMiss, Lock, ControlType, lowerVars
  <2>3. CASE ReadpageNoPage(t)
    BY Zenon, <2>3 DEF ReadpageNoPage, Fails, Orderly
  <2>4. CASE ReadpageDone(t)
    <3> DEFINE p == req[t].p
    <3>1. p \in Pages /\ UNCHANGED <<lower, lsize>> /\ pc[t] = "rp_done"
      BY Zenon, <1>0, <2>4 DEF ReadpageDone, ControlType, lowerVars
    <3>2. CASE uptodate' = uptodate \ {p} /\ UNCHANGED data
      BY Zenon, <1>0, <1>1, <2>4, <3>1, <3>2 DEF ReadpageDone, Unlock, ControlType
    <3>3. CASE /\ uptodate' = uptodate \cup {p}
               /\ data' = [data EXCEPT ![p] = DecryptPage(encKey[t], buf[t].cells)]
      <4>1. ASSUME NEW o \in Offs, Pos(p, o) < lsize
            PROVE  data'[p][o] = lower[p][o].v
        <5>1. data'[p][o] = DecryptCell(key, o, lower[p][o])
          BY Zenon, <1>0, <3>1, <3>3, <4>1 DEF DecryptPage, KeyInv, ReadInv
        <5>2. lower[p][o].k = key /\ lower[p][o].o = o
          BY Zenon, <3>1, <4>1 DEF StoreInv
        <5> QED
          BY <5>1, <5>2 DEF DecryptCell
      <4>2. \A q \in Pages \ {p} : data'[q] = data[q]
        BY <1>0, <3>3
      <4>3. \A q \in Pages \ {p} : q \in uptodate' /\ plock'[q] = NoTask =>
              q \in uptodate /\ plock[q] = NoTask
        BY Zenon, <1>0, <2>4, <3>3 DEF ReadpageDone, Unlock, ControlType
      <4> QED
        BY Zenon, <3>1, <4>1, <4>2, <4>3 DEF PageInv
    <3> QED
      BY Zenon, <2>4, <3>2, <3>3 DEF ReadpageDone, Fails, Orderly
  <2> QED
    BY <1>6, <2>1, <2>2, <2>3, <2>4 DEF ReadStep
<1>7. ASSUME NEW t \in Tasks, \/ WriteLock(t) \/ WriteTooBig(t)
                              \/ WriteBeginNoKey(t) \/ WriteBeginKey(t)
                              \/ WriteBeginNoPage(t) \/ WriteEndKey(t)
                              \/ WriteEndSize(t)
      PROVE  PageInv'
  BY Zenon, <1>1, <1>7 DEF WriteLock, WriteTooBig, WriteBeginNoKey, WriteBeginKey,
       WriteBeginNoPage, WriteEndKey, WriteEndSize, cacheVars, lowerVars
<1>8. ASSUME NEW t \in Tasks, WriteBeginPage(t) PROVE PageInv'
  <2>1. \A q \in Pages \ {req[t].p} : data'[q] = data[q]
    BY Zenon, <1>0, <1>8 DEF WriteBeginPage
  <2>2. plock'[req[t].p] = t
    BY Zenon, <1>0, <1>8 DEF WriteBeginPage, Lock, ControlType
  <2>3. \A q \in Pages \ {req[t].p} : plock'[q] = plock[q]
    BY <1>0, <1>8 DEF WriteBeginPage, Lock, ControlType
  <2> QED
    BY Zenon, <1>0, <1>1, <1>8, <2>1, <2>2, <2>3 DEF WriteBeginPage, lowerVars
<1>9. ASSUME NEW t \in Tasks, CopyFromUser(t) PROVE PageInv'
  <2>1. plock[req[t].p] = t
    BY Zenon, <1>9 DEF CopyFromUser, Goto, Exclusive, WritePcs
  <2>2. \A q \in Pages \ {req[t].p} : data'[q] = data[q]
    BY Zenon, <1>0, <1>9 DEF CopyFromUser
  <2> QED
    BY Zenon, <1>0, <1>1, <1>9, <2>1, <2>2 DEF CopyFromUser, lowerVars
<1>10. ASSUME NEW t \in Tasks, WriteEndNoPage(t) PROVE PageInv'
  BY Zenon, <1>10 DEF WriteEndNoPage, Fails, Orderly
<1>11. ASSUME NEW t \in Tasks, WriteEndLower(t) PROVE PageInv'
  <2>1. UNCHANGED <<uptodate, data, plock>> /\ pc[t] = "we_write"
    BY Zenon, <1>11 DEF WriteEndLower, Goto, cacheVars
  <2>2. plock[req[t].p] # NoTask
    BY Zenon, <1>0, <2>1 DEF Exclusive, WritePcs
  <2>3. ASSUME NEW q \in Pages, NEW o \in Offs, q \in uptodate,
               plock[q] = NoTask, Pos(q, o) < lsize'
        PROVE  data[q][o] = lower'[q][o].v
    <3>1. lower'[q][o] = lower[q][o] /\ Pos(q, o) < lsize
      BY <1>11, <2>2, <2>3, StoresPage
    <3> QED
      BY Zenon, <2>3, <3>1 DEF PageInv
  <2> QED
    BY Zenon, <2>1, <2>3 DEF PageInv
<1>12. ASSUME NEW t \in Tasks, WriteEndTail(t) PROVE PageInv'
  <2> DEFINE p == req[t].p
  <2>1. /\ p \in Pages /\ pc[t] = "we_tail" /\ req[t].from = 0
        /\ req[t].copied = PageSize /\ UNCHANGED <<lower, lsize, uptodate>>
    BY Zenon, <1>0, <1>12 DEF WriteEndTail, Goto, ControlType, lowerVars, ChunkInv,
                       WriteCallPcs, WritePcs
  <2>2. ASSUME NEW o \in Offs PROVE data'[p][o] = lower[p][o].v
    <3>1. ~ (o >= 0 + PageSize)
      BY ConstType DEF Offs
    <3>2. data'[p] = FillZeros(data[p], p, 0 + PageSize)
      BY Zenon, <1>0, <1>12, <2>1 DEF WriteEndTail
    <3>3. data'[p][o] = data[p][o]
      BY <3>1, <3>2 DEF FillZeros
    <3>4. data[p][o] = req[t].v /\ lower[p][o] = EncryptCell(key, o, req[t].v)
      BY Zenon, <2>1 DEF WriterInv
    <3>5. data[p][o] = lower[p][o].v
      <4>1. EncryptCell(key, o, req[t].v).v = req[t].v
        BY Zenon DEF EncryptCell
      <4> QED
        BY <3>4, <4>1
    <3> QED
      BY Zenon, <3>3, <3>5
  <2>3. \A q \in Pages \ {p} : data'[q] = data[q] /\ plock'[q] = plock[q]
    BY <1>0, <1>12 DEF WriteEndTail, Unlock, ControlType
  <2> QED
    BY <2>1, <2>2, <2>3 DEF PageInv
<1>13. ASSUME NEW t \in Tasks, TruncUpper(t) PROVE PageInv'
  BY Zenon, <1>1, <1>13 DEF TruncUpper, cacheVars, lowerVars
<1>14. ASSUME NEW t \in Tasks, TruncPage(t) PROVE PageInv'
  <2>1. PICK i \in todo[t] :
          IF Pos(i, 0) >= isize
          THEN Drop({i})
          ELSE /\ data' = IF i \notin cached THEN data
                          ELSE [data EXCEPT ![i] = [o \in Offs |->
                                  IF Pos(i, o) < isize THEN @[o] ELSE Zero]]
               /\ UNCHANGED <<cached, uptodate, dirty>>
    BY Zenon, <1>14 DEF TruncPage
  <2>2. /\ pc[t] = "tr_pages" /\ i \in Pages /\ isize \in Nat
        /\ Pos(i, 0) \in Nat
    <3>1. pc[t] = "tr_pages" /\ i \in Pages /\ isize \in 0 .. MaxSize
      BY Zenon, <1>14 DEF TruncPage, TypeOK
    <3>2. Pos(i, 0) \in 0 .. MaxSize /\ MaxSize \in Nat
      BY Zenon, <3>1, WholePage
    <3> QED
      BY <3>1, <3>2
  <2>3. Drop({i})
    BY Zenon, <2>1, <2>2 DEF LengthInv
  <2> QED
    BY Zenon, <1>1, <1>14, <2>3 DEF TruncPage, Drop, lowerVars
<1>15. ASSUME NEW t \in Tasks, TruncLower(t) PROVE PageInv'
  <2>1. UNCHANGED <<uptodate, data, plock>>
    BY Zenon, <1>15 DEF TruncLower, cacheVars
  <2>2. ASSUME NEW q \in Pages, NEW o \in Offs, Pos(q, o) < lsize'
        PROVE  lower'[q][o] = lower[q][o] /\ Pos(q, o) < lsize
    <3>1. Pos(q, o) \in Nat /\ lsize \in Nat
      BY PosInFile, ConstType DEF Offs, TypeOK
    <3>2. /\ lsize' \in 0 .. MaxSize /\ lsize' <= lsize
          /\ lower'[q][o] = lower[q][o]
      BY Zenon, <1>15, <2>2, CutsLower
    <3>3. lsize' \in Nat
      BY Zenon, <3>2, SizesNatural
    <3> QED
      BY <2>2, <3>1, <3>2, <3>3
  <2> QED
    BY Zenon, <2>1, <2>2 DEF PageInv
<1> QED
  BY Zenon, <1>2, <1>3, <1>4, <1>5, <1>6, <1>7, <1>8, <1>9, <1>10, <1>11, <1>12,
     <1>13, <1>14, <1>15
  DEF Next, Continue, WriteStep, TruncStep

\* What readpage has read stays true until it is decrypted: the position is its
\* own, its page is locked, and a truncation only cuts the file off.
LEMMA ReadInvNext ==
  ASSUME Orderly, TypeOK, Exclusive, KeyInv, ChunkInv, LengthInv, WriterInv,
         ReadInv, [Next]_vars
  PROVE  ReadInv'
<1> DEFINE Reading == ReadPcs \cup {"rd_find"}
           Own(u)  == /\ pc'[u] = pc[u] /\ req'[u] = req[u]
                      /\ buf'[u].cells = buf[u].cells
           Reads(u) ==
             /\ pc[u] \in Reading => req[u].f \in Opens[u]
             /\ pc[u] = "rp_read" => fpos[req[u].f] = Pos(req[u].p, 0)
             /\ pc[u] = "rp_done" => \A o \in Offs : Pos(req[u].p, o) < lsize =>
                                       buf[u].cells[o] = lower[req[u].p][o]
<1>0. /\ ControlType /\ buf \in [Tasks -> Buffer]
      /\ fpos \in [Files -> 0 .. MaxSize]
      /\ lsize \in 0 .. MaxSize /\ MaxSize \in Nat
      /\ \A p \in Pages, o \in Offs : Pos(p, o) \in Nat
  BY TypeOKControl, PosInFile, ConstType DEF TypeOK, Offs
<1>a. ASSUME NEW u \in Tasks, Own(u), UNCHANGED <<lower, lsize>>,
             pc[u] = "rp_read" => fpos'[req[u].f] = fpos[req[u].f]
      PROVE  Reads(u)'
  BY Zenon, <1>a DEF ReadInv
<1>b. ASSUME NEW u \in Tasks, pc'[u] \notin Reading PROVE Reads(u)'
  BY <1>b DEF ReadPcs
<1>c. ASSUME \A u \in Tasks : Reads(u)' PROVE ReadInv'
  BY Zenon, <1>c DEF ReadInv
<1>1. ASSUME NEW t \in Tasks, UNCHANGED <<lower, lsize, fpos>>,
             pc'[t] \notin Reading, \A u \in Tasks \ {t} : Own(u)
      PROVE  ReadInv'
  <2> HIDE DEF Reads, Own
  <2> QED
    BY Zenon, <1>1, <1>a, <1>b, <1>c
<1>2. CASE \/ SetKey \/ ClearKey \/ UNCHANGED vars
           \/ \E p \in Pages : Writeback(p) \/ Reclaim(p)
  <2>1. UNCHANGED <<pc, req, lower, lsize, fpos, buf>>
    BY Zenon, <1>2 DEF SetKey, ClearKey, StoreKey, Writeback, Reclaim, vars,
                       lowerVars, localVars
  <2> QED
    BY Zenon, <2>1 DEF ReadInv
<1>3. CASE Evict
  BY Zenon, <1>3 DEF Evict, ReadInv, ReadPcs
<1>4. ASSUME NEW t \in Tasks, StartCall(t) PROVE ReadInv'
  <2>1. CASE ReadStart(t)
    <3>1. PICK f \in Opens[t], p \in Pages :
            req' = [req EXCEPT ![t] = NewRequest(f, p, 0, 0, Zero, 0)]
      BY Zenon, <2>1 DEF ReadStart
    <3>2. /\ pc'[t] = "rd_find" /\ \A u \in Tasks \ {t} : pc'[u] = pc[u]
          /\ UNCHANGED <<lower, lsize, fpos, buf>>
      BY Zenon, <1>0, <2>1 DEF ReadStart, Call, Goto, lowerVars, localVars, ControlType
    <3>3. req'[t].f \in Opens[t] /\ \A u \in Tasks \ {t} : req'[u] = req[u]
      BY Zenon, <1>0, <3>1 DEF NewRequest, ControlType
    <3>4. Reads(t)'
      BY Zenon, <3>2, <3>3
    <3>5. \A u \in Tasks \ {t} : Own(u)
      BY Zenon, <3>2, <3>3
    <3> HIDE DEF Reads, Own
    <3> QED
      BY Zenon, <1>a, <1>c, <3>2, <3>4, <3>5
  <2>2. CASE WriteStart(t) \/ TruncStart(t)
    BY Zenon, <1>0, <1>1, <2>2 DEF WriteStart, TruncStart, Call, Goto, lowerVars,
                            localVars, ControlType, ReadPcs
  <2> QED
    BY Zenon, <1>4, <2>1, <2>2 DEF StartCall
<1>5. ASSUME NEW t \in Tasks, ReadStep(t) PROVE ReadInv'
  <2>1. CASE ReadHit(t) \/ ReadpageNoKey(t) \/ ReadpageNoPage(t)
    BY Zenon, <1>0, <1>1, <2>1 DEF ReadHit, ReadpageNoKey, ReadpageNoPage, Return,
                            lowerVars, ControlType, ReadPcs
  <2>2. CASE ReadMiss(t) \/ ReadpageKey(t)
    <3>1. /\ pc[t] \in {"rd_find", "rp_key"} /\ pc'[t] \in {"rp_key", "rp_seek"}
          /\ \A u \in Tasks \ {t} : pc'[u] = pc[u]
          /\ UNCHANGED <<lower, lsize, fpos, req, buf>>
      BY <1>0, <2>2 DEF ReadMiss, ReadpageKey, Goto, lowerVars, localVars,
                        ControlType
    <3> QED
      BY Zenon, <3>1 DEF ReadInv, ReadPcs
  <2>3. CASE ReadpageSeek(t)
    <3>1. /\ pc[t] = "rp_seek" /\ pc' = [pc EXCEPT ![t] = "rp_read"]
          /\ fpos' = [fpos EXCEPT ![req[t].f] = Pos(req[t].p, 0)]
          /\ UNCHANGED <<lower, lsize, req, buf>>
      BY Zenon, <2>3 DEF ReadpageSeek, Goto, lowerVars, localVars
    <3>2. req[t].f \in Opens[t] /\ Opens[t] \subseteq Files
      BY Zenon, <3>1, MmapAssumption DEF ReadInv, ReadPcs
    <3>3. fpos'[req[t].f] = Pos(req[t].p, 0)
      BY Zenon, <1>0, <3>1, <3>2
    <3>4. ASSUME NEW u \in Tasks \ {t}, pc[u] = "rp_read"
          PROVE  fpos'[req[u].f] = fpos[req[u].f]
      <4>1. req[u].f \in Opens[u] /\ Opens[u] \subseteq Files
        BY Zenon, <3>4, MmapAssumption DEF ReadInv, ReadPcs
      <4>2. req[u].f # req[t].f
        BY Zenon, <3>2, <4>1 DEF Orderly
      <4> QED
        BY Zenon, <1>0, <3>1, <4>1, <4>2
    <3> QED
      BY Zenon, <1>0, <3>1, <3>3, <3>4 DEF ReadInv, ControlType, ReadPcs
  <2>4. CASE ReadpageRead(t)
    <3>1. /\ pc[t] = "rp_read" /\ pc' = [pc EXCEPT ![t] = "rp_done"]
          /\ UNCHANGED <<lower, lsize, fpos, req>>
      BY Zenon, <2>4 DEF ReadpageRead, Goto, lowerVars
    <3>2. buf' = [buf EXCEPT ![t] =
                    [cells |-> ReadCells(lower, lsize, fpos[req[t].f]),
                     next  |-> fpos[req[t].f] + ReadCount(lsize, fpos[req[t].f])]]
      BY Zenon, <2>4 DEF ReadpageRead, Fails, Orderly
    <3>3. buf'[t].cells = ReadCells(lower, lsize, fpos[req[t].f])
      BY <1>0, <3>2
    <3>4. fpos[req[t].f] = Pos(req[t].p, 0) /\ req[t].p \in Pages
      BY Zenon, <1>0, <3>1 DEF ReadInv, ControlType
    <3>5. \A o \in Offs : Pos(req[t].p, o) < lsize =>
            buf'[t].cells[o] = lower[req[t].p][o]
      <4>1. lsize \in 0 .. MaxSize
        BY Zenon, <1>0
      <4>2. ASSUME NEW o \in Offs, Pos(req[t].p, o) < lsize
            PROVE  ReadCells(lower, lsize, Pos(req[t].p, 0))[o]
                     = lower[req[t].p][o]
        BY Zenon, <3>4, <4>1, <4>2, WholePageRead
      <4> QED
        BY Zenon, <3>3, <3>4, <4>2
    <3>6. \A u \in Tasks \ {t} : buf'[u] = buf[u]
      BY <1>0, <3>2
    <3>7. /\ pc'[t] = "rp_done" /\ req'[t].f \in Opens[t]
          /\ \A u \in Tasks \ {t} : Own(u)
      BY Zenon, <1>0, <3>1, <3>6 DEF ReadInv, ControlType, ReadPcs
    <3>8. Reads(t)'
      BY Zenon, <3>1, <3>5, <3>7
    <3> HIDE DEF Reads, Own
    <3> QED
      BY Zenon, <1>a, <1>c, <3>1, <3>7, <3>8
  <2>5. CASE ReadpageDone(t)
    <3>1. /\ pc[t] = "rp_done" /\ UNCHANGED <<lower, lsize>>
          /\ fpos' = [fpos EXCEPT ![req[t].f] = buf[t].next]
          /\ pc'[t] = "idle" /\ \A u \in Tasks \ {t} : Own(u)
      BY <1>0, <2>5 DEF ReadpageDone, Return, lowerVars, ControlType
    <3>2. req[t].f \in Opens[t]
      BY Zenon, <3>1 DEF ReadInv, ReadPcs
    <3>3. ASSUME NEW u \in Tasks \ {t}, pc[u] = "rp_read"
          PROVE  fpos'[req[u].f] = fpos[req[u].f]
      <4>1. req[u].f \in Opens[u] /\ Opens[u] \subseteq Files
        BY Zenon, <3>3, MmapAssumption DEF ReadInv, ReadPcs
      <4>2. req[u].f # req[t].f
        BY Zenon, <3>2, <4>1 DEF Orderly
      <4> QED
        BY Zenon, <1>0, <3>1, <4>1, <4>2
    <3>4. pc'[t] \notin Reading
      BY Zenon, <3>1 DEF ReadPcs
    <3> HIDE DEF Reads, Own, Reading
    <3> QED
      BY Zenon, <1>a, <1>b, <1>c, <3>1, <3>3, <3>4
  <2> QED
    BY <1>5, <2>1, <2>2, <2>3, <2>4, <2>5 DEF ReadStep
<1>6. ASSUME NEW t \in Tasks, \/ WriteLock(t) \/ WriteBeginKey(t)
                              \/ WriteBeginPage(t) \/ CopyFromUser(t)
                              \/ WriteEndKey(t) \/ WriteEndTail(t)
      PROVE  ReadInv'
  <2>1. \A u \in Tasks \ {t} : req'[u] = req[u]
    BY Zenon, <1>0, <1>6 DEF WriteLock, WriteBeginKey, WriteBeginPage, CopyFromUser,
                      WriteEndKey, WriteEndTail, ControlType
  <2>2. /\ pc'[t] \notin Reading /\ \A u \in Tasks \ {t} : pc'[u] = pc[u]
        /\ UNCHANGED <<lower, lsize, fpos, buf>>
    BY Zenon, <1>0, <1>6 DEF WriteLock, WriteBeginKey, WriteBeginPage, CopyFromUser,
         WriteEndKey, WriteEndTail, Goto, lowerVars, localVars, ControlType,
         ReadPcs
  <2> QED
    BY Zenon, <1>1, <2>1, <2>2
<1>7. ASSUME NEW t \in Tasks, \/ WriteTooBig(t) \/ WriteBeginNoKey(t)
                              \/ WriteBeginNoPage(t) \/ WriteEndNoPage(t)
      PROVE  ReadInv'
  BY Zenon, <1>0, <1>1, <1>7 DEF WriteTooBig, WriteBeginNoKey, WriteBeginNoPage,
       WriteEndNoPage, WriteReturn, Return, lowerVars, ControlType, ReadPcs
<1>8. ASSUME NEW t \in Tasks, WriteEndLower(t) PROVE ReadInv'
  <2>1. UNCHANGED <<fpos, req, buf>>
    BY Zenon, <1>8 DEF WriteEndLower, localVars
  <2>2. /\ pc[t] = "we_write" /\ pc' = [pc EXCEPT ![t] = "we_tail"]
        /\ \A q \in Pages \ {req[t].p}, o \in Offs :
             /\ lower'[q][o] = lower[q][o]
             /\ Pos(q, o) < lsize' => Pos(q, o) < lsize
    BY Zenon, <1>8, StoresPage
  <2>3. ASSUME NEW u \in Tasks, pc[u] = "rp_done"
        PROVE  req[u].p \in Pages \ {req[t].p}
    BY Zenon, <1>0, <2>2, <2>3 DEF Exclusive, ReadPcs, WritePcs, ControlType
  <2>4. ASSUME NEW u \in Tasks, pc[u] = "rp_done", NEW o \in Offs,
               Pos(req[u].p, o) < lsize'
        PROVE  buf[u].cells[o] = lower'[req[u].p][o]
    <3>1. /\ lower'[req[u].p][o] = lower[req[u].p][o]
          /\ Pos(req[u].p, o) < lsize
      BY Zenon, <2>2, <2>3, <2>4
    <3>2. buf[u].cells[o] = lower[req[u].p][o]
      BY Zenon, <2>4, <3>1 DEF ReadInv
    <3> QED
      BY Zenon, <3>1, <3>2
  <2> QED
    BY Zenon, <1>0, <2>1, <2>2, <2>4 DEF ReadInv, ControlType, ReadPcs
<1>9. ASSUME NEW t \in Tasks, WriteEndSize(t) PROVE ReadInv'
  <2>1. pc'[t] \notin Reading /\ \A u \in Tasks \ {t} : Own(u)
    BY Zenon, <1>0, <1>9 DEF WriteEndSize, WriteReturn, Return, ControlType, ReadPcs
  <2> QED
    BY Zenon, <1>1, <1>9, <2>1 DEF WriteEndSize, lowerVars
<1>10. ASSUME NEW t \in Tasks, TruncUpper(t) \/ TruncPage(t) PROVE ReadInv'
  <2>1. pc'[t] \notin Reading /\ \A u \in Tasks \ {t} : Own(u)
    BY Zenon, <1>0, <1>10 DEF TruncUpper, TruncPage, ControlType, ReadPcs
  <2> QED
    BY Zenon, <1>1, <1>10, <2>1 DEF TruncUpper, TruncPage, lowerVars
<1>11. ASSUME NEW t \in Tasks, TruncLower(t) PROVE ReadInv'
  <2>1. /\ pc'[t] \notin Reading /\ \A u \in Tasks \ {t} : Own(u)
        /\ UNCHANGED fpos
    BY Zenon, <1>0, <1>11 DEF TruncLower, WriteReturn, Return, ControlType, ReadPcs
  <2>2. ASSUME NEW q \in Pages, NEW o \in Offs, Pos(q, o) < lsize'
        PROVE  lower'[q][o] = lower[q][o] /\ Pos(q, o) < lsize
    <3>1. /\ lsize' \in 0 .. MaxSize /\ lsize' <= lsize
          /\ lower'[q][o] = lower[q][o]
      BY Zenon, <1>11, <2>2, CutsLower
    <3>2. Pos(q, o) \in Nat /\ lsize \in Nat /\ MaxSize \in Nat
      BY <1>0
    <3> QED
      BY <2>2, <3>1, <3>2
  <2>3. ASSUME NEW u \in Tasks, pc'[u] = "rp_done", NEW o \in Offs,
               Pos(req'[u].p, o) < lsize'
        PROVE  buf'[u].cells[o] = lower'[req'[u].p][o]
    <3>1. u # t /\ Own(u) /\ req[u].p \in Pages
      BY Zenon, <1>0, <2>1, <2>3 DEF ReadPcs, ControlType
    <3> QED
      <4>1. Pos(req[u].p, o) < lsize' /\ pc[u] = "rp_done"
        BY Zenon, <2>3, <3>1
      <4>2. lower'[req[u].p][o] = lower[req[u].p][o] /\ Pos(req[u].p, o) < lsize
        BY Zenon, <2>2, <3>1, <4>1
      <4> QED
        BY Zenon, <3>1, <4>1, <4>2 DEF ReadInv
  <2> QED
    <3>1. ASSUME NEW u \in Tasks \ {t} PROVE Reads(u)'
      BY Zenon, <2>1, <2>3, <3>1 DEF ReadInv
    <3> HIDE DEF Reads, Own, Reading
    <3> QED
      BY Zenon, <1>b, <1>c, <2>1, <3>1
<1> QED
  BY Zenon, <1>2, <1>3, <1>4, <1>5, <1>6, <1>7, <1>8, <1>9, <1>10, <1>11
  DEF Next, Continue, WriteStep, TruncStep

-----------------------------------------------------------------------------
(***************************************************************************)
(* The results.                                                            *)
(***************************************************************************)

\* A freshly mounted empty file satisfies the invariant.
LEMMA CoherenceInit == Init => CoherenceInv
<1>1. Init => KeyInv /\ ChunkInv /\ LengthInv
  BY DEF Init, KeyInv, ChunkInv, LengthInv, WriteCallPcs, WritePcs
<1>2. Init => ReadInv /\ WriterInv
  BY Zenon DEF Init, ReadInv, WriterInv, ReadPcs
<1>3. \A p \in Pages, o \in Offs : ~ (Pos(p, o) < 0)
  BY PosInFile, ConstType DEF Offs
<1>4. Init => StoreInv /\ PageInv
  <2> SUFFICES ASSUME Init PROVE StoreInv /\ PageInv
    OBVIOUS
  <2>1. lsize = 0
    BY Zenon DEF Init
  <2>2. \A p \in Pages, o \in Offs : ~ (Pos(p, o) < lsize)
    BY Zenon, <1>3, <2>1
  <2>3. StoreInv
    BY Zenon, <2>1, <2>2 DEF StoreInv
  <2>4. PageInv
    BY Zenon, <2>2 DEF PageInv
  <2> QED
    BY Zenon, <2>3, <2>4
<1> QED
  BY Zenon, <1>1, <1>2, <1>4 DEF CoherenceInv, DataInv

\* Every step of an orderly use keeps it.
LEMMA CoherenceNext ==
  ASSUME Orderly, TypeOK, Exclusive, CoherenceInv, [Next]_vars
  PROVE  CoherenceInv'
<1> USE DEF CoherenceInv, DataInv
<1>1. KeyInv' /\ ChunkInv' /\ LengthInv'
  BY Zenon, KeyInvNext, ChunkInvNext, LengthInvNext
<1>2. ReadInv' /\ StoreInv'
  BY ReadInvNext, StoreInvNext
<1>3. WriterInv' /\ PageInv'
  BY WriterInvNext, PageInvNext
<1> QED
  BY Zenon, <1>1, <1>2, <1>3

\* The invariant holds throughout every orderly use of the file.
THEOREM CoherenceInvariant ==
  ASSUME Orderly
  PROVE  Spec => []CoherenceInv
<1>1. TypeOK /\ Exclusive /\ CoherenceInv /\ [Next]_vars => CoherenceInv'
  BY CoherenceNext
<1> QED
  BY <1>1, CoherenceInit, TypeCorrect, ExclusiveAccess, PTL DEF Spec

\* The cells before the end of the wrapfs file are before that of the lower.
LEMMA WithinLower ==
  ASSUME TypeOK, LengthInv, NEW p \in Pages, NEW o \in Offs, Pos(p, o) < isize
  PROVE  Pos(p, o) < lsize
<1>1. Pos(p, o) \in Nat /\ isize \in Nat /\ lsize \in Nat /\ isize <= lsize
  BY PosInFile, ConstType DEF Offs, TypeOK, LengthInv
<1> QED
  BY <1>1

\* An up-to-date page nobody has locked shows what decrypting the lower file
\* with the key gives: readpage, write_end, truncation, reclaim and eviction
\* keep the page cache and the encrypted file together.
THEOREM CacheIsCoherent ==
  ASSUME Orderly
  PROVE  Spec => []CacheCoherent
<1>1. ASSUME TypeOK, CoherenceInv, NEW p \in uptodate, NEW o \in Offs,
             plock[p] = NoTask, Pos(p, o) < isize
      PROVE  data[p][o] = DecryptCell(key, o, lower[p][o])
  <2>1. p \in Pages
    BY <1>1 DEF TypeOK
  <2>2. Pos(p, o) < lsize
    BY Zenon, <1>1, <2>1, WithinLower DEF CoherenceInv
  <2>3. /\ data[p][o] = lower[p][o].v
        /\ lower[p][o].k = key /\ lower[p][o].o = o
    BY Zenon, <1>1, <2>1, <2>2 DEF CoherenceInv, DataInv, PageInv, StoreInv
  <2> QED
    BY Zenon, <2>3 DEF DecryptCell
<1>2. TypeOK /\ CoherenceInv => CacheCoherent
  BY Zenon, <1>1 DEF CacheCoherent
<1> QED
  BY <1>2, CoherenceInvariant, TypeCorrect, PTL

\* A reader who trusts PageUptodate never sees uninitialised or wrongly
\* decrypted contents, except in a page write_begin has just handed out.
THEOREM JunkIsNotShown ==
  ASSUME Orderly
  PROVE  Spec => []JunkOnlyMidCopy
<1>1. ASSUME TypeOK, CoherenceInv, LostLockInv, NEW p \in uptodate,
             NEW o \in Offs, data[p][o] = Junk, Pos(p, o) < isize
      PROVE  plock[p] # NoTask /\ pc[plock[p]] = "wr_copy"
  <2>1. p \in Pages /\ plock[p] \in Tasks \cup {NoTask} /\ Junk \notin Data
    BY <1>1, CipherAssumption DEF TypeOK
  <2>2. Pos(p, o) < lsize
    BY Zenon, <1>1, <2>1, WithinLower DEF CoherenceInv
  <2>3. plock[p] # NoTask
    BY Zenon, <1>1, <2>1, <2>2 DEF CoherenceInv, DataInv, PageInv, StoreInv
  <2>4. pc[plock[p]] \in WritePcs /\ req[plock[p]].p = p
    BY Zenon, <1>1, <2>1, <2>3 DEF LostLockInv
  <2>5. req[plock[p]].v \in Data
    BY Zenon, <1>1, <2>1, <2>3, <2>4 DEF CoherenceInv, ChunkInv, WriteCallPcs
  <2>6. pc[plock[p]] \notin {"we_key", "we_write", "we_tail"}
    BY Zenon, <1>1, <2>1, <2>3, <2>4, <2>5 DEF CoherenceInv, DataInv, WriterInv
  <2> QED
    BY Zenon, <2>3, <2>4, <2>6 DEF WritePcs
<1>2. TypeOK /\ CoherenceInv /\ LostLockInv => JunkOnlyMidCopy
  BY <1>1 DEF JunkOnlyMidCopy
<1> QED
  BY <1>2, CoherenceInvariant, FlagsInvariant, TypeCorrect, PTL

\* Between readpage's store of lower_file->f_pos and the vfs_read that uses it
\* nobody else moves the position, as long as tasks do not share open files.
THEOREM ReadpageReadsOwnPage ==
  ASSUME Orderly
  PROVE  Spec => []ReadsOwnPage
<1>1. CoherenceInv => ReadsOwnPage
  BY Zenon DEF CoherenceInv, DataInv, ReadInv, ReadsOwnPage
<1> QED
  BY <1>1, CoherenceInvariant, PTL

\* When the vfs_write of write_end has returned, the chunk it was called for is
\* in the lower file, encrypted at its place.
THEOREM WriteEndStoresChunk ==
  ASSUME Orderly
  PROVE  Spec => []ChunkOnDisk
<1>1. ASSUME TypeOK, CoherenceInv, NEW t \in Tasks, pc[t] = "we_tail",
             NEW o \in req[t].from .. req[t].from + req[t].copied - 1
      PROVE  lower[req[t].p][o] = EncryptCell(encKey[t], o, data[req[t].p][o])
  <2>1. o \in Offs
    BY <1>1, ConstType DEF CoherenceInv, ChunkInv, WriteCallPcs, WritePcs, Offs
  <2> QED
    BY Zenon, <1>1, <2>1 DEF CoherenceInv, DataInv, WriterInv, KeyInv
<1>2. TypeOK /\ CoherenceInv => ChunkOnDisk
  BY Zenon, <1>1 DEF ChunkOnDisk
<1> QED
  BY <1>2, CoherenceInvariant, TypeCorrect, PTL

\* The pages writeback cleans lose nothing: wrapfs_writepage writes nothing, and
\* nothing is left to write.
THEOREM WritebackLosesNothing ==
  ASSUME Orderly
  PROVE  Spec => WritebackStores
<1>1. ASSUME TypeOK, FlagInv, CacheCoherent, [Next]_vars,
             NEW p \in dirty \ dirty', p \in cached', NEW o \in Offs,
             Pos(p, o) < isize
      PROVE  data[p][o] = DecryptCell(key, o, lower'[p][o])
  <2>1. Writeback(p)
    <3>1. ~ UNCHANGED vars /\ ~ SetKey /\ ~ ClearKey
      BY <1>1 DEF vars, cacheVars, SetKey, ClearKey, StoreKey
    <3>2. ~ Evict /\ \A q \in Pages : ~ Reclaim(q)
      BY Zenon, <1>1 DEF Evict, Reclaim, Drop
    <3>3. ASSUME NEW t \in Tasks PROVE ~ StartCall(t) /\ ~ ReadStep(t)
      BY Zenon, <1>1 DEF StartCall, ReadStart, WriteStart, TruncStart, ReadStep,
           ReadHit, ReadMiss, ReadpageNoKey, ReadpageKey, ReadpageNoPage,
           ReadpageSeek, ReadpageRead, ReadpageDone, cacheVars
    <3>4. ASSUME NEW t \in Tasks PROVE ~ WriteStep(t)
      BY Zenon, <1>1 DEF WriteStep, WriteLock, WriteTooBig, WriteBeginNoKey,
           WriteBeginKey, WriteBeginNoPage, WriteBeginPage, CopyFromUser,
           WriteEndKey, WriteEndNoPage, WriteEndLower, WriteEndTail,
           WriteEndSize, cacheVars
    <3>5. ASSUME NEW t \in Tasks PROVE ~ TruncStep(t)
      BY Zenon, <1>1 DEF TruncStep, TruncUpper, TruncPage, TruncLower, Drop, cacheVars
    <3>6. PICK q \in Pages : Writeback(q)
      BY Zenon, <1>1, <3>1, <3>2, <3>3, <3>4, <3>5 DEF Next, Continue
    <3> QED
      BY Zenon, <1>1, <3>6 DEF Writeback
  <2>2. p \in uptodate /\ plock[p] = NoTask /\ UNCHANGED lower
    BY Zenon, <1>1, <2>1 DEF Writeback, FlagInv, DirtyIsUptodate, lowerVars
  <2> QED
    BY Zenon, <1>1, <2>2 DEF CacheCoherent
<1>2. TypeOK /\ FlagInv /\ CacheCoherent /\ [Next]_vars =>
        [\A p \in dirty \ dirty' : p \in cached' =>
           \A o \in Offs : Pos(p, o) < isize =>
             data[p][o] = DecryptCell(key, o, lower'[p][o])]_vars
  BY Zenon, <1>1
<1> QED
  BY <1>2, CacheIsCoherent, FlagsInvariant, TypeCorrect, PTL
  DEF Spec, WritebackStores

\* The size a program sees only shrinks when it is truncated or the inode is
\* read in anew: the lower size write_end copies up is never the smaller one.
THEOREM WritesDoNotShrink ==
  ASSUME Orderly
  PROVE  Spec => WriteNeverShrinks
<1>1. ASSUME TypeOK, CoherenceInv, [Next]_vars, isize' < isize
      PROVE  \/ \E t \in Tasks : pc[t] = "tr_mutex" /\ pc'[t] # pc[t]
             \/ cached' = {} /\ isize' = lsize
  <2>0. isize \in Nat /\ lsize \in Nat /\ isize <= lsize /\ MaxSize \in Nat
    BY <1>1, ConstType DEF TypeOK, CoherenceInv, LengthInv
  <2>1. isize' # isize
    BY <1>1, <2>0
  <2>2. CASE \/ UNCHANGED vars \/ SetKey \/ ClearKey
             \/ \E p \in Pages : Writeback(p) \/ Reclaim(p)
    BY Zenon, <2>1, <2>2 DEF vars, SetKey, ClearKey, StoreKey, Writeback, Reclaim
  <2>3. CASE Evict
    BY <1>1, <2>3 DEF Evict, Drop, TypeOK
  <2>4. ASSUME NEW t \in Tasks, StartCall(t) \/ ReadStep(t) PROVE FALSE
    BY Zenon, <2>1, <2>4 DEF StartCall, ReadStart, WriteStart, TruncStart, ReadStep,
         ReadHit, ReadMiss, ReadpageNoKey, ReadpageKey, ReadpageNoPage,
         ReadpageSeek, ReadpageRead, ReadpageDone
  <2>5. ASSUME NEW t \in Tasks, WriteStep(t) PROVE FALSE
    <3>1. CASE WriteEndLower(t)
      <4>1. isize' = lsize' /\ lsize' \in 0 .. MaxSize /\ lsize <= lsize'
        BY Zenon, <1>1, <3>1, StoresPage DEF CoherenceInv, DataInv
      <4> QED
        BY <1>1, <2>0, <4>1
    <3>2. CASE WriteEndSize(t)
      <4>1. isize' = GrownSize(isize, Pos(req[t].p, req[t].from + req[t].copied))
        BY Zenon, <3>2 DEF WriteEndSize
      <4>2. Pos(req[t].p, req[t].from + req[t].copied) \in 0 .. MaxSize
        BY <1>1, PosInFile, ConstType DEF TypeOK, Request
      <4>3. isize \in Nat /\ MaxSize \in Nat
        BY Zenon, <2>0, ConstType
      <4>4. isize <= isize' /\ isize' \in Nat
        BY <4>1, <4>2, <4>3 DEF GrownSize
      <4> QED
        BY <1>1, <4>3, <4>4
    <3> QED
      BY Zenon, <2>1, <2>5, <3>1, <3>2 DEF WriteStep, WriteLock, WriteTooBig,
           WriteBeginNoKey, WriteBeginKey, WriteBeginNoPage, WriteBeginPage,
           CopyFromUser, WriteEndKey, WriteEndNoPage, WriteEndTail
  <2>6. ASSUME NEW t \in Tasks, TruncStep(t)
        PROVE  pc[t] = "tr_mutex" /\ pc'[t] # pc[t]
    BY Zenon, <1>1, <2>1, <2>6 DEF TruncStep, TruncUpper, TruncPage, TruncLower, TypeOK
  <2> QED
    BY Zenon, <1>1, <2>2, <2>3, <2>4, <2>5, <2>6 DEF Next, Continue
<1>2. TypeOK /\ CoherenceInv /\ [Next]_vars =>
        [isize' < isize => \/ \E t \in Tasks : pc[t] = "tr_mutex" /\ pc'[t] # pc[t]
                           \/ cached' = {} /\ isize' = lsize]_vars
  BY <1>1
<1> QED
  BY <1>2, CoherenceInvariant, TypeCorrect, PTL DEF Spec, WriteNeverShrinks
=============================================================================
