-------------------------- MODULE WrapfsMmapProofs --------------------------
(***************************************************************************)
(* Facts about positions, cells and lower-file contents, then the safety   *)
(* of the data path: types, mutual exclusion, what is stored in the lower  *)
(* file, page locks, page flags and sizes.  For any number of tasks,       *)
(* files, pages, cells and keys, any workload, any set of failing calls    *)
(* and any bounds.                                                         *)
(***************************************************************************)
EXTENDS WrapfsMmap, TLAPS

-----------------------------------------------------------------------------
(***************************************************************************)
(* Positions and sizes.                                                    *)
(***************************************************************************)

\* page_offset of a page, and the end of a chunk inside it, lie in the file.
LEMMA PosInFile ==
  ASSUME NEW p \in Pages, NEW x \in 0 .. PageSize
  PROVE  Pos(p, x) \in 0 .. MaxSize
<1>1. PageSize \in Nat /\ NumPages \in Nat /\ p \in Nat /\ p + 1 <= NumPages
  BY CipherAssumption, NumPagesAssumption DEF Pages
<1>2. (p + 1) * PageSize <= NumPages * PageSize
  BY <1>1
<1>3. (p + 1) * PageSize = p * PageSize + PageSize /\ p * PageSize \in Nat
  BY <1>1
<1> QED
  BY <1>1, <1>2, <1>3 DEF Pos, MaxSize

\* A position before the end of the file lies in one of its pages.
LEMMA PageOfPosition ==
  ASSUME NEW x \in Nat, x < MaxSize
  PROVE  x \div PageSize \in Pages /\ x % PageSize \in Offs
<1>1. PageSize \in Nat \ {0} /\ NumPages \in Nat
  BY CipherAssumption, NumPagesAssumption
<1> DEFINE q == x \div PageSize
           m == x % PageSize
<1>2. q \in Int /\ m \in 0 .. PageSize - 1 /\ x = PageSize * q + m
  BY <1>1
<1>3. q >= 0
  BY <1>1, <1>2
<1>4. q < NumPages
  <2>1. SUFFICES ASSUME q >= NumPages PROVE FALSE
    BY <1>1, <1>2
  <2>2. PageSize * q >= PageSize * NumPages
    BY <1>1, <1>2, <2>1
  <2> QED
    BY <1>1, <1>2, <2>2 DEF MaxSize
<1> QED
  BY <1>1, <1>2, <1>3, <1>4 DEF Pages, Offs

\* Two positions less than a page apart from the start of page p are the
\* same cell: what is written at a page's start stays in that page.
LEMMA SamePage ==
  ASSUME NEW p \in Pages, NEW q \in Pages, NEW o \in Offs,
         Pos(p, 0) <= Pos(q, o), Pos(q, o) < Pos(p, 0) + PageSize
  PROVE  q = p /\ Pos(q, o) - Pos(p, 0) = o
<1>1. PageSize \in Nat \ {0} /\ p \in Nat /\ q \in Nat /\ o \in 0 .. PageSize - 1
  BY CipherAssumption, NumPagesAssumption DEF Pages, Offs
<1>2. p * PageSize <= q * PageSize + o /\ q * PageSize + o < p * PageSize + PageSize
  BY <1>1 DEF Pos
<1>3. ~ (q >= p + 1)
  <2>1. SUFFICES ASSUME q >= p + 1 PROVE FALSE
    OBVIOUS
  <2>2. q * PageSize >= (p + 1) * PageSize
    BY <1>1, <2>1
  <2>3. (p + 1) * PageSize = p * PageSize + PageSize
    BY <1>1
  <2> QED
    BY <1>1, <1>2, <2>2, <2>3
<1>4. ~ (p >= q + 1)
  <2>1. SUFFICES ASSUME p >= q + 1 PROVE FALSE
    OBVIOUS
  <2>2. p * PageSize >= (q + 1) * PageSize
    BY <1>1, <2>1
  <2>3. (q + 1) * PageSize = q * PageSize + PageSize
    BY <1>1
  <2> QED
    BY <1>1, <1>2, <2>2, <2>3
<1>5. q = p
  BY <1>1, <1>3, <1>4
<1> QED
  BY <1>1, <1>5 DEF Pos

-----------------------------------------------------------------------------
(***************************************************************************)
(* Types of what the cipher and the lower file return.                     *)
(***************************************************************************)
KeyOrNull == Keys \cup {NULL}
CellPage  == [Offs -> Cell]
PlainPage == [Offs -> Plain]

\* Encryption, decryption and the unwritten dst_page give cells, respectively
\* plaintext, of the right type.
LEMMA CellType ==
  /\ UnwrittenCells \in CellPage
  /\ Uninitialised \in PlainPage
  /\ \A v \in Plain : Raw(v) \in Cell
  /\ \A k \in KeyOrNull, page \in PlainPage : EncryptPage(k, page) \in CellPage
  /\ \A k \in KeyOrNull, cells \in CellPage : DecryptPage(k, cells) \in PlainPage
<1>1. 0 \in Offs
  BY CipherAssumption DEF Offs
<1>2. \A v \in Plain : Raw(v) \in Cell
  BY <1>1 DEF Raw, Cell
<1>3. Junk \in Plain
  BY DEF Plain
<1>4. UnwrittenCells \in CellPage
  BY <1>2, <1>3 DEF UnwrittenCells, CellPage
<1>5. Uninitialised \in PlainPage
  BY <1>3 DEF Uninitialised, PlainPage
<1>6. \A k \in KeyOrNull, page \in PlainPage : EncryptPage(k, page) \in CellPage
  BY DEF EncryptPage, EncryptCell, CellPage, PlainPage, Cell, KeyOrNull
<1>7. \A k \in KeyOrNull, cells \in CellPage : DecryptPage(k, cells) \in PlainPage
  BY <1>3 DEF DecryptPage, DecryptCell, CellPage, PlainPage, Cell
<1> QED
  BY <1>2, <1>4, <1>5, <1>6, <1>7

\* What vfs_read leaves in dst_page and in f_pos has its type.
LEMMA ReadType ==
  ASSUME NEW file \in [Pages -> CellPage], NEW size \in 0 .. MaxSize,
         NEW at \in 0 .. MaxSize
  PROVE  /\ ReadCells(file, size, at) \in CellPage
         /\ at + ReadCount(size, at) \in 0 .. MaxSize
<1>1. PageSize \in Nat /\ MaxSize \in Int
  BY CipherAssumption, NumPagesAssumption DEF MaxSize
<1>2. /\ ReadCount(size, at) \in Nat
      /\ ReadCount(size, at) = 0 \/ at + ReadCount(size, at) <= size
  BY <1>1 DEF ReadCount
<1>3. ASSUME NEW o \in Offs, o < ReadCount(size, at)
      PROVE  file[(at + o) \div PageSize][(at + o) % PageSize] \in Cell
  <2>1. at + o \in Nat /\ at + o < MaxSize
    BY <1>1, <1>2, <1>3 DEF Offs
  <2>2. (at + o) \div PageSize \in Pages /\ (at + o) % PageSize \in Offs
    BY <2>1, PageOfPosition
  <2> QED
    BY <2>2 DEF CellPage
<1>4. Raw(Junk) \in Cell
  BY CellType DEF Plain
<1>5. ReadCells(file, size, at) \in CellPage
  BY <1>3, <1>4 DEF ReadCells, CellPage
<1> QED
  BY <1>1, <1>2, <1>5

\* vfs_write keeps the type of the lower file and its size in bounds.
LEMMA WriteType ==
  ASSUME NEW file \in [Pages -> CellPage], NEW src \in CellPage,
         NEW n \in 0 .. PageSize, NEW at \in 0 .. MaxSize,
         NEW size \in 0 .. MaxSize
  PROVE  /\ WriteCells(file, src, n, at) \in [Pages -> CellPage]
         /\ SizeAfter(size, n, at) \in 0 .. MaxSize
<1>1. PageSize \in Nat /\ NumPages \in Nat /\ MaxSize \in Nat
  BY CipherAssumption, NumPagesAssumption DEF MaxSize
<1>2. ASSUME NEW p \in Pages, NEW o \in Offs,
             at <= Pos(p, o), Pos(p, o) < at + n
      PROVE  src[Pos(p, o) - at] \in Cell
  <2>1. Pos(p, o) \in Nat
    BY <1>1, PosInFile DEF Offs
  <2>2. Pos(p, o) - at \in Offs
    BY <1>1, <1>2, <2>1 DEF Offs
  <2> QED
    BY <2>2 DEF CellPage
<1>3. WriteCells(file, src, n, at) \in [Pages -> CellPage]
  BY <1>2 DEF WriteCells, CellPage
<1>4. SizeAfter(size, n, at) \in 0 .. MaxSize
  BY <1>1 DEF SizeAfter
<1> QED
  BY <1>3, <1>4

\* notify_change keeps the type of the lower file.
LEMMA TruncateType ==
  ASSUME NEW file \in [Pages -> CellPage], NEW size
  PROVE  TruncateCells(file, size) \in [Pages -> CellPage]
<1>1. Raw(Zero) \in Cell
  BY CellType DEF Plain
<1> QED
  BY <1>1 DEF TruncateCells, CellPage

-----------------------------------------------------------------------------
(***************************************************************************)
(* Type correctness.                                                       *)
(***************************************************************************)

\* A task that reads does so through an open file.
ReaderHasFile ==
  \A t \in Tasks : pc[t] \in ReadPcs \cup {"rd_find"} => req[t].f \in Files

TypeInv == TypeOK /\ ReaderHasFile

\* The initial contents, requests and buffers have their types.
LEMMA ConstType ==
  /\ 0 \in Pages /\ 0 \in Offs /\ PageSize \in Nat \ {0} /\ MaxSize \in Nat
  /\ NoRequest \in Request /\ NoBuffer \in Buffer
<1>1. 0 \in Pages /\ 0 \in Offs /\ PageSize \in Nat \ {0} /\ MaxSize \in Nat
  BY CipherAssumption, NumPagesAssumption DEF Pages, Offs, MaxSize
<1>2. NoRequest \in Request
  BY <1>1 DEF NoRequest, NewRequest, Request, Plain
<1>3. NoBuffer \in Buffer
  BY <1>1, CellType DEF NoBuffer, Buffer, CellPage
<1> QED
  BY <1>1, <1>2, <1>3

\* A chunk inside a page makes a request of the right type.
LEMMA RequestType ==
  ASSUME NEW f \in Files \cup {NULL}, NEW p \in Pages, NEW v \in Plain,
         NEW from \in 0 .. PageSize, NEW len \in 0 .. PageSize,
         NEW n \in 0 .. PageSize, from + len <= PageSize, n <= len
  PROVE  NewRequest(f, p, from, len, v, n) \in Request
BY DEF NewRequest, Request

\* The copy from user space only sets how much it has copied, and goes on.
LEMMA CopyKeeps ==
  ASSUME NEW t \in Tasks, CopyFromUser(t),
         pc \in [Tasks -> PCs], req \in [Tasks -> Request]
  PROVE  /\ pc[t] = "wr_copy" /\ pc'[t] = "we_key"
         /\ req'[t].p = req[t].p /\ req'[t].v = req[t].v
         /\ \A u \in Tasks \ {t} : pc'[u] = pc[u] /\ req'[u] = req[u]
         /\ UNCHANGED <<key, lower, lsize, isize, cached, uptodate, dirty, plock>>
<1>1. /\ pc[t] = "wr_copy" /\ pc'[t] = "we_key"
      /\ \A u \in Tasks \ {t} : pc'[u] = pc[u] /\ req'[u] = req[u]
      /\ UNCHANGED <<key, lower, lsize, isize, cached, uptodate, dirty, plock>>
  BY Zenon DEF CopyFromUser, Goto, lowerVars
<1>2. PICK n : req' = [req EXCEPT ![t] = NewRequest(req[t].f, req[t].p,
                                       req[t].from, req[t].len, req[t].v, n)]
  BY Zenon DEF CopyFromUser
<1>3. req'[t].p = req[t].p /\ req'[t].v = req[t].v
  BY Zenon, <1>2 DEF NewRequest
<1> QED
  BY Zenon, <1>1, <1>3

\* A freshly mounted file has its type.
LEMMA TypeInvInit == Init => TypeInv
<1> SUFFICES ASSUME Init PROVE TypeInv
  OBVIOUS
<1> USE DEF Init
<1>2. lower \in [Pages -> [Offs -> Cell]]
  BY CellType DEF EmptyFile, Plain
<1>3. data \in [Pages -> [Offs -> Plain]]
  BY CellType DEF PlainPage
<1>6. "idle" \in PCs /\ "idle" \notin ReadPcs \cup {"rd_find"}
  BY DEF PCs, ReadPcs
<1> QED
  BY <1>2, <1>3, <1>6, ConstType, MmapAssumption
  DEF TypeInv, TypeOK, ReaderHasFile

\* One step keeps the types, one case per action.
LEMMA TypeInvNext == TypeInv /\ [Next]_vars => TypeInv'
<1> SUFFICES ASSUME TypeInv, [Next]_vars PROVE TypeInv'
  OBVIOUS
<1> USE ConstType DEF TypeInv, TypeOK, ReaderHasFile
<1>1. CASE SetKey \/ ClearKey
  BY <1>1 DEF SetKey, ClearKey, StoreKey, lowerVars, cacheVars, localVars
<1>2. ASSUME NEW t \in Tasks, ReadStart(t) PROVE TypeInv'
  <2>1. PICK f \in Opens[t], p \in Pages :
          req' = [req EXCEPT ![t] = NewRequest(f, p, 0, 0, Zero, 0)]
    BY Zenon, <1>2 DEF ReadStart
  <2>2. f \in Files
    BY MmapAssumption
  <2>3. /\ NewRequest(f, p, 0, 0, Zero, 0) \in Request
        /\ NewRequest(f, p, 0, 0, Zero, 0).f = f
    BY <2>2 DEF NewRequest, Request, Plain
  <2>4. req' \in [Tasks -> Request]
    BY <2>1, <2>3
  <2>5. ReaderHasFile'
    BY Zenon, <1>2, <2>1, <2>2, <2>3 DEF ReadStart, Call, Goto
  <2>6. opsLeft' \in Nat /\ faultsLeft' \in Nat /\ keysLeft' \in Nat
    BY <1>2 DEF ReadStart, Call
  <2> QED
    BY Zenon, <1>2, <2>4, <2>5, <2>6
    DEF ReadStart, Call, Goto, PCs, lowerVars, cacheVars, localVars
<1>3. ASSUME NEW t \in Tasks, ReadHit(t) PROVE TypeInv'
  BY Zenon, <1>3 DEF ReadHit, Return, PCs, ReadPcs, lowerVars, cacheVars, boundVars
<1>4. ASSUME NEW t \in Tasks, ReadMiss(t) PROVE TypeInv'
  BY <1>4 DEF ReadMiss, Goto, Lock, PCs, ReadPcs, Request, lowerVars,
              localVars, boundVars
<1>5. ASSUME NEW t \in Tasks, ReadpageNoKey(t) PROVE TypeInv'
  BY Zenon, <1>5 DEF ReadpageNoKey, Return, PCs, ReadPcs, lowerVars, cacheVars,
              boundVars
<1>6. ASSUME NEW t \in Tasks, ReadpageKey(t) PROVE TypeInv'
  BY Zenon, <1>6 DEF ReadpageKey, Goto, PCs, ReadPcs, lowerVars, cacheVars, boundVars
<1>7. ASSUME NEW t \in Tasks, ReadpageNoPage(t) PROVE TypeInv'
  <2>1. faultsLeft' \in Nat /\ opsLeft' \in Nat /\ keysLeft' \in Nat
    BY <1>7 DEF ReadpageNoPage, Fails
  <2> QED
    BY Zenon, <1>7, <2>1 DEF ReadpageNoPage, Unlock, Return, PCs, ReadPcs, lowerVars
<1>8. ASSUME NEW t \in Tasks, ReadpageSeek(t) PROVE TypeInv'
  <2>1. Pos(req[t].p, 0) \in 0 .. MaxSize
    BY PosInFile DEF Request
  <2> QED
    BY Zenon, <1>8, <2>1 DEF ReadpageSeek, Goto, PCs, ReadPcs, lowerVars, cacheVars,
                      localVars, boundVars
<1>9. ASSUME NEW t \in Tasks, ReadpageRead(t) PROVE TypeInv'
  <2> DEFINE at == fpos[req[t].f]
  <2>1. at \in 0 .. MaxSize
    BY <1>9 DEF ReadpageRead, Goto, ReadPcs
  <2>2. /\ ReadCells(lower, lsize, at) \in [Offs -> Cell]
        /\ at + ReadCount(lsize, at) \in 0 .. MaxSize
    BY Zenon, <2>1, ReadType DEF CellPage
  <2>3. UnwrittenCells \in [Offs -> Cell]
    BY CellType DEF CellPage
  <2>4. buf' \in [Tasks -> Buffer]
    <3>1. [cells |-> ReadCells(lower, lsize, at),
           next |-> at + ReadCount(lsize, at)] \in Buffer
      BY <2>2 DEF Buffer
    <3>2. [cells |-> UnwrittenCells, next |-> at] \in Buffer
      BY <2>1, <2>3 DEF Buffer
    <3> QED
      BY Zenon, <1>9, <3>1, <3>2 DEF ReadpageRead
  <2>5. faultsLeft' \in Nat /\ opsLeft' \in Nat /\ keysLeft' \in Nat
    <3>1. NoFailure \/ Fails("lower_read")
      BY Zenon, <1>9 DEF ReadpageRead
    <3> QED
      BY <3>1 DEF NoFailure, Fails, boundVars
  <2> QED
    BY Zenon, <1>9, <2>4, <2>5
    DEF ReadpageRead, Goto, PCs, ReadPcs, lowerVars, cacheVars
<1>10. ASSUME NEW t \in Tasks, ReadpageDone(t) PROVE TypeInv'
  <2>1. DecryptPage(encKey[t], buf[t].cells) \in [Offs -> Plain]
    BY Zenon, CellType DEF Buffer, CellPage, PlainPage, KeyOrNull
  <2>2. data' \in [Pages -> [Offs -> Plain]]
    BY <1>10, <2>1 DEF ReadpageDone
  <2>3. faultsLeft' \in Nat /\ opsLeft' \in Nat /\ keysLeft' \in Nat
    BY <1>10 DEF ReadpageDone, NoFailure, Fails, boundVars
  <2>4. fpos' \in [Files -> 0 .. MaxSize]
    BY Zenon, <1>10 DEF ReadpageDone, Buffer
  <2>5. uptodate' \subseteq Pages
    BY <1>10 DEF ReadpageDone, Request
  <2> QED
    BY Zenon, <1>10, <2>2, <2>3, <2>4, <2>5
    DEF ReadpageDone, Unlock, Return, PCs, ReadPcs, lowerVars
<1>11. ASSUME NEW t \in Tasks, WriteStart(t) PROVE TypeInv'
  <2>1. PICK f \in Opens[t] :
          req' = [req EXCEPT ![t] = NewRequest(f, 0, 0, 0, Zero, 0)]
    BY Zenon, <1>11 DEF WriteStart
  <2>2. f \in Files
    BY Zenon, MmapAssumption
  <2>3. NewRequest(f, 0, 0, 0, Zero, 0) \in Request
    BY <2>2, RequestType, CipherAssumption, NumPagesAssumption
    DEF Plain, Pages
  <2>6. req' \in [Tasks -> Request]
    BY <2>1, <2>3
  <2>4. ReaderHasFile'
    BY Zenon, <1>11, <2>1 DEF WriteStart, Call, Goto, ReadPcs
  <2>5. opsLeft' \in Nat /\ faultsLeft' \in Nat /\ keysLeft' \in Nat
    BY <1>11 DEF WriteStart, Call
  <2> QED
    BY <1>11, <2>4, <2>5, <2>6
    DEF WriteStart, Call, Goto, PCs, lowerVars, cacheVars, localVars
<1>12. ASSUME NEW t \in Tasks, WriteLock(t) PROVE TypeInv'
  <2>1. PICK s \in WriteShapes, p \in Pages, v \in Data :
          req' = [req EXCEPT ![t] = NewRequest(req[t].f, p, s[1], s[2], v, 0)]
    BY Zenon, <1>12 DEF WriteLock
  <2>2. /\ s[1] \in 0 .. PageSize /\ s[2] \in 0 .. PageSize
        /\ s[1] + s[2] <= PageSize
    BY MmapAssumption DEF Offs
  <2>3. req[t].f \in Files \cup {NULL} /\ v \in Plain
    BY DEF Request, Plain
  <2>6. NewRequest(req[t].f, p, s[1], s[2], v, 0) \in Request
    BY <2>2, <2>3, RequestType, CipherAssumption
  <2>4. req' \in [Tasks -> Request]
    BY Zenon, <2>1, <2>6
  <2>5. ReaderHasFile'
    BY Zenon, <1>12, <2>1 DEF WriteLock, Goto, ReadPcs
  <2> QED
    BY Zenon, <1>12, <2>4, <2>5 DEF WriteLock, Goto, PCs, MutexPcs, lowerVars,
                             cacheVars, localVars, boundVars
<1>13. ASSUME NEW t \in Tasks, WriteTooBig(t) PROVE TypeInv'
  BY Zenon, <1>13 DEF WriteTooBig, Return, PCs, ReadPcs, lowerVars, cacheVars,
               boundVars
<1>14. ASSUME NEW t \in Tasks, WriteBeginNoKey(t) PROVE TypeInv'
  BY Zenon, <1>14 DEF WriteBeginNoKey, WriteReturn, Return, PCs, ReadPcs, lowerVars,
               cacheVars, boundVars
<1>15. ASSUME NEW t \in Tasks, WriteBeginKey(t) PROVE TypeInv'
  BY Zenon, <1>15 DEF WriteBeginKey, Goto, PCs, ReadPcs, MutexPcs, lowerVars,
               cacheVars, localVars, boundVars
<1>16. ASSUME NEW t \in Tasks, WriteBeginNoPage(t) PROVE TypeInv'
  <2>1. opsLeft' \in Nat /\ faultsLeft' \in Nat /\ keysLeft' \in Nat
    BY <1>16 DEF WriteBeginNoPage, Fails
  <2> QED
    BY Zenon, <1>16, <2>1 DEF WriteBeginNoPage, WriteReturn, Return, PCs, ReadPcs,
                       lowerVars, cacheVars
<1>17. ASSUME NEW t \in Tasks, WriteBeginPage(t) PROVE TypeInv'
  <2>1. req[t].p \in Pages
    BY Zenon DEF Request
  <2>2. ASSUME NEW page \in [Offs -> Plain]
        PROVE  ZeroAround(page, req[t].from, req[t].len) \in [Offs -> Plain]
    BY Zenon DEF ZeroAround, Plain
  <2>3. data' \in [Pages -> [Offs -> Plain]]
    BY Zenon, <1>17, <2>1, <2>2 DEF WriteBeginPage
  <2> QED
    BY Zenon, <1>17, <2>1, <2>3
    DEF WriteBeginPage, Goto, Lock, PCs, ReadPcs, WritePcs, MutexPcs,
        lowerVars, localVars, boundVars
<1>18. ASSUME NEW t \in Tasks, CopyFromUser(t) PROVE TypeInv'
  <2>1. PICK n \in 0 .. req[t].len :
          /\ data' = [data EXCEPT ![req[t].p] =
                        [o \in Offs |->
                           IF req[t].from <= o /\ o < req[t].from + n
                           THEN req[t].v ELSE @[o]]]
          /\ req' = [req EXCEPT ![t] =
                       NewRequest(req[t].f, req[t].p, req[t].from,
                                  req[t].len, req[t].v, n)]
    BY Zenon, <1>18 DEF CopyFromUser
  <2>2. req' \in [Tasks -> Request] /\ \A u \in Tasks : req'[u].f = req[u].f
    <3>1. req[t] \in Request
      OBVIOUS
    <3>2. LET r == NewRequest(req[t].f, req[t].p, req[t].from, req[t].len,
                              req[t].v, n)
          IN  r \in Request /\ r.f = req[t].f
      <4> HIDE DEF TypeInv
      <4> QED
        BY <3>1 DEF Request, NewRequest
    <3> QED
      BY <2>1, <3>2
  <2>3. data' \in [Pages -> [Offs -> Plain]]
    BY Zenon, <2>1 DEF Request
  <2>4. opsLeft' \in Nat /\ faultsLeft' \in Nat /\ keysLeft' \in Nat
    BY <1>18 DEF CopyFromUser, NoFailure, Fails, boundVars
  <2> QED
    BY Zenon, <1>18, <2>2, <2>3, <2>4
    DEF CopyFromUser, Goto, PCs, ReadPcs, WritePcs, MutexPcs, lowerVars,
        localVars
<1>19. ASSUME NEW t \in Tasks, WriteEndKey(t) PROVE TypeInv'
  BY Zenon, <1>19 DEF WriteEndKey, Goto, PCs, ReadPcs, WritePcs, MutexPcs, lowerVars,
               cacheVars, boundVars
<1>20. ASSUME NEW t \in Tasks, WriteEndNoPage(t) PROVE TypeInv'
  <2>1. opsLeft' \in Nat /\ faultsLeft' \in Nat /\ keysLeft' \in Nat
    BY <1>20 DEF WriteEndNoPage, Fails
  <2> QED
    BY Zenon, <1>20, <2>1 DEF WriteEndNoPage, Unlock, Return, PCs, ReadPcs, lowerVars,
                       cacheVars
<1>21. ASSUME NEW t \in Tasks, WriteEndLower(t) PROVE TypeInv'
  <2>1. WriteSource(t) \in CellPage
    <3>1. data[req[t].p] \in PlainPage /\ encKey[t] \in KeyOrNull
      BY Zenon DEF Request, PlainPage, KeyOrNull
    <3>2. EncryptPage(encKey[t], data[req[t].p]) \in CellPage
      BY Zenon, <3>1, CellType
    <3>3. ASSUME NEW o \in Offs
          PROVE  (IF req[t].from + o < PageSize
                  THEN data[req[t].p][req[t].from + o] ELSE Junk) \in Plain
      BY <3>1 DEF Request, Offs, Plain, PlainPage
    <3>4. [o \in Offs |-> Raw(IF req[t].from + o < PageSize
                              THEN data[req[t].p][req[t].from + o]
                              ELSE Junk)] \in CellPage
      BY Zenon, <3>3, CellType DEF CellPage
    <3> QED
      BY Zenon, <3>2, <3>4 DEF WriteSource
  <2>2. WriteOffset(t) \in 0 .. MaxSize
    BY PosInFile DEF WriteOffset, Request
  <2>3. PICK src \in CellPage, n \in 0 .. PageSize :
          /\ lower' = WriteCells(lower, src, n, WriteOffset(t))
          /\ lsize' = SizeAfter(lsize, n, WriteOffset(t))
          /\ isize' \in {isize, lsize'}
    <3>1. req[t].copied \in 0 .. PageSize
      BY Zenon DEF Request
    <3>2. UnwrittenCells \in CellPage
      BY CellType
    <3>3. CASE StoreLower(t, WriteSource(t), req[t].copied, TRUE)
      BY <2>1, <3>1, <3>3 DEF StoreLower
    <3>4. CASE StoreLower(t, UnwrittenCells, req[t].copied, TRUE)
      BY Zenon, <3>1, <3>2, <3>4 DEF StoreLower
    <3>5. ASSUME NEW n \in 0 .. req[t].copied, n < req[t].copied,
                 StoreLower(t, WriteSource(t), n, n > 0)
          PROVE  \E src \in CellPage, m \in 0 .. PageSize :
                   /\ lower' = WriteCells(lower, src, m, WriteOffset(t))
                   /\ lsize' = SizeAfter(lsize, m, WriteOffset(t))
                   /\ isize' \in {isize, lsize'}
      <4>1. n \in 0 .. PageSize
        BY <3>1
      <4> QED
        BY Zenon, <2>1, <3>5, <4>1 DEF StoreLower
    <3> QED
      BY Zenon, <1>21, <3>3, <3>4, <3>5 DEF WriteEndLower
  <2>4. /\ WriteCells(lower, src, n, WriteOffset(t)) \in [Pages -> CellPage]
        /\ SizeAfter(lsize, n, WriteOffset(t)) \in 0 .. MaxSize
    <3>1. lower \in [Pages -> CellPage]
      BY Zenon DEF CellPage
    <3> QED
      BY Zenon, <2>2, <3>1, WriteType
  <2>5. /\ lower' \in [Pages -> [Offs -> Cell]]
        /\ lsize' \in 0 .. MaxSize /\ isize' \in 0 .. MaxSize
    BY <2>3, <2>4 DEF CellPage
  <2>6. opsLeft' \in Nat /\ faultsLeft' \in Nat /\ keysLeft' \in Nat
    <3>1. NoFailure \/ Fails("cipher") \/ Fails("lower_write")
      BY Zenon, <1>21 DEF WriteEndLower
    <3> QED
      BY <3>1 DEF NoFailure, Fails, boundVars
  <2> QED
    BY <1>21, <2>5, <2>6
    DEF WriteEndLower, Goto, PCs, ReadPcs, WritePcs, MutexPcs, cacheVars,
        localVars
<1>22. ASSUME NEW t \in Tasks, WriteEndTail(t) PROVE TypeInv'
  <2>1. req[t].p \in Pages
    BY DEF Request
  <2>2. FillZeros(data[req[t].p], req[t].p, req[t].from + req[t].copied)
          \in [Offs -> Plain]
    BY <2>1 DEF FillZeros, Plain
  <2>3. data' \in [Pages -> [Offs -> Plain]]
    BY Zenon, <1>22, <2>2 DEF WriteEndTail
  <2> QED
    BY Zenon, <1>22, <2>1, <2>3
    DEF WriteEndTail, Unlock, Goto, PCs, ReadPcs, MutexPcs, lowerVars,
        localVars, boundVars
<1>23. ASSUME NEW t \in Tasks, WriteEndSize(t) PROVE TypeInv'
  <2>1. /\ req[t].p \in Pages /\ req[t].f \in Files \cup {NULL}
        /\ req[t].v \in Plain
        /\ req[t].from + req[t].copied \in 0 .. PageSize
        /\ req[t].len - req[t].copied \in 0 .. PageSize
        /\ (req[t].from + req[t].copied) + (req[t].len - req[t].copied)
             <= PageSize
    BY DEF Request
  <2>2. isize' \in 0 .. MaxSize
    BY Zenon, <1>23, <2>1, PosInFile DEF WriteEndSize, GrownSize
  <2>3. NewRequest(req[t].f, req[t].p, req[t].from + req[t].copied,
                   req[t].len - req[t].copied, req[t].v, 0) \in Request
    <3> HIDE DEF TypeInv
    <3>1. 0 \in 0 .. PageSize /\ 0 <= req[t].len - req[t].copied
          /\ req[t].from + req[t].copied \in 0 .. PageSize
      BY <2>1, CipherAssumption
    <3> QED
      BY Zenon, <2>1, <3>1, RequestType
  <2>4. /\ req' \in [Tasks -> Request] /\ pc' \in [Tasks -> PCs]
        /\ imutex' \in Tasks \cup {NoTask}
        /\ encKey' \in [Tasks -> Keys \cup {NULL}]
        /\ buf' \in [Tasks -> Buffer] /\ todo' \in [Tasks -> SUBSET Pages]
    <3>1. CASE WriteReturn(t)
      BY Zenon, <3>1 DEF WriteReturn, Return, PCs
    <3>2. CASE ~ WriteReturn(t)
      <4>1. /\ pc' = [pc EXCEPT ![t] = "wr_begin"]
            /\ req' = [req EXCEPT ![t] =
                 NewRequest(req[t].f, req[t].p, req[t].from + req[t].copied,
                            req[t].len - req[t].copied, req[t].v, 0)]
            /\ encKey' = [encKey EXCEPT ![t] = NULL]
            /\ UNCHANGED <<imutex, buf, todo>>
        BY Zenon, <1>23, <3>2 DEF WriteEndSize
      <4>2. req' \in [Tasks -> Request]
        BY Zenon, <2>3, <4>1
      <4> QED
        BY Zenon, <4>1, <4>2 DEF PCs, MutexPcs
    <3> QED
      BY Zenon, <3>1, <3>2
  <2>5. ReaderHasFile'
    BY <1>23 DEF WriteEndSize, WriteReturn, Return, ReadPcs
  <2> QED
    BY <1>23, <2>2, <2>4, <2>5
    DEF WriteEndSize, lowerVars, cacheVars, boundVars
<1>24. ASSUME NEW t \in Tasks, TruncStart(t) PROVE TypeInv'
  <2>1. opsLeft' \in Nat /\ faultsLeft' \in Nat /\ keysLeft' \in Nat
    BY <1>24 DEF TruncStart, Call
  <2> QED
    BY Zenon, <1>24, <2>1 DEF TruncStart, Call, Goto, PCs, ReadPcs, lowerVars,
                       cacheVars, localVars
<1>25. ASSUME NEW t \in Tasks, TruncUpper(t) PROVE TypeInv'
  <2>1. PICK n \in TruncSizes :
          /\ isize' = n
          /\ todo' = [todo EXCEPT ![t] = TruncPages(n)]
          /\ pc' = [pc EXCEPT ![t] =
                      IF TruncPages(n) = {} THEN "tr_lower" ELSE "tr_pages"]
    BY Zenon, <1>25 DEF TruncUpper
  <2>2. n \in 0 .. MaxSize /\ TruncPages(n) \subseteq Pages
    BY MmapAssumption DEF TruncPages
  <2>3. pc' \in [Tasks -> PCs] /\ todo' \in [Tasks -> SUBSET Pages]
    BY <2>1, <2>2 DEF PCs, MutexPcs
  <2>4. ReaderHasFile'
    BY Zenon, <1>25, <2>1 DEF TruncUpper, ReadPcs
  <2> QED
    BY Zenon, <1>25, <2>1, <2>2, <2>3, <2>4
    DEF TruncUpper, lowerVars, cacheVars, boundVars
<1>26. ASSUME NEW t \in Tasks, TruncPage(t) PROVE TypeInv'
  <2>1. /\ data' \in [Pages -> [Offs -> Plain]]
        /\ cached' \subseteq Pages /\ uptodate' \subseteq Pages
        /\ dirty' \subseteq Pages
    <3>1. PICK i \in todo[t] :
            IF Pos(i, 0) >= isize
            THEN Drop({i})
            ELSE /\ data' = IF i \notin cached THEN data
                            ELSE [data EXCEPT ![i] = [o \in Offs |->
                                    IF Pos(i, o) < isize THEN @[o] ELSE Zero]]
                 /\ UNCHANGED <<cached, uptodate, dirty>>
      BY Zenon, <1>26 DEF TruncPage
    <3>2. i \in Pages
      BY Zenon
    <3>3. CASE Pos(i, 0) >= isize
      <4>1. Drop({i})
        BY <3>1, <3>3
      <4>2. Uninitialised \in [Offs -> Plain]
        BY Zenon, CellType DEF PlainPage
      <4> QED
        BY <4>1, <4>2 DEF Drop
    <3>4. CASE ~ (Pos(i, 0) >= isize)
      <4>1. /\ \/ data' = data
               \/ data' = [data EXCEPT ![i] = [o \in Offs |->
                             IF Pos(i, o) < isize THEN @[o] ELSE Zero]]
            /\ UNCHANGED <<cached, uptodate, dirty>>
        BY Zenon, <3>1, <3>4
      <4>2. data' \in [Pages -> [Offs -> Plain]]
        <5> DEFINE cut == [o \in Offs |->
                             IF Pos(i, o) < isize THEN data[i][o] ELSE Zero]
        <5>1. data[i] \in [Offs -> Plain] /\ Zero \in Plain
          BY Zenon, <3>2 DEF Plain
        <5>2. cut \in [Offs -> Plain]
          BY <5>1
        <5>3. data' = data \/ data' = [data EXCEPT ![i] = cut]
          BY <4>1
        <5> HIDE DEF cut
        <5> QED
          BY Zenon, <3>2, <5>2, <5>3
      <4> QED
        BY Zenon, <4>1, <4>2
    <3> QED
      BY Zenon, <3>3, <3>4
  <2>2. PICK i \in todo[t] :
          /\ todo' = [todo EXCEPT ![t] = @ \ {i}]
          /\ pc' = [pc EXCEPT ![t] =
                      IF todo[t] = {i} THEN "tr_lower" ELSE "tr_pages"]
    BY Zenon, <1>26 DEF TruncPage
  <2>3. UNCHANGED <<key, lower, lsize, isize, plock, imutex, fpos, req, encKey,
                    buf, opsLeft, faultsLeft, keysLeft>>
    BY <1>26 DEF TruncPage, lowerVars, boundVars
  <2>4. pc' \in [Tasks -> PCs] /\ todo' \in [Tasks -> SUBSET Pages]
    BY <2>2 DEF PCs, MutexPcs
  <2>5. ReaderHasFile'
    BY Zenon, <2>2, <2>3 DEF ReadPcs
  <2>6. /\ key' \in Keys \cup {NULL} /\ lower' \in [Pages -> [Offs -> Cell]]
        /\ lsize' \in 0 .. MaxSize /\ isize' \in 0 .. MaxSize
        /\ plock' \in [Pages -> Tasks \cup {NoTask}]
        /\ imutex' \in Tasks \cup {NoTask} /\ fpos' \in [Files -> 0 .. MaxSize]
        /\ req' \in [Tasks -> Request] /\ encKey' \in [Tasks -> Keys \cup {NULL}]
        /\ buf' \in [Tasks -> Buffer]
        /\ opsLeft' \in Nat /\ faultsLeft' \in Nat /\ keysLeft' \in Nat
    BY Zenon, <2>3
  <2> QED
    BY Zenon, <2>1, <2>4, <2>5, <2>6
<1>27. ASSUME NEW t \in Tasks, TruncLower(t) PROVE TypeInv'
  <2>1. lower' \in [Pages -> [Offs -> Cell]] /\ lsize' \in 0 .. MaxSize
    BY <1>27, TruncateType DEF TruncLower, CellPage, lowerVars
  <2>2. opsLeft' \in Nat /\ faultsLeft' \in Nat /\ keysLeft' \in Nat
    BY <1>27 DEF TruncLower, NoFailure, Fails, boundVars
  <2> QED
    BY Zenon, <1>27, <2>1, <2>2
    DEF TruncLower, WriteReturn, Return, PCs, ReadPcs, cacheVars
<1>28. ASSUME NEW p \in Pages, Writeback(p) PROVE TypeInv'
  BY <1>28 DEF Writeback, lowerVars, localVars, boundVars
<1>29. ASSUME NEW p \in Pages, Reclaim(p) PROVE TypeInv'
  <2>1. /\ data' \in [Pages -> [Offs -> Plain]]
        /\ cached' \subseteq Pages /\ uptodate' \subseteq Pages
        /\ dirty' \subseteq Pages
    BY Zenon, <1>29, CellType DEF Reclaim, Drop, PlainPage
  <2> QED
    BY Zenon, <1>29, <2>1 DEF Reclaim, lowerVars, localVars, boundVars
<1>30. CASE Evict
  <2>1. /\ data' \in [Pages -> [Offs -> Plain]]
        /\ cached' \subseteq Pages /\ uptodate' \subseteq Pages
        /\ dirty' \subseteq Pages
    BY Zenon, <1>30, CellType DEF Evict, Drop, PlainPage
  <2>2. fpos' \in [Files -> 0 .. MaxSize] /\ isize' \in 0 .. MaxSize
    BY <1>30 DEF Evict
  <2> QED
    BY <1>30, <2>1, <2>2 DEF Evict, lowerVars, localVars, boundVars
<1>31. CASE UNCHANGED vars
  BY <1>31 DEF vars, lowerVars, cacheVars, localVars, boundVars
<1> QED
  BY Zenon, <1>1, <1>2, <1>3, <1>4, <1>5, <1>6, <1>7, <1>8, <1>9, <1>10, <1>11,
     <1>12, <1>13, <1>14, <1>15, <1>16, <1>17, <1>18, <1>19, <1>20, <1>21,
     <1>22, <1>23, <1>24, <1>25, <1>26, <1>27, <1>28, <1>29, <1>30, <1>31
  DEF Next, StartCall, Continue, ReadStep, WriteStep, TruncStep

\* The types of the data path hold for every instance.
THEOREM TypeCorrect == Spec => []TypeOK
<1>1. TypeInv => TypeOK
  BY Zenon DEF TypeInv
<1> QED
  BY <1>1, TypeInvInit, TypeInvNext, PTL DEF Spec

-----------------------------------------------------------------------------
(***************************************************************************)
(* Control and locks.                                                      *)
(***************************************************************************)
\* The types the arguments about control and locks need.
ControlType ==
  /\ pc \in [Tasks -> PCs]
  /\ req \in [Tasks -> Request]
  /\ \A t \in Tasks : req[t].p \in Pages
  /\ plock \in [Pages -> Tasks \cup {NoTask}]
  /\ encKey \in [Tasks -> Keys \cup {NULL}]

\* The type invariant of the data path gives them.
LEMMA TypeOKControl == TypeOK => ControlType
BY DEF TypeOK, ControlType, Request

-----------------------------------------------------------------------------
(***************************************************************************)
(* Mutual exclusion by page locks and the i_mutex.                         *)
(***************************************************************************)
\* One step of readpage, write_begin, write_end, setattr or the memory manager
\* keeps the holders of page locks and of the i_mutex.
LEMMA ExclusiveNext == TypeOK /\ Exclusive /\ [Next]_vars => Exclusive'
<1> SUFFICES ASSUME TypeOK, Exclusive, [Next]_vars PROVE Exclusive'
  OBVIOUS
<1> USE TypeOKControl, MmapAssumption
    DEF ControlType, Exclusive, ReadPcs, WritePcs, MutexPcs
<1>1. CASE \/ SetKey \/ ClearKey \/ UNCHANGED vars
           \/ \E p \in Pages : Writeback(p) \/ Reclaim(p)
  BY Zenon, <1>1 DEF SetKey, ClearKey, StoreKey, Writeback, Reclaim, vars
<1>2. ASSUME NEW t \in Tasks, ReadStart(t) PROVE Exclusive'
  BY Zenon, <1>2 DEF ReadStart, Call, Goto
<1>3. ASSUME NEW t \in Tasks, ReadHit(t) PROVE Exclusive'
  BY Zenon, <1>3 DEF ReadHit, Return
<1>4. ASSUME NEW t \in Tasks, ReadMiss(t) PROVE Exclusive'
  BY Zenon, <1>4 DEF ReadMiss, Goto, Lock
<1>5. ASSUME NEW t \in Tasks, ReadpageNoKey(t) PROVE Exclusive'
  BY Zenon, <1>5 DEF ReadpageNoKey, Return
<1>6. ASSUME NEW t \in Tasks, ReadpageKey(t) PROVE Exclusive'
  BY Zenon, <1>6 DEF ReadpageKey, Goto
<1>7. ASSUME NEW t \in Tasks, ReadpageNoPage(t) PROVE Exclusive'
  BY Zenon, <1>7 DEF ReadpageNoPage, Unlock, Return
<1>8. ASSUME NEW t \in Tasks, ReadpageSeek(t) PROVE Exclusive'
  BY <1>8 DEF ReadpageSeek, Goto
<1>9. ASSUME NEW t \in Tasks, ReadpageRead(t) PROVE Exclusive'
  BY Zenon, <1>9 DEF ReadpageRead, Goto
<1>10. ASSUME NEW t \in Tasks, ReadpageDone(t) PROVE Exclusive'
  BY Zenon, <1>10 DEF ReadpageDone, Unlock, Return
<1>11. ASSUME NEW t \in Tasks, WriteStart(t) PROVE Exclusive'
  BY Zenon, <1>11 DEF WriteStart, Call, Goto
<1>12. ASSUME NEW t \in Tasks, WriteLock(t) PROVE Exclusive'
  BY Zenon, <1>12 DEF WriteLock, Goto
<1>13. ASSUME NEW t \in Tasks, WriteTooBig(t) PROVE Exclusive'
  BY Zenon, <1>13 DEF WriteTooBig, Return
<1>14. ASSUME NEW t \in Tasks, WriteBeginNoKey(t) PROVE Exclusive'
  BY Zenon, <1>14 DEF WriteBeginNoKey, WriteReturn, Return
<1>15. ASSUME NEW t \in Tasks, WriteBeginKey(t) PROVE Exclusive'
  BY Zenon, <1>15 DEF WriteBeginKey, Goto
<1>16. ASSUME NEW t \in Tasks, WriteBeginNoPage(t) PROVE Exclusive'
  BY Zenon, <1>16 DEF WriteBeginNoPage, WriteReturn, Return
<1>17. ASSUME NEW t \in Tasks, WriteBeginPage(t) PROVE Exclusive'
  BY Zenon, <1>17 DEF WriteBeginPage, Goto, Lock
<1>18. ASSUME NEW t \in Tasks, CopyFromUser(t) PROVE Exclusive'
  BY <1>18 DEF CopyFromUser, Goto, NewRequest
<1>19. ASSUME NEW t \in Tasks, WriteEndKey(t) PROVE Exclusive'
  BY Zenon, <1>19 DEF WriteEndKey, Goto
<1>20. ASSUME NEW t \in Tasks, WriteEndNoPage(t) PROVE Exclusive'
  BY Zenon, <1>20 DEF WriteEndNoPage, Unlock, Return
<1>21. ASSUME NEW t \in Tasks, WriteEndLower(t) PROVE Exclusive'
  BY Zenon, <1>21 DEF WriteEndLower, Goto
<1>22. ASSUME NEW t \in Tasks, WriteEndTail(t) PROVE Exclusive'
  BY <1>22 DEF WriteEndTail, Goto, Unlock
<1>23. ASSUME NEW t \in Tasks, WriteEndSize(t) PROVE Exclusive'
  <2>1. CASE WriteReturn(t)
    BY Zenon, <1>23, <2>1 DEF WriteEndSize, WriteReturn, Return
  <2>2. CASE ~ WriteReturn(t)
    <3>1. /\ pc' = [pc EXCEPT ![t] = "wr_begin"] /\ UNCHANGED <<imutex, plock>>
          /\ \A u \in Tasks \ {t} : req'[u] = req[u]
      BY Zenon, <1>23, <2>2 DEF WriteEndSize
    <3> QED
      BY Zenon, <1>23, <3>1 DEF WriteEndSize
  <2> QED
    BY Zenon, <2>1, <2>2
<1>24. ASSUME NEW t \in Tasks, TruncStart(t) PROVE Exclusive'
  BY Zenon, <1>24 DEF TruncStart, Call, Goto
<1>25. ASSUME NEW t \in Tasks, TruncUpper(t) PROVE Exclusive'
  BY Zenon, <1>25 DEF TruncUpper
<1>26. ASSUME NEW t \in Tasks, TruncPage(t) PROVE Exclusive'
  BY Zenon, <1>26 DEF TruncPage
<1>27. ASSUME NEW t \in Tasks, TruncLower(t) PROVE Exclusive'
  BY Zenon, <1>27 DEF TruncLower, WriteReturn, Return
<1>28. CASE Evict
  BY <1>28 DEF Evict
<1> QED
  BY Zenon, <1>1, <1>2, <1>3, <1>4, <1>5, <1>6, <1>7, <1>8, <1>9, <1>10, <1>11,
     <1>12, <1>13, <1>14, <1>15, <1>16, <1>17, <1>18, <1>19, <1>20,
     <1>21, <1>22, <1>23, <1>24, <1>25, <1>26, <1>27, <1>28
  DEF Next, StartCall, Continue, ReadStep, WriteStep, TruncStep

\* No page is filled, encrypted or zeroed by two tasks at a time.
THEOREM ExclusiveAccess == Spec => []Exclusive
<1>1. Init => Exclusive
  BY DEF Init, Exclusive, ReadPcs, WritePcs, MutexPcs
<1>2. TypeOK /\ Exclusive /\ [Next]_vars => Exclusive'
  BY Zenon, ExclusiveNext
<1> QED
  BY <1>1, <1>2, TypeCorrect, PTL DEF Spec

-----------------------------------------------------------------------------
(***************************************************************************)
(* What the lower file holds.                                              *)
(***************************************************************************)

\* Only write_end's vfs_write and setattr's notify_change touch the contents
\* of the lower file.
LEMMA LowerStep ==
  ASSUME [Next]_vars
  PROVE  \/ UNCHANGED lowerVars
         \/ \E t \in Tasks : WriteEndLower(t) \/ TruncLower(t)
<1>1. CASE SetKey \/ ClearKey \/ Evict \/ UNCHANGED vars
  BY <1>1 DEF SetKey, ClearKey, StoreKey, Evict, vars
<1>2. CASE \E p \in Pages : Writeback(p) \/ Reclaim(p)
  BY Zenon, <1>2 DEF Writeback, Reclaim
<1>3. ASSUME NEW t \in Tasks, StartCall(t) \/ ReadStep(t)
      PROVE  UNCHANGED lowerVars
  BY Zenon, <1>3 DEF StartCall, ReadStart, WriteStart, TruncStart, ReadStep, ReadHit,
              ReadMiss, ReadpageNoKey, ReadpageKey, ReadpageNoPage,
              ReadpageSeek, ReadpageRead, ReadpageDone
<1>4. ASSUME NEW t \in Tasks, WriteStep(t), ~ WriteEndLower(t)
      PROVE  UNCHANGED lowerVars
  BY Zenon, <1>4 DEF WriteStep, WriteLock, WriteTooBig, WriteBeginNoKey,
              WriteBeginKey, WriteBeginNoPage, WriteBeginPage, CopyFromUser,
              WriteEndKey, WriteEndNoPage, WriteEndTail, WriteEndSize
<1>5. ASSUME NEW t \in Tasks, TruncStep(t), ~ TruncLower(t)
      PROVE  UNCHANGED lowerVars
  BY <1>5 DEF TruncStep, TruncUpper, TruncPage
<1> QED
  BY Zenon, <1>1, <1>2, <1>3, <1>4, <1>5 DEF Next, Continue

StoredBy(t, src, n) ==
  /\ lower' = WriteCells(lower, src, n, WriteOffset(t))
  /\ lsize' = SizeAfter(lsize, n, WriteOffset(t))
  /\ isize' = lsize' \/ (n = 0 /\ isize' = isize)

\* What write_end stores: the chunk, the encrypted page or an unwritten page.
LEMMA StoredCells ==
  ASSUME TypeOK, NEW t \in Tasks, WriteEndLower(t)
  PROVE  \E src \in {WriteSource(t), UnwrittenCells}, n \in 0 .. PageSize :
           StoredBy(t, src, n)
<1>1. req[t].copied \in 0 .. PageSize /\ PageSize \in Nat
  BY Zenon, ConstType DEF TypeOK, Request
<1>2. CASE StoreLower(t, WriteSource(t), req[t].copied, TRUE)
  <2>1. StoredBy(t, WriteSource(t), req[t].copied)
    BY Zenon, <1>2 DEF StoreLower, StoredBy
  <2> QED
    BY <1>1, <2>1
<1>3. CASE StoreLower(t, UnwrittenCells, req[t].copied, TRUE)
  <2>1. StoredBy(t, UnwrittenCells, req[t].copied)
    BY Zenon, <1>3 DEF StoreLower, StoredBy
  <2> QED
    BY <1>1, <2>1
<1>4. ASSUME NEW n \in 0 .. req[t].copied,
             StoreLower(t, WriteSource(t), n, n > 0)
      PROVE  \E src \in {WriteSource(t), UnwrittenCells}, m \in 0 .. PageSize :
               StoredBy(t, src, m)
  <2>1. n \in 0 .. PageSize
    BY <1>1
  <2>2. StoredBy(t, WriteSource(t), n)
    BY <1>4, <2>1 DEF StoreLower, StoredBy
  <2> QED
    BY Zenon, <2>1, <2>2
<1> QED
  BY Zenon, <1>2, <1>3, <1>4 DEF WriteEndLower

\* Whatever is written in whole prefixes at a page's start, truncated, and
\* whatever fails: encrypted cells stay at the offset of their keystream.
LEMMA KeystreamNext ==
  ASSUME AppendFiles = {}, TypeOK, KeystreamAligned, [Next]_vars
  PROVE  KeystreamAligned'
<1>1. CASE UNCHANGED lowerVars
  BY Zenon, <1>1 DEF KeystreamAligned, lowerVars
<1>2. ASSUME NEW t \in Tasks, WriteEndLower(t) PROVE KeystreamAligned'
  <2>1. PICK src \in {WriteSource(t), UnwrittenCells}, n \in 0 .. PageSize :
          lower' = WriteCells(lower, src, n, WriteOffset(t))
    BY Zenon, <1>2, StoredCells DEF StoredBy
  <2>2. WriteOffset(t) = Pos(req[t].p, 0) /\ req[t].p \in Pages
    BY Zenon DEF WriteOffset, TypeOK, Request
  <2>3. \A o \in Offs : src[o].k # NULL => src[o].o = o
    <3>1. \A o \in Offs : UnwrittenCells[o].k = NULL
      BY Zenon DEF UnwrittenCells, Raw
    <3>2. CASE encKey[t] = NULL
      BY <3>1, <3>2 DEF WriteSource, Raw
    <3>3. CASE encKey[t] # NULL
      BY <3>1, <3>3 DEF WriteSource, EncryptPage, EncryptCell
    <3> QED
      BY Zenon, <3>2, <3>3
  <2>4. ASSUME NEW q \in Pages, NEW o \in Offs, lower'[q][o].k # NULL
        PROVE  lower'[q][o].o = o
    <3>1. CASE /\ WriteOffset(t) <= Pos(q, o)
               /\ Pos(q, o) < WriteOffset(t) + n
      <4>1. lower'[q][o] = src[Pos(q, o) - WriteOffset(t)]
        BY Zenon, <2>1, <3>1 DEF WriteCells
      <4>2. /\ Pos(q, o) \in Int /\ Pos(req[t].p, 0) \in Int
            /\ PageSize \in Nat
        BY <2>2, PosInFile, ConstType DEF Offs
      <4>3. Pos(q, o) - WriteOffset(t) = o
        BY <2>2, <3>1, <4>2, SamePage
      <4> QED
        BY <2>3, <2>4, <4>1, <4>3
    <3>2. CASE ~ (/\ WriteOffset(t) <= Pos(q, o)
                  /\ Pos(q, o) < WriteOffset(t) + n)
      <4>1. lower'[q][o] = lower[q][o]
        BY Zenon, <2>1, <3>2 DEF WriteCells
      <4> QED
        BY Zenon, <2>4, <4>1 DEF KeystreamAligned
    <3> QED
      BY Zenon, <3>1, <3>2
  <2> QED
    BY Zenon, <2>4 DEF KeystreamAligned
<1>3. ASSUME NEW t \in Tasks, TruncLower(t) PROVE KeystreamAligned'
  <2>1. CASE lower' = lower
    BY Zenon, <2>1 DEF KeystreamAligned
  <2>2. CASE lower' = TruncateCells(lower, isize)
    BY <2>2 DEF KeystreamAligned, TruncateCells, Raw
  <2> QED
    BY Zenon, <1>3, <2>1, <2>2 DEF TruncLower, lowerVars
<1> QED
  BY Zenon, <1>1, <1>2, <1>3, LowerStep

\* Without O_APPEND every encrypted cell of the lower file can be decrypted
\* with the key it was written under.
THEOREM KeystreamSafe ==
  ASSUME AppendFiles = {}
  PROVE  Spec => []KeystreamAligned
<1>1. Init => KeystreamAligned
  BY DEF Init, KeystreamAligned, EmptyFile, Raw
<1>2. TypeOK /\ KeystreamAligned /\ [Next]_vars => KeystreamAligned'
  BY KeystreamNext
<1> QED
  BY <1>1, <1>2, TypeCorrect, PTL DEF Spec

-----------------------------------------------------------------------------
(***************************************************************************)
(* No user data in clear.                                                  *)
(***************************************************************************)

\* Between the test in write_begin and the vfs_write of write_end there is a
\* key: it cannot be cleared, and write_end reads it once more.
WriterHasKey ==
  \A t \in Tasks :
    /\ pc[t] \in {"wr_page", "wr_copy", "we_key"} => key # NULL
    /\ pc[t] = "we_write" => encKey[t] # NULL

\* write_begin has seen a key and nobody clears it, so write_end finds one.
LEMMA WriterHasKeyNext ==
  ASSUME "clear" \notin Allow, TypeOK, WriterHasKey, [Next]_vars
  PROVE  WriterHasKey'
<1> USE TypeOKControl DEF ControlType, WriterHasKey
<1>1. CASE SetKey \/ ClearKey
  BY Zenon, <1>1, CipherAssumption DEF SetKey, ClearKey, StoreKey, localVars
<1>2. CASE Evict \/ UNCHANGED vars \/ \E p \in Pages : Writeback(p) \/ Reclaim(p)
  BY Zenon, <1>2 DEF Evict, Writeback, Reclaim, vars, localVars
<1>3. ASSUME NEW t \in Tasks, ReadStart(t) PROVE WriterHasKey'
  BY Zenon, <1>3 DEF ReadStart, Call, Goto, localVars
<1>4. ASSUME NEW t \in Tasks, WriteStart(t) PROVE WriterHasKey'
  BY Zenon, <1>4 DEF WriteStart, Call, Goto, localVars
<1>5. ASSUME NEW t \in Tasks, TruncStart(t) PROVE WriterHasKey'
  BY Zenon, <1>5 DEF TruncStart, Call, Goto, localVars
<1>6. ASSUME NEW t \in Tasks, ReadHit(t) PROVE WriterHasKey'
  BY Zenon, <1>6 DEF ReadHit, Return, localVars
<1>7. ASSUME NEW t \in Tasks, ReadMiss(t) PROVE WriterHasKey'
  BY Zenon, <1>7 DEF ReadMiss, Goto, localVars
<1>8. ASSUME NEW t \in Tasks, ReadpageNoKey(t) PROVE WriterHasKey'
  BY Zenon, <1>8 DEF ReadpageNoKey, Return, localVars
<1>9. ASSUME NEW t \in Tasks, ReadpageKey(t) PROVE WriterHasKey'
  BY Zenon, <1>9 DEF ReadpageKey, Goto, localVars
<1>10. ASSUME NEW t \in Tasks, ReadpageNoPage(t) PROVE WriterHasKey'
  BY Zenon, <1>10 DEF ReadpageNoPage, Return, localVars
<1>11. ASSUME NEW t \in Tasks, ReadpageSeek(t) PROVE WriterHasKey'
  BY <1>11 DEF ReadpageSeek, Goto, localVars
<1>12. ASSUME NEW t \in Tasks, ReadpageRead(t) PROVE WriterHasKey'
  BY Zenon, <1>12 DEF ReadpageRead, Goto, localVars
<1>13. ASSUME NEW t \in Tasks, ReadpageDone(t) PROVE WriterHasKey'
  BY Zenon, <1>13 DEF ReadpageDone, Return, localVars
<1>14. ASSUME NEW t \in Tasks, WriteLock(t) PROVE WriterHasKey'
  BY Zenon, <1>14 DEF WriteLock, Goto, localVars
<1>15. ASSUME NEW t \in Tasks, WriteTooBig(t) PROVE WriterHasKey'
  BY Zenon, <1>15 DEF WriteTooBig, Return, localVars
<1>16. ASSUME NEW t \in Tasks, WriteBeginNoKey(t) PROVE WriterHasKey'
  BY Zenon, <1>16 DEF WriteBeginNoKey, WriteReturn, Return, localVars
<1>17. ASSUME NEW t \in Tasks, WriteBeginKey(t) PROVE WriterHasKey'
  BY Zenon, <1>17 DEF WriteBeginKey, Goto, localVars
<1>18. ASSUME NEW t \in Tasks, WriteBeginNoPage(t) PROVE WriterHasKey'
  BY Zenon, <1>18 DEF WriteBeginNoPage, WriteReturn, Return, localVars
<1>19. ASSUME NEW t \in Tasks, WriteBeginPage(t) PROVE WriterHasKey'
  BY Zenon, <1>19 DEF WriteBeginPage, Goto, localVars
<1>20. ASSUME NEW t \in Tasks, CopyFromUser(t) PROVE WriterHasKey'
  BY Zenon, <1>20 DEF CopyFromUser, Goto, localVars
<1>21. ASSUME NEW t \in Tasks, WriteEndKey(t) PROVE WriterHasKey'
  BY Zenon, <1>21 DEF WriteEndKey, Goto, localVars
<1>22. ASSUME NEW t \in Tasks, WriteEndNoPage(t) PROVE WriterHasKey'
  BY Zenon, <1>22 DEF WriteEndNoPage, Return, localVars
<1>23. ASSUME NEW t \in Tasks, WriteEndLower(t) PROVE WriterHasKey'
  BY Zenon, <1>23 DEF WriteEndLower, Goto, localVars
<1>24. ASSUME NEW t \in Tasks, WriteEndTail(t) PROVE WriterHasKey'
  BY <1>24 DEF WriteEndTail, Goto, localVars
<1>25. ASSUME NEW t \in Tasks, WriteEndSize(t) PROVE WriterHasKey'
  <2>1. CASE WriteReturn(t)
    BY Zenon, <1>25, <2>1 DEF WriteEndSize, WriteReturn, Return
  <2>2. CASE ~ WriteReturn(t)
    BY Zenon, <1>25, <2>2 DEF WriteEndSize
  <2> QED
    BY Zenon, <2>1, <2>2
<1>26. ASSUME NEW t \in Tasks, TruncUpper(t) PROVE WriterHasKey'
  BY Zenon, <1>26 DEF TruncUpper, localVars
<1>27. ASSUME NEW t \in Tasks, TruncPage(t) PROVE WriterHasKey'
  BY Zenon, <1>27 DEF TruncPage, localVars
<1>28. ASSUME NEW t \in Tasks, TruncLower(t) PROVE WriterHasKey'
  BY Zenon, <1>28 DEF TruncLower, WriteReturn, Return, localVars
<1> QED
  BY Zenon, <1>1, <1>2, <1>3, <1>4, <1>5, <1>6, <1>7, <1>8, <1>9, <1>10, <1>11,
     <1>12, <1>13, <1>14, <1>15, <1>16, <1>17, <1>18, <1>19, <1>20, <1>21,
     <1>22, <1>23, <1>24, <1>25, <1>26, <1>27, <1>28
  DEF Next, StartCall, Continue, ReadStep, WriteStep, TruncStep

\* One step keeps unencrypted user data out of the lower file.
LEMMA NoClearTextNext ==
  ASSUME TypeOK, WriterHasKey, NoClearText, [Next]_vars
  PROVE  NoClearText'
<1>1. CASE UNCHANGED lowerVars
  BY <1>1 DEF NoClearText, lowerVars
<1>2. ASSUME NEW t \in Tasks, WriteEndLower(t) PROVE NoClearText'
  <2>1. PICK src \in {WriteSource(t), UnwrittenCells}, n \in 0 .. PageSize :
          lower' = WriteCells(lower, src, n, WriteOffset(t))
    BY <1>2, StoredCells DEF StoredBy
  <2>2. encKey[t] # NULL
    BY Zenon, <1>2 DEF WriteEndLower, Goto, WriterHasKey
  <2>3. \A o \in Offs : src[o].k = NULL => src[o].v \notin Data
    <3>1. CASE src = WriteSource(t)
      BY Zenon, <2>2, <3>1 DEF WriteSource, EncryptPage, EncryptCell
    <3>2. CASE src = UnwrittenCells
      BY Zenon, <3>2, CipherAssumption DEF UnwrittenCells, Raw
    <3> QED
      BY <3>1, <3>2
  <2>4. ASSUME NEW q \in Pages, NEW o \in Offs, lower'[q][o].k = NULL
        PROVE  lower'[q][o].v \notin Data
    <3>1. CASE /\ WriteOffset(t) <= Pos(q, o)
               /\ Pos(q, o) < WriteOffset(t) + n
      <4>1. lower'[q][o] = src[Pos(q, o) - WriteOffset(t)]
        BY Zenon, <2>1, <3>1 DEF WriteCells
      <4>2. /\ Pos(q, o) \in Int /\ Pos(req[t].p, 0) \in Int
            /\ lsize \in Int /\ PageSize \in Nat
        <5>1. Pos(q, o) \in Int
          BY PosInFile, ConstType DEF Offs
        <5>2. Pos(req[t].p, 0) \in Int
          BY PosInFile, ConstType DEF TypeOK, Request
        <5> QED
          BY <5>1, <5>2, ConstType DEF TypeOK
      <4>3. Pos(q, o) - WriteOffset(t) \in Offs
        BY <3>1, <4>2 DEF Offs, WriteOffset
      <4> QED
        BY Zenon, <2>3, <2>4, <4>1, <4>3
    <3>2. CASE ~ (/\ WriteOffset(t) <= Pos(q, o)
                  /\ Pos(q, o) < WriteOffset(t) + n)
      <4>1. lower'[q][o] = lower[q][o]
        BY Zenon, <2>1, <3>2 DEF WriteCells
      <4> QED
        BY Zenon, <2>4, <4>1 DEF NoClearText
    <3> QED
      BY <3>1, <3>2
  <2> QED
    BY Zenon, <2>4 DEF NoClearText
<1>3. ASSUME NEW t \in Tasks, TruncLower(t) PROVE NoClearText'
  <2>1. CASE lower' = lower
    BY Zenon, <2>1 DEF NoClearText
  <2>2. CASE lower' = TruncateCells(lower, isize)
    BY <2>2, CipherAssumption DEF NoClearText, TruncateCells, Raw
  <2> QED
    BY Zenon, <1>3, <2>1, <2>2 DEF TruncLower, lowerVars
<1> QED
  BY Zenon, <1>1, <1>2, <1>3, LowerStep

\* As long as the key is not cleared, no write leaves user data in the lower
\* file unencrypted, whatever fails and whenever the key is changed.
THEOREM NoClearTextSafe ==
  ASSUME "clear" \notin Allow
  PROVE  Spec => []NoClearText
<1> DEFINE Inv == WriterHasKey /\ NoClearText
<1>1. Init => Inv
  BY CipherAssumption DEF Init, WriterHasKey, NoClearText, EmptyFile, Raw
<1>2. TypeOK /\ Inv /\ [Next]_vars => Inv'
  BY WriterHasKeyNext, NoClearTextNext
<1> QED
  BY <1>1, <1>2, TypeCorrect, PTL DEF Spec

-----------------------------------------------------------------------------
(***************************************************************************)
(* Page locks.                                                             *)
(***************************************************************************)

\* Where a task has the lock of its page, and how its steps move locks: they
\* are outside, take the lock, work on the page, or give the lock back.
LockPcs == ReadPcs \cup WritePcs
Outside(t) ==
  /\ pc[t] \notin LockPcs /\ pc'[t] \notin LockPcs
  /\ UNCHANGED plock /\ uptodate' \subseteq uptodate
Takes(t) ==
  LET p == req[t].p IN
  /\ plock[p] = NoTask /\ plock' = [plock EXCEPT ![p] = t] /\ req'[t].p = p
  /\ pc[t] \notin LockPcs
  /\ \/ pc'[t] \in ReadPcs /\ p \notin uptodate /\ uptodate' = uptodate
     \/ pc'[t] \in WritePcs /\ uptodate' = uptodate \cup {p}
Works(t) ==
  /\ UNCHANGED <<plock, uptodate>> /\ req'[t].p = req[t].p
  /\ \/ pc[t] \in ReadPcs /\ pc'[t] \in ReadPcs
     \/ pc[t] \in WritePcs /\ pc'[t] \in WritePcs
Gives(t) ==
  LET p == req[t].p IN
  /\ pc[t] \in LockPcs /\ pc'[t] \notin LockPcs
  /\ plock' = [plock EXCEPT ![p] = NoTask]
  /\ uptodate' \subseteq uptodate \cup {p}

\* A step of a task leaves the control of the others and the key alone.
LEMMA OthersStay ==
  ASSUME TypeOK, NEW t \in Tasks, StartCall(t) \/ Continue(t)
  PROVE  /\ UNCHANGED key
         /\ \A u \in Tasks \ {t} : pc'[u] = pc[u] /\ req'[u] = req[u]
<1>0. pc \in [Tasks -> PCs] /\ req \in [Tasks -> Request]
  BY Zenon DEF TypeOK
<1>1. CASE StartCall(t)
  BY Zenon, <1>0, <1>1 DEF StartCall, ReadStart, WriteStart, TruncStart, Call,
                           Goto
<1>2. CASE ReadStep(t)
  BY Zenon, <1>0, <1>2 DEF ReadStep, ReadHit, ReadMiss, ReadpageNoKey,
     ReadpageKey, ReadpageNoPage, ReadpageSeek, ReadpageRead, ReadpageDone,
     Goto, Return
<1>3. CASE WriteStep(t)
  BY Zenon, <1>0, <1>3 DEF WriteStep, WriteLock, WriteTooBig, WriteBeginNoKey,
     WriteBeginKey, WriteBeginNoPage, WriteBeginPage, CopyFromUser, WriteEndKey,
     WriteEndNoPage, WriteEndLower, WriteEndTail, WriteEndSize, WriteReturn,
     Goto, Return
<1>4. CASE TruncStep(t)
  BY Zenon, <1>0, <1>4 DEF TruncStep, TruncUpper, TruncPage, TruncLower,
                           WriteReturn, Return
<1> QED
  BY Zenon, <1>1, <1>2, <1>3, <1>4 DEF Continue

\* Every step of a task moves locks so, but for readpage without a key.
LEMMA LockMoves ==
  ASSUME TypeOK, NEW t \in Tasks, StartCall(t) \/ Continue(t)
  PROVE  \/ Outside(t) \/ Takes(t) \/ Works(t) \/ Gives(t) \/ ReadpageNoKey(t)
<1>0. pc \in [Tasks -> PCs] /\ req \in [Tasks -> Request]
  BY Zenon DEF TypeOK
<1>1. ASSUME NEW from, NEW to, pc[t] = from, pc' = [pc EXCEPT ![t] = to],
             from \notin LockPcs, to \notin LockPcs,
             UNCHANGED plock, uptodate' \subseteq uptodate
      PROVE  Outside(t)
  BY Zenon, <1>0, <1>1 DEF Outside
<1>2. CASE StartCall(t)
  <2>1. "idle" \notin LockPcs /\ "rd_find" \notin LockPcs
        /\ "wr_mutex" \notin LockPcs /\ "tr_mutex" \notin LockPcs
    BY DEF LockPcs, ReadPcs, WritePcs
  <2> QED
    BY Zenon, <1>1, <1>2, <2>1 DEF StartCall, ReadStart, WriteStart, TruncStart,
                                   Call, Goto, cacheVars
<1>3. CASE ReadHit(t)
  <2>1. "idle" \notin LockPcs /\ "rd_find" \notin LockPcs
    BY DEF LockPcs, ReadPcs, WritePcs
  <2> QED
    BY Zenon, <1>1, <1>3, <2>1 DEF ReadHit, Return, cacheVars
<1>4. CASE \/ WriteLock(t) \/ WriteTooBig(t) \/ WriteBeginNoKey(t)
           \/ WriteBeginKey(t) \/ WriteBeginNoPage(t)
  <2>1. "idle" \notin LockPcs /\ "wr_mutex" \notin LockPcs
        /\ "wr_begin" \notin LockPcs /\ "wr_page" \notin LockPcs
    BY DEF LockPcs, ReadPcs, WritePcs
  <2> QED
    BY Zenon, <1>1, <1>4, <2>1 DEF WriteLock, WriteTooBig, WriteBeginNoKey,
       WriteBeginKey, WriteBeginNoPage, WriteReturn, Return, Goto, cacheVars
<1>5. CASE WriteEndSize(t) \/ TruncUpper(t) \/ TruncLower(t) \/ TruncPage(t)
  <2>1. "idle" \notin LockPcs /\ "we_size" \notin LockPcs
        /\ "wr_begin" \notin LockPcs /\ "tr_mutex" \notin LockPcs
        /\ "tr_pages" \notin LockPcs /\ "tr_lower" \notin LockPcs
    BY DEF LockPcs, ReadPcs, WritePcs
  <2>2. CASE TruncUpper(t) \/ TruncLower(t)
    BY Zenon, <1>1, <2>1, <2>2 DEF TruncUpper, TruncLower, WriteReturn, Return,
                                   cacheVars
  <2>3. CASE TruncPage(t)
    <3>1. uptodate' \subseteq uptodate
      BY Zenon, <2>3 DEF TruncPage, Drop
    <3> QED
      BY Zenon, <1>1, <2>1, <2>3, <3>1 DEF TruncPage
  <2>4. CASE WriteEndSize(t)
    BY Zenon, <1>1, <2>1, <2>4 DEF WriteEndSize, WriteReturn, Return, cacheVars
  <2> QED
    BY Zenon, <1>5, <2>2, <2>3, <2>4
<1>6. CASE ReadMiss(t)
  <2>1. /\ pc[t] = "rd_find" /\ pc'[t] = "rp_key"
        /\ req[t].p \notin uptodate /\ UNCHANGED <<uptodate, req>>
        /\ Lock(t, req[t].p)
    BY Zenon, <1>0, <1>6 DEF ReadMiss, Goto
  <2>2. pc[t] \notin LockPcs /\ pc'[t] \in ReadPcs
    BY <2>1 DEF LockPcs, ReadPcs, WritePcs
  <2> QED
    BY Zenon, <2>1, <2>2 DEF Takes, Lock
<1>7. CASE WriteBeginPage(t)
  <2>1. /\ pc[t] = "wr_page" /\ pc'[t] = "wr_copy"
        /\ uptodate' = uptodate \cup {req[t].p} /\ UNCHANGED req
        /\ Lock(t, req[t].p)
    BY Zenon, <1>0, <1>7 DEF WriteBeginPage, Goto
  <2>2. pc[t] \notin LockPcs /\ pc'[t] \in WritePcs
    BY <2>1 DEF LockPcs, ReadPcs, WritePcs
  <2> QED
    BY Zenon, <2>1, <2>2 DEF Takes, Lock
<1>8. CASE ReadpageKey(t) \/ ReadpageSeek(t) \/ ReadpageRead(t)
  <2>1. /\ \/ pc[t] = "rp_key" /\ pc'[t] = "rp_seek"
           \/ pc[t] = "rp_seek" /\ pc'[t] = "rp_read"
           \/ pc[t] = "rp_read" /\ pc'[t] = "rp_done"
        /\ UNCHANGED <<plock, uptodate, req>>
    BY Zenon, <1>0, <1>8 DEF ReadpageKey, ReadpageSeek, ReadpageRead, Goto,
                             cacheVars
  <2>2. pc[t] \in ReadPcs /\ pc'[t] \in ReadPcs
    BY <2>1 DEF ReadPcs
  <2> QED
    BY Zenon, <2>1, <2>2 DEF Works
<1>9. CASE CopyFromUser(t) \/ WriteEndKey(t) \/ WriteEndLower(t)
  <2>1. /\ \/ pc[t] = "wr_copy" /\ pc'[t] = "we_key"
           \/ pc[t] = "we_key" /\ pc'[t] = "we_write"
           \/ pc[t] = "we_write" /\ pc'[t] = "we_tail"
        /\ UNCHANGED <<plock, uptodate>>
    BY Zenon, <1>0, <1>9 DEF CopyFromUser, WriteEndKey, WriteEndLower, Goto,
                             cacheVars
  <2>2. pc[t] \in WritePcs /\ pc'[t] \in WritePcs
    BY <2>1 DEF WritePcs
  <2>3. req'[t].p = req[t].p
    <3>1. CASE CopyFromUser(t)
      BY Zenon, <1>0, <3>1, CopyKeeps
    <3> QED
      BY Zenon, <1>9, <3>1 DEF WriteEndKey, WriteEndLower
  <2> QED
    BY Zenon, <2>1, <2>2, <2>3 DEF Works
<1>10. CASE ReadpageNoPage(t) \/ ReadpageDone(t)
  <2>1. /\ pc[t] \in {"rp_key", "rp_done"} /\ pc'[t] \in {"idle", "dead"}
        /\ Unlock(req[t].p) /\ uptodate' \subseteq uptodate \cup {req[t].p}
    BY Zenon, <1>0, <1>10 DEF ReadpageNoPage, ReadpageDone, Return
  <2>2. pc[t] \in LockPcs /\ pc'[t] \notin LockPcs
    BY <2>1 DEF LockPcs, ReadPcs, WritePcs
  <2> QED
    BY Zenon, <2>1, <2>2 DEF Gives, Unlock
<1>11. CASE WriteEndNoPage(t) \/ WriteEndTail(t)
  <2>1. /\ pc[t] \in {"we_key", "we_tail"} /\ pc'[t] \in {"dead", "we_size"}
        /\ Unlock(req[t].p) /\ UNCHANGED uptodate
    BY Zenon, <1>0, <1>11 DEF WriteEndNoPage, WriteEndTail, Return, Goto,
                              cacheVars
  <2>2. pc[t] \in LockPcs /\ pc'[t] \notin LockPcs
    BY <2>1 DEF LockPcs, ReadPcs, WritePcs
  <2> QED
    BY Zenon, <2>1, <2>2 DEF Gives, Unlock
<1> QED
  BY Zenon, <1>2, <1>3, <1>4, <1>5, <1>6, <1>7, <1>8, <1>9, <1>10, <1>11
  DEF Continue, ReadStep, WriteStep, TruncStep

\* The other steps leave locks and control alone, and no page becomes up to
\* date by them.
LEMMA LocksStay ==
  ASSUME [Next]_vars, \A t \in Tasks : ~ (StartCall(t) \/ Continue(t))
  PROVE  UNCHANGED <<plock, pc, req>> /\ uptodate' \subseteq uptodate
<1>1. CASE SetKey \/ ClearKey \/ UNCHANGED vars
  BY Zenon, <1>1 DEF SetKey, ClearKey, StoreKey, vars, cacheVars
<1>2. CASE Evict \/ \E p \in Pages : Writeback(p) \/ Reclaim(p)
  BY Zenon, <1>2 DEF Evict, Writeback, Reclaim, Drop
<1> QED
  BY Zenon, <1>1, <1>2 DEF Next

\* A read is only started once a key is set, and the key stays set.
ReaderHasKey ==
  \A t \in Tasks : pc[t] \in ReadPcs \cup {"rd_find"} => key # NULL

\* One step keeps readers from being without a key.
LEMMA ReaderHasKeyNext ==
  ASSUME "clear" \notin Allow, "keyless" \notin Allow,
         TypeOK, ReaderHasKey, [Next]_vars
  PROVE  ReaderHasKey'
<1>0. pc \in [Tasks -> PCs]
  BY Zenon DEF TypeOK
<1>1. ASSUME NEW t \in Tasks, StartCall(t) \/ Continue(t) PROVE ReaderHasKey'
  <2>1. UNCHANGED key /\ \A u \in Tasks \ {t} : pc'[u] = pc[u]
    BY Zenon, <1>1, OthersStay
  <2>2. ASSUME pc'[t] \in ReadPcs \cup {"rd_find"} PROVE key # NULL
    <3>1. CASE StartCall(t)
      <4>1. ReadStart(t) \/ pc'[t] = "wr_mutex" \/ pc'[t] = "tr_mutex"
        BY Zenon, <1>0, <3>1 DEF StartCall, WriteStart, TruncStart, Call, Goto
      <4>2. ReadStart(t)
        BY <2>2, <4>1 DEF ReadPcs
      <4> QED
        BY Zenon, <4>2 DEF ReadStart
    <3>2. CASE ReadStep(t)
      <4>1. pc[t] \in {"rd_find", "rp_key", "rp_seek", "rp_read", "rp_done"}
        BY Zenon, <3>2 DEF ReadStep, ReadHit, ReadMiss, ReadpageNoKey,
           ReadpageKey, ReadpageNoPage, ReadpageSeek, ReadpageRead,
           ReadpageDone, Goto
      <4> QED
        BY Zenon, <4>1 DEF ReaderHasKey, ReadPcs
    <3>3. CASE WriteStep(t)
      <4>1. pc'[t] \in {"idle", "dead", "wr_begin", "wr_page", "wr_copy",
                        "we_key", "we_write", "we_tail", "we_size"}
        BY Zenon, <1>0, <3>3 DEF WriteStep, WriteLock, WriteTooBig,
           WriteBeginNoKey, WriteBeginKey, WriteBeginNoPage, WriteBeginPage,
           CopyFromUser, WriteEndKey, WriteEndNoPage, WriteEndLower,
           WriteEndTail, WriteEndSize, WriteReturn, Goto, Return
      <4> QED
        BY <2>2, <4>1 DEF ReadPcs
    <3>4. CASE TruncStep(t)
      <4>1. pc'[t] \in {"idle", "tr_pages", "tr_lower"}
        BY Zenon, <1>0, <3>4 DEF TruncStep, TruncUpper, TruncPage, TruncLower,
                                 WriteReturn, Return
      <4> QED
        BY <2>2, <4>1 DEF ReadPcs
    <3> QED
      BY Zenon, <1>1, <3>1, <3>2, <3>3, <3>4 DEF Continue
  <2> QED
    BY Zenon, <2>1, <2>2 DEF ReaderHasKey
<1>2. ASSUME \A t \in Tasks : ~ (StartCall(t) \/ Continue(t))
      PROVE  ReaderHasKey'
  <2>1. CASE SetKey
    BY Zenon, <2>1, CipherAssumption DEF SetKey, StoreKey, ReaderHasKey
  <2>2. CASE ~ SetKey
    <3>1. UNCHANGED key
      BY Zenon, <1>2, <2>2 DEF Next, ClearKey, Writeback, Reclaim, Evict, vars
    <3> QED
      BY Zenon, <1>2, <3>1, LocksStay DEF ReaderHasKey
  <2> QED
    BY Zenon, <2>1, <2>2
<1> QED
  BY Zenon, <1>1, <1>2

LockInv ==
  /\ ReaderHasKey
  /\ \A t \in Tasks, p \in Pages : plock[p] = t =>
       pc[t] \in ReadPcs \cup WritePcs /\ req[t].p = p

\* One step keeps every page lock with a task that is working on that page.
LEMMA LockInvNext ==
  ASSUME "clear" \notin Allow, "keyless" \notin Allow,
         TypeOK, LockInv, [Next]_vars
  PROVE  LockInv'
<1>0. /\ plock \in [Pages -> Tasks \cup {NoTask}] /\ NoTask \notin Tasks
      /\ \A u \in Tasks, p \in Pages : plock[p] = u =>
           pc[u] \in LockPcs /\ req[u].p = p
  BY Zenon, MmapAssumption DEF TypeOK, LockInv, LockPcs
<1>1. ASSUME NEW t \in Tasks, StartCall(t) \/ Continue(t),
             NEW u \in Tasks, NEW p \in Pages, plock'[p] = u
      PROVE  pc'[u] \in LockPcs /\ req'[u].p = p
  <2>0. u # t => pc'[u] = pc[u] /\ req'[u] = req[u]
    BY Zenon, <1>1, OthersStay
  <2>1. plock[p] = u => pc[u] \in LockPcs /\ req[u].p = p
    BY Zenon, <1>0
  <2>2. CASE Outside(t)
    BY Zenon, <1>1, <2>0, <2>1, <2>2 DEF Outside
  <2>3. CASE Takes(t)
    <3>1. CASE p = req[t].p
      BY Zenon, <1>0, <1>1, <2>3, <3>1 DEF Takes, LockPcs
    <3>2. CASE p # req[t].p
      <4>1. plock[p] = u
        BY Zenon, <1>0, <1>1, <2>3, <3>2 DEF Takes
      <4> QED
        BY Zenon, <2>0, <2>1, <2>3, <3>2, <4>1 DEF Takes
    <3> QED
      BY Zenon, <3>1, <3>2
  <2>4. CASE Works(t)
    BY Zenon, <1>1, <2>0, <2>1, <2>4 DEF Works, LockPcs
  <2>5. CASE Gives(t)
    <3>1. p # req[t].p /\ plock[p] = u
      BY Zenon, <1>0, <1>1, <2>5 DEF Gives
    <3>2. pc[u] \in LockPcs /\ req[u].p = p
      BY Zenon, <2>1, <3>1
    <3>3. u # t
      BY Zenon, <3>1, <3>2
    <3> QED
      BY Zenon, <2>0, <3>2, <3>3
  <2>6. ~ ReadpageNoKey(t)
    BY Zenon DEF ReadpageNoKey, LockInv, ReaderHasKey, ReadPcs
  <2> QED
    BY Zenon, <1>1, <2>2, <2>3, <2>4, <2>5, <2>6, LockMoves
<1>2. ASSUME \A t \in Tasks : ~ (StartCall(t) \/ Continue(t)),
             NEW u \in Tasks, NEW p \in Pages, plock'[p] = u
      PROVE  pc'[u] \in LockPcs /\ req'[u].p = p
  BY Zenon, <1>0, <1>2, LocksStay
<1>3. ReaderHasKey'
  BY Zenon, ReaderHasKeyNext DEF LockInv
<1> QED
  BY Zenon, <1>1, <1>2, <1>3 DEF LockInv, LockPcs

\* While users read only with a key set, no return or error path of readpage,
\* write_begin or write_end leaves a page locked.
THEOREM NoLockLeftBehind ==
  ASSUME "clear" \notin Allow, "keyless" \notin Allow
  PROVE  Spec => []LockOwnerActive
<1>1. Init => LockInv
  BY MmapAssumption DEF Init, LockInv, ReaderHasKey, ReadPcs
<1>2. TypeOK /\ LockInv /\ [Next]_vars => LockInv'
  BY LockInvNext
<1>3. TypeOK /\ LockInv => LockOwnerActive
  BY Zenon DEF TypeOK, LockInv, LockOwnerActive
<1> QED
  BY <1>1, <1>2, <1>3, TypeCorrect, PTL DEF Spec

-----------------------------------------------------------------------------
(***************************************************************************)
(* Page flags.                                                             *)
(***************************************************************************)

\* readpage works on cached pages that are not up to date, write_end on pages
\* that are.
FlagInv ==
  /\ DirtyIsUptodate
  /\ \A t \in Tasks : pc[t] \in ReadPcs => req[t].p \in cached \ uptodate
  /\ \A t \in Tasks : pc[t] \in WritePcs => req[t].p \in uptodate

\* One step of readpage, write_end, truncation or reclaim keeps dirty pages up
\* to date.
LEMMA FlagInvNext ==
  ASSUME TypeOK, Exclusive, FlagInv, [Next]_vars
  PROVE  FlagInv'
<1> USE TypeOKControl, MmapAssumption
    DEF ControlType, Exclusive, FlagInv, DirtyIsUptodate, ReadPcs, WritePcs
<1>1. CASE SetKey \/ ClearKey \/ UNCHANGED vars
  BY Zenon, <1>1 DEF SetKey, ClearKey, StoreKey, vars, cacheVars
<1>2. ASSUME NEW p \in Pages, Writeback(p) \/ Reclaim(p) PROVE FlagInv'
  BY <1>2 DEF Writeback, Reclaim, Drop
<1>3. CASE Evict
  BY Zenon, <1>3 DEF Evict, Drop
<1>4. ASSUME NEW t \in Tasks, ReadStart(t) PROVE FlagInv'
  BY Zenon, <1>4 DEF ReadStart, Call, Goto, cacheVars
<1>5. ASSUME NEW t \in Tasks, ReadHit(t) PROVE FlagInv'
  BY Zenon, <1>5 DEF ReadHit, Return, cacheVars
<1>6. ASSUME NEW t \in Tasks, ReadMiss(t) PROVE FlagInv'
  BY Zenon, <1>6 DEF ReadMiss, Goto, Lock, cacheVars
<1>7. ASSUME NEW t \in Tasks, ReadpageNoKey(t) PROVE FlagInv'
  BY Zenon, <1>7 DEF ReadpageNoKey, Return, cacheVars
<1>8. ASSUME NEW t \in Tasks, ReadpageKey(t) PROVE FlagInv'
  BY Zenon, <1>8 DEF ReadpageKey, Goto, cacheVars
<1>9. ASSUME NEW t \in Tasks, ReadpageNoPage(t) PROVE FlagInv'
  BY Zenon, <1>9 DEF ReadpageNoPage, Unlock, Return, cacheVars
<1>10. ASSUME NEW t \in Tasks, ReadpageSeek(t) PROVE FlagInv'
  BY Zenon, <1>10 DEF ReadpageSeek, Goto, cacheVars
<1>11. ASSUME NEW t \in Tasks, ReadpageRead(t) PROVE FlagInv'
  BY Zenon, <1>11 DEF ReadpageRead, Goto, cacheVars
<1>12. ASSUME NEW t \in Tasks, ReadpageDone(t) PROVE FlagInv'
  <2>1. /\ pc[t] \in ReadPcs /\ pc' = [pc EXCEPT ![t] = "idle"]
        /\ uptodate' \in {uptodate \cup {req[t].p}, uptodate \ {req[t].p}}
        /\ UNCHANGED <<cached, dirty>>
        /\ \A u \in Tasks \ {t} : req'[u] = req[u]
    BY Zenon, <1>12 DEF ReadpageDone, Return
  <2>2. ASSUME NEW u \in Tasks, u # t, pc[u] \in ReadPcs \cup WritePcs
        PROVE  req[u].p # req[t].p
    BY Zenon, <2>1, <2>2
  <2>3. req[t].p \in cached \ uptodate
    BY Zenon, <2>1
  <2> QED
    BY Zenon, <2>1, <2>2, <2>3
<1>13. ASSUME NEW t \in Tasks, WriteStart(t) PROVE FlagInv'
  BY Zenon, <1>13 DEF WriteStart, Call, Goto, cacheVars
<1>14. ASSUME NEW t \in Tasks, WriteLock(t) PROVE FlagInv'
  BY <1>14 DEF WriteLock, Goto, cacheVars
<1>15. ASSUME NEW t \in Tasks, WriteTooBig(t) PROVE FlagInv'
  BY Zenon, <1>15 DEF WriteTooBig, Return, cacheVars
<1>16. ASSUME NEW t \in Tasks, WriteBeginNoKey(t) PROVE FlagInv'
  BY Zenon, <1>16 DEF WriteBeginNoKey, WriteReturn, Return, cacheVars
<1>17. ASSUME NEW t \in Tasks, WriteBeginKey(t) PROVE FlagInv'
  BY <1>17 DEF WriteBeginKey, Goto, cacheVars
<1>18. ASSUME NEW t \in Tasks, WriteBeginNoPage(t) PROVE FlagInv'
  BY Zenon, <1>18 DEF WriteBeginNoPage, WriteReturn, Return, cacheVars
<1>19. ASSUME NEW t \in Tasks, WriteBeginPage(t) PROVE FlagInv'
  BY Zenon, <1>19 DEF WriteBeginPage, Goto, Lock, cacheVars
<1>20. ASSUME NEW t \in Tasks, CopyFromUser(t) PROVE FlagInv'
  <2>1. /\ pc[t] = "wr_copy" /\ pc'[t] = "we_key" /\ req'[t].p = req[t].p
        /\ \A u \in Tasks \ {t} : pc'[u] = pc[u] /\ req'[u] = req[u]
        /\ UNCHANGED <<cached, dirty, uptodate>>
    BY Zenon, <1>20, CopyKeeps
  <2>2. pc[t] \in WritePcs /\ pc'[t] \notin ReadPcs
    BY Zenon, <2>1
  <2> QED
    BY Zenon, <2>1, <2>2
<1>21. ASSUME NEW t \in Tasks, WriteEndKey(t) PROVE FlagInv'
  BY Zenon, <1>21 DEF WriteEndKey, Goto, cacheVars
<1>22. ASSUME NEW t \in Tasks, WriteEndNoPage(t) PROVE FlagInv'
  BY Zenon, <1>22 DEF WriteEndNoPage, Unlock, Return, cacheVars
<1>23. ASSUME NEW t \in Tasks, WriteEndLower(t) PROVE FlagInv'
  BY Zenon, <1>23 DEF WriteEndLower, Goto, cacheVars
<1>24. ASSUME NEW t \in Tasks, WriteEndTail(t) PROVE FlagInv'
  BY Zenon, <1>24 DEF WriteEndTail, Goto, Unlock, cacheVars
<1>25. ASSUME NEW t \in Tasks, WriteEndSize(t) PROVE FlagInv'
  <2>1. CASE WriteReturn(t)
    BY Zenon, <1>25, <2>1 DEF WriteEndSize, WriteReturn, Return, cacheVars
  <2>2. CASE ~ WriteReturn(t)
    <3>1. /\ pc' = [pc EXCEPT ![t] = "wr_begin"] /\ UNCHANGED cacheVars
          /\ \A u \in Tasks \ {t} : req'[u] = req[u]
      BY Zenon, <1>25, <2>2 DEF WriteEndSize
    <3> QED
      BY Zenon, <1>25, <3>1 DEF WriteEndSize, cacheVars
  <2> QED
    BY Zenon, <2>1, <2>2
<1>26. ASSUME NEW t \in Tasks, TruncStart(t) PROVE FlagInv'
  BY Zenon, <1>26 DEF TruncStart, Call, Goto, cacheVars
<1>27. ASSUME NEW t \in Tasks, TruncUpper(t) PROVE FlagInv'
  <2>1. /\ UNCHANGED <<cached, uptodate, dirty, req>>
        /\ \A u \in Tasks \ {t} : pc'[u] = pc[u]
    BY Zenon, <1>27 DEF TruncUpper, cacheVars
  <2>2. pc'[t] = "tr_lower" \/ pc'[t] = "tr_pages"
    BY Zenon, <1>27 DEF TruncUpper
  <2>3. pc'[t] \notin ReadPcs \cup WritePcs
    BY Zenon, <2>2
  <2> QED
    BY Zenon, <2>1, <2>3
<1>28. ASSUME NEW t \in Tasks, TruncPage(t) PROVE FlagInv'
  BY <1>28 DEF TruncPage, Drop
<1>29. ASSUME NEW t \in Tasks, TruncLower(t) PROVE FlagInv'
  BY Zenon, <1>29 DEF TruncLower, WriteReturn, Return, cacheVars
<1> QED
  BY Zenon, <1>1, <1>2, <1>3, <1>4, <1>5, <1>6, <1>7, <1>8, <1>9, <1>10, <1>11,
     <1>12, <1>13, <1>14, <1>15, <1>16, <1>17, <1>18, <1>19, <1>20, <1>21,
     <1>22, <1>23, <1>24, <1>25, <1>26, <1>27, <1>28, <1>29
  DEF Next, StartCall, Continue, ReadStep, WriteStep, TruncStep

\* The BUG_ON of wrapfs_writepage is never hit: a dirty page is up to date.
THEOREM WritepageAssertion == Spec => []DirtyIsUptodate
<1>1. Init => FlagInv
  BY Zenon DEF Init, FlagInv, DirtyIsUptodate, ReadPcs, WritePcs
<1>2. TypeOK /\ Exclusive /\ FlagInv /\ [Next]_vars => FlagInv'
  BY FlagInvNext
<1>3. FlagInv => DirtyIsUptodate
  BY Zenon DEF FlagInv
<1> QED
  BY <1>1, <1>2, <1>3, TypeCorrect, ExclusiveAccess, PTL DEF Spec

\* The tasks that hold the lock of an up-to-date page.
LostLockInv ==
  \A p \in Pages, t \in Tasks :
    p \in uptodate /\ plock[p] = t => pc[t] \in WritePcs /\ req[t].p = p

\* One step keeps the lock of an up-to-date page with a task that writes it:
\* the lock is only taken by readpage's caller when the page is not up to date,
\* and given back whenever write_end returns.
LEMMA LostLockNext ==
  ASSUME TypeOK, Exclusive, FlagInv, LostLockInv, [Next]_vars
  PROVE  LostLockInv'
<1>0. /\ plock \in [Pages -> Tasks \cup {NoTask}] /\ NoTask \notin Tasks
      /\ \A u \in Tasks, p \in Pages : p \in uptodate /\ plock[p] = u =>
           pc[u] \in WritePcs /\ req[u].p = p
  BY Zenon, MmapAssumption DEF TypeOK, LostLockInv
<1>a. \A u \in Tasks : pc[u] \in ReadPcs => req[u].p \notin uptodate
  BY Zenon DEF FlagInv
<1>1. ASSUME NEW t \in Tasks, StartCall(t) \/ Continue(t),
             NEW u \in Tasks, NEW p \in Pages, p \in uptodate', plock'[p] = u
      PROVE  pc'[u] \in WritePcs /\ req'[u].p = p
  <2>0. u # t => pc'[u] = pc[u] /\ req'[u] = req[u]
    BY Zenon, <1>1, OthersStay
  <2>1. p \in uptodate /\ plock[p] = u => pc[u] \in WritePcs /\ req[u].p = p
    BY Zenon, <1>0
  <2>2. CASE Outside(t)
    BY Zenon, <1>1, <2>0, <2>1, <2>2 DEF Outside, LockPcs
  <2>3. CASE Takes(t)
    <3>1. CASE p = req[t].p
      BY Zenon, <1>0, <1>1, <2>3, <3>1 DEF Takes
    <3>2. CASE p # req[t].p
      <4>1. p \in uptodate /\ plock[p] = u
        BY Zenon, <1>0, <1>1, <2>3, <3>2 DEF Takes
      <4> QED
        BY Zenon, <2>0, <2>1, <2>3, <3>2, <4>1 DEF Takes, LockPcs
    <3> QED
      BY Zenon, <3>1, <3>2
  <2>4. CASE Works(t)
    BY Zenon, <1>1, <1>a, <2>0, <2>1, <2>4 DEF Works
  <2>5. CASE Gives(t)
    <3>1. p # req[t].p /\ plock[p] = u
      BY Zenon, <1>0, <1>1, <2>5 DEF Gives
    <3>2. p \in uptodate
      BY Zenon, <1>1, <2>5, <3>1 DEF Gives
    <3>3. pc[u] \in WritePcs /\ req[u].p = p
      BY Zenon, <2>1, <3>1, <3>2
    <3>4. u # t
      BY Zenon, <3>1, <3>3
    <3> QED
      BY Zenon, <2>0, <3>3, <3>4
  <2>6. CASE ReadpageNoKey(t)
    <3>1. pc[t] \in ReadPcs /\ UNCHANGED <<plock, uptodate>>
      BY Zenon, <2>6 DEF ReadpageNoKey, ReadPcs, cacheVars
    <3>2. u # t
      BY Zenon, <1>1, <1>a, <2>1, <3>1
    <3> QED
      BY Zenon, <1>1, <2>0, <2>1, <3>1, <3>2
  <2> QED
    BY Zenon, <1>1, <2>2, <2>3, <2>4, <2>5, <2>6, LockMoves
<1>2. ASSUME \A t \in Tasks : ~ (StartCall(t) \/ Continue(t)),
             NEW u \in Tasks, NEW p \in Pages, p \in uptodate', plock'[p] = u
      PROVE  pc'[u] \in WritePcs /\ req'[u].p = p
  BY Zenon, <1>0, <1>2, LocksStay
<1> QED
  BY Zenon, <1>1, <1>2 DEF LostLockInv

\* Both facts about page flags hold whatever the users and failures do.
LEMMA FlagsInvariant == Spec => [](FlagInv /\ LostLockInv)
<1>1. Init => FlagInv /\ LostLockInv
  BY Zenon DEF Init, FlagInv, DirtyIsUptodate, LostLockInv, ReadPcs, WritePcs
<1>2. TypeOK /\ Exclusive /\ FlagInv /\ LostLockInv /\ [Next]_vars
        => FlagInv' /\ LostLockInv'
  BY FlagInvNext, LostLockNext
<1> QED
  BY <1>1, <1>2, TypeCorrect, ExclusiveAccess, PTL DEF Spec

\* The -EPERM return of readpage, which leaves its page locked for ever, only
\* ever leaves a page locked that holds nothing: an up-to-date page is locked
\* by a task inside write_begin or write_end for that page, and by nobody else.
THEOREM LostLocksHideNothing == Spec => []LostLockHidesNothing
<1>1. TypeOK /\ LostLockInv => LostLockHidesNothing
  BY DEF TypeOK, LostLockInv, LostLockHidesNothing
<1> QED
  BY <1>1, FlagsInvariant, TypeCorrect, PTL

-----------------------------------------------------------------------------
(***************************************************************************)
(* Sizes.                                                                  *)
(***************************************************************************)

\* Except between truncate_setsize and notify_change the lower file is not
\* longer than the wrapfs file.
SizeInv == (\A t \in Tasks : pc[t] \notin {"tr_pages", "tr_lower"})
             => lsize <= isize

\* One step of write_end or setattr keeps the lower file no longer than the
\* wrapfs file.
LEMMA SizeInvNext ==
  ASSUME "lower_setattr" \notin Faults, TypeOK, Exclusive, SizeInv, [Next]_vars
  PROVE  SizeInv'
<1> USE ConstType DEF TypeOK, SizeInv
<1>1. CASE \/ SetKey \/ ClearKey \/ UNCHANGED vars
           \/ \E p \in Pages : Writeback(p) \/ Reclaim(p)
  BY Zenon, <1>1 DEF SetKey, ClearKey, StoreKey, Writeback, Reclaim, vars, lowerVars
<1>2. CASE Evict
  BY <1>2 DEF Evict, lowerVars
<1>3. ASSUME NEW t \in Tasks, StartCall(t) PROVE SizeInv'
  BY Zenon, <1>3 DEF StartCall, ReadStart, WriteStart, TruncStart, Call, Goto,
              lowerVars
<1>4. ASSUME NEW t \in Tasks, ReadStep(t) PROVE SizeInv'
  BY Zenon, <1>4 DEF ReadStep, ReadHit, ReadMiss, ReadpageNoKey, ReadpageKey,
              ReadpageNoPage, ReadpageSeek, ReadpageRead, ReadpageDone,
              Return, Goto, lowerVars
<1>5. ASSUME NEW t \in Tasks, \/ WriteLock(t) \/ WriteTooBig(t)
                              \/ WriteBeginNoKey(t) \/ WriteBeginKey(t)
                              \/ WriteBeginNoPage(t) \/ WriteBeginPage(t)
                              \/ CopyFromUser(t) \/ WriteEndKey(t)
                              \/ WriteEndNoPage(t) \/ WriteEndTail(t)
      PROVE  SizeInv'
  BY Zenon, <1>5 DEF WriteLock, WriteTooBig, WriteBeginNoKey, WriteBeginKey,
              WriteBeginNoPage, WriteBeginPage, CopyFromUser, WriteEndKey,
              WriteEndNoPage, WriteEndTail, WriteReturn, Return, Goto,
              lowerVars
<1>6. ASSUME NEW t \in Tasks, WriteEndLower(t) PROVE SizeInv'
  <2>1. PICK src \in {WriteSource(t), UnwrittenCells}, n \in 0 .. PageSize :
          StoredBy(t, src, n)
    BY Zenon, <1>6, StoredCells
  <2>2. lsize' \in 0 .. MaxSize /\ isize' \in 0 .. MaxSize
    <3>1. WriteOffset(t) \in 0 .. MaxSize
      BY PosInFile DEF WriteOffset, Request
    <3>2. SizeAfter(lsize, n, WriteOffset(t)) \in 0 .. MaxSize
      BY <3>1 DEF SizeAfter
    <3> QED
      BY Zenon, <2>1, <3>2 DEF StoredBy
  <2>3. CASE isize' = lsize'
    BY <2>2, <2>3
  <2>4. CASE n = 0 /\ isize' = isize
    <3>1. lsize' = lsize
      BY <2>1, <2>4 DEF StoredBy, SizeAfter
    <3> QED
      BY Zenon, <1>6, <2>4, <3>1 DEF WriteEndLower, Goto
  <2> QED
    BY Zenon, <2>1, <2>3, <2>4 DEF StoredBy
<1>7. ASSUME NEW t \in Tasks, WriteEndSize(t) PROVE SizeInv'
  <2>1. isize' \in Nat /\ isize <= isize'
    <3>1. req[t].p \in Pages /\ req[t].from + req[t].copied \in 0 .. PageSize
      BY DEF Request
    <3>2. Pos(req[t].p, req[t].from + req[t].copied) \in 0 .. MaxSize
      BY Zenon, <3>1, PosInFile
    <3>3. isize' = GrownSize(isize, Pos(req[t].p, req[t].from + req[t].copied))
      BY Zenon, <1>7 DEF WriteEndSize
    <3>4. isize \in Nat
      OBVIOUS
    <3> HIDE DEF TypeOK, SizeInv
    <3> QED
      BY <3>2, <3>3, <3>4, ConstType DEF GrownSize
  <2>2. \A u \in Tasks : pc[u] \in {"tr_pages", "tr_lower"} => pc'[u] = pc[u]
    BY Zenon, <1>7 DEF WriteEndSize, WriteReturn, Return
  <2>3. lsize' = lsize
    BY Zenon, <1>7 DEF WriteEndSize, lowerVars
  <2> QED
    BY <2>1, <2>2, <2>3
<1>8. ASSUME NEW t \in Tasks, TruncUpper(t) PROVE SizeInv'
  BY Zenon, <1>8 DEF TruncUpper
<1>9. ASSUME NEW t \in Tasks, TruncPage(t) PROVE SizeInv'
  BY Zenon, <1>9 DEF TruncPage
<1>10. ASSUME NEW t \in Tasks, TruncLower(t) PROVE SizeInv'
  BY <1>10 DEF TruncLower, Fails
<1> QED
  BY Zenon, <1>1, <1>2, <1>3, <1>4, <1>5, <1>6, <1>7, <1>8, <1>9, <1>10
  DEF Next, Continue, WriteStep, TruncStep

\* If the lower file system never refuses a size change, then whenever no
\* write or truncation is in progress all of the lower file is within the
\* wrapfs file's size, in spite of short and failed writes.
THEOREM LowerNotLongerSafe ==
  ASSUME "lower_setattr" \notin Faults
  PROVE  Spec => []LowerNotLonger
<1>1. Init => SizeInv
  BY DEF Init, SizeInv
<1>2. TypeOK /\ Exclusive /\ SizeInv /\ [Next]_vars => SizeInv'
  BY Zenon, SizeInvNext
<1>3. TypeOK /\ Exclusive /\ SizeInv => LowerNotLonger
  BY Zenon, MmapAssumption DEF TypeOK, Exclusive, SizeInv, LowerNotLonger, MutexPcs
<1> QED
  BY <1>1, <1>2, <1>3, TypeCorrect, ExclusiveAccess, PTL DEF Spec
=============================================================================
