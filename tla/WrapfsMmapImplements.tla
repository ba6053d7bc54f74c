----------------------- MODULE WrapfsMmapImplements ------------------------
(***************************************************************************)
(* The data path implements a plain file of pages, proved for any number   *)
(* of tasks, files, pages and cells: one step of the page cache, the       *)
(* cipher and the lower file is one step of PageFile or none.              *)
(***************************************************************************)
EXTENDS WrapfsMmapCoherence, WrapfsMmapRefinement

-----------------------------------------------------------------------------
(***************************************************************************)
(* The length of the file, in pages.                                       *)
(***************************************************************************)

\* The file is so many whole pages long, and outside a truncation the lower
\* file is as long as the wrapfs file.
Count == isize \div PageSize
CountInv ==
  /\ Count \in 0 .. NumPages /\ isize = Count * PageSize
  /\ (\A t \in Tasks : pc[t] \notin {"tr_pages", "tr_lower"}) => isize = lsize

\* What is encrypted under a key at an offset decrypts to itself there.
LEMMA CellDecrypted ==
  ASSUME NEW k \in Keys \cup {NULL}, NEW o \in Offs, NEW v \in Plain
  PROVE  DecryptCell(k, o, EncryptCell(k, o, v)) = v
BY DEF DecryptCell, EncryptCell

\* The pages of so many whole pages.
LEMMA PagesOf ==
  ASSUME NEW n \in 0 .. NumPages
  PROVE  /\ (n * PageSize) \div PageSize = n
         /\ \A p \in Pages :
              /\ Pos(p, 0) <= n * PageSize <=> p <= n
              /\ Pos(p, 0) + PageSize <= n * PageSize <=> p < n
              /\ \A o \in Offs : Pos(p, o) < n * PageSize <=> p < n
<1>1. PageSize \in Nat \ {0} /\ n \in Nat /\ NumPages \in Nat
  BY ConstType, NumPagesAssumption
<1>2. (n * PageSize) \div PageSize = n
  <2> DEFINE x == n * PageSize
             q == x \div PageSize
             m == x % PageSize
  <2>1. x \in Nat
    BY <1>1
  <2> HIDE DEF x
  <2>2. x = PageSize * q + m /\ q \in Nat /\ m \in 0 .. PageSize - 1
    BY <1>1, <2>1, PageAndOffset
  <2> HIDE DEF q, m
  <2>3. ~ (q >= n + 1)
    <3>1. SUFFICES ASSUME q >= n + 1 PROVE FALSE
      OBVIOUS
    <3>2. q * PageSize >= (n + 1) * PageSize /\ (n + 1) * PageSize = x + PageSize
      BY <1>1, <2>2, <3>1 DEF x
    <3> QED
      BY <1>1, <2>1, <2>2, <3>2
  <2>4. ~ (n >= q + 1)
    <3>1. SUFFICES ASSUME n >= q + 1 PROVE FALSE
      OBVIOUS
    <3>2. x >= (q + 1) * PageSize /\ (q + 1) * PageSize = PageSize * q + PageSize
      BY <1>1, <2>2, <3>1 DEF x
    <3> QED
      BY <1>1, <2>1, <2>2, <3>2
  <2>5. q = n
    BY <1>1, <2>2, <2>3, <2>4
  <2> QED
    BY <2>5 DEF q, x
<1>3. ASSUME NEW p \in Pages
      PROVE  /\ Pos(p, 0) <= n * PageSize <=> p <= n
             /\ Pos(p, 0) + PageSize <= n * PageSize <=> p < n
             /\ \A o \in Offs : Pos(p, o) < n * PageSize <=> p < n
  <2>1. /\ p \in Nat /\ Pos(p, 0) = p * PageSize /\ p * PageSize \in Nat
        /\ n * PageSize \in Nat
    BY <1>1 DEF Pages, Pos
  <2>2. (p + 1) * PageSize = p * PageSize + PageSize
    BY <1>1, <2>1
  <2>3. p < n => (p + 1) * PageSize <= n * PageSize
    BY <1>1, <2>1
  <2>4. (p >= n => p * PageSize >= n * PageSize)
    BY <1>1, <2>1
  <2>5. p >= n + 1 => p * PageSize >= (n + 1) * PageSize
    BY <1>1, <2>1
  <2>6. (n + 1) * PageSize = n * PageSize + PageSize
    BY <1>1
  <2>7. \A o \in Offs : Pos(p, o) = p * PageSize + o /\ o \in 0 .. PageSize - 1
    BY <1>1 DEF Pos, Offs
  <2> HIDE DEF Pages, Offs
  <2>8. Pos(p, 0) <= n * PageSize <=> p <= n
    BY <1>1, <2>1, <2>2, <2>3, <2>5, <2>6
  <2>9. Pos(p, 0) + PageSize <= n * PageSize <=> p < n
    BY <1>1, <2>1, <2>2, <2>3, <2>4
  <2>10. \A o \in Offs : Pos(p, o) < n * PageSize <=> p < n
    BY <1>1, <2>1, <2>2, <2>3, <2>4, <2>7
  <2> QED
    BY <2>8, <2>9, <2>10
<1> QED
  BY Zenon, <1>2, <1>3

\* Pages are added and cut off whole: one at a time by write_end, any number by
\* a truncation the lower file system follows.
LEMMA CountInvNext ==
  ASSUME Orderly, "lower_setattr" \notin Faults,
         TypeOK, Exclusive, CoherenceInv, CountInv, [Next]_vars
  PROVE  CountInv'
<1> DEFINE Cutting(x) == x \in {"tr_pages", "tr_lower"}
<1>0. pc \in [Tasks -> PCs] /\ lsize \in 0 .. MaxSize /\ MaxSize \in Nat
  BY ConstType DEF TypeOK
<1>1. ASSUME UNCHANGED <<isize, lsize>>,
             \A u \in Tasks : Cutting(pc[u]) => Cutting(pc'[u])
      PROVE  CountInv'
  BY <1>1 DEF CountInv, Count
<1>2. ASSUME NEW n \in 0 .. NumPages, isize' = n * PageSize,
             \/ isize' = lsize'
             \/ \E t \in Tasks : Cutting(pc'[t])
      PROVE  CountInv'
  <2>1. Count' = n
    BY Zenon, <1>2, PagesOf DEF Count
  <2> QED
    BY <1>2, <2>1 DEF CountInv
<1>3. CASE \/ SetKey \/ ClearKey \/ UNCHANGED vars
           \/ \E p \in Pages : Writeback(p) \/ Reclaim(p)
  BY Zenon, <1>1, <1>3 DEF SetKey, ClearKey, StoreKey, Writeback, Reclaim, vars,
                    lowerVars
<1>4. CASE Evict
  <2>1. isize' = isize
    BY <1>4 DEF Evict, CountInv
  <2> QED
    BY <1>1, <1>4, <2>1 DEF Evict, lowerVars
<1>5. ASSUME NEW t \in Tasks, StartCall(t) PROVE CountInv'
  BY Zenon, <1>0, <1>1, <1>5 DEF StartCall, ReadStart, WriteStart, TruncStart, Call,
                          Goto, lowerVars
<1>6. ASSUME NEW t \in Tasks, ReadStep(t) PROVE CountInv'
  <2>1. CASE \/ ReadHit(t) \/ ReadpageNoKey(t) \/ ReadpageNoPage(t)
             \/ ReadpageDone(t)
    BY <1>0, <1>1, <2>1 DEF ReadHit, ReadpageNoKey, ReadpageNoPage,
                            ReadpageDone, Return, lowerVars
  <2>2. CASE \/ ReadMiss(t) \/ ReadpageKey(t) \/ ReadpageSeek(t)
             \/ ReadpageRead(t)
    BY Zenon, <1>0, <1>1, <2>2 DEF ReadMiss, ReadpageKey, ReadpageSeek, ReadpageRead,
                            Goto, lowerVars
  <2> QED
    BY Zenon, <1>6, <2>1, <2>2 DEF ReadStep
<1>7. ASSUME NEW t \in Tasks, \/ WriteLock(t) \/ WriteBeginKey(t)
                              \/ WriteBeginPage(t) \/ CopyFromUser(t)
                              \/ WriteEndKey(t) \/ WriteEndTail(t)
      PROVE  CountInv'
  BY Zenon, <1>0, <1>1, <1>7 DEF WriteLock, WriteBeginKey, WriteBeginPage,
                          CopyFromUser, WriteEndKey, WriteEndTail, Goto, lowerVars
<1>8. ASSUME NEW t \in Tasks, \/ WriteTooBig(t) \/ WriteBeginNoKey(t)
                              \/ WriteBeginNoPage(t) \/ WriteEndNoPage(t)
      PROVE  CountInv'
  BY <1>0, <1>1, <1>8 DEF WriteTooBig, WriteBeginNoKey, WriteBeginNoPage,
                          WriteEndNoPage, WriteReturn, Return, lowerVars
<1>9. ASSUME NEW t \in Tasks, WriteEndLower(t) PROVE CountInv'
  <2> DEFINE p == req[t].p
  <2>1. p \in Pages
    BY Zenon DEF TypeOK, Request
  <2>2. pc[t] = "we_write" /\ req[t].copied = PageSize /\ Pos(p, 0) <= isize
    BY Zenon, <1>9 DEF WriteEndLower, Goto, CoherenceInv, ChunkInv, WriteCallPcs,
                WritePcs
  <2>3. isize = lsize
    BY Zenon, <2>2 DEF CountInv, Exclusive, MutexPcs, WritePcs
  <2>4. isize' = lsize' /\ lsize' = SizeAfter(isize, PageSize, Pos(p, 0))
    BY Zenon, <1>9, <2>2, <2>3 DEF WriteEndLower, StoreLower, WriteOffset, Fails,
                            Orderly
  <2>5. isize' \in {isize, Pos(p, 0) + PageSize}
    <3>1. /\ PageSize \in Nat /\ MaxSize \in Nat
          /\ Pos(p, 0) + PageSize \in 0 .. MaxSize
      BY <2>1, WholePage
    <3> QED
      BY <2>4, <3>1 DEF SizeAfter
  <2>6. CASE isize' = isize
    BY Zenon, <1>2, <2>4, <2>6 DEF CountInv
  <2>7. CASE isize' = Pos(p, 0) + PageSize
    <3>1. p + 1 \in 0 .. NumPages /\ Pos(p, 0) + PageSize = (p + 1) * PageSize
      BY <2>1, ConstType, NumPagesAssumption DEF Pages, Pos
    <3> QED
      BY Zenon, <1>2, <2>4, <2>7, <3>1
  <2> QED
    BY Zenon, <2>5, <2>6, <2>7
<1>10. ASSUME NEW t \in Tasks, WriteEndSize(t) PROVE CountInv'
  <2>1. isize' = isize
    BY Zenon, <1>10, SizeStays DEF CoherenceInv
  <2>2. pc[t] = "we_size" /\ \A u \in Tasks \ {t} : pc'[u] = pc[u]
    BY <1>0, <1>10 DEF WriteEndSize, WriteReturn, Return
  <2> QED
    BY <1>1, <1>10, <2>1, <2>2 DEF WriteEndSize, lowerVars
<1>11. ASSUME NEW t \in Tasks, TruncUpper(t) PROVE CountInv'
  <2>1. PICK n \in TruncSizes : isize' = n
    BY <1>11 DEF TruncUpper
  <2>2. PICK m \in 0 .. NumPages : n = m * PageSize
    BY DEF Orderly
  <2>3. Cutting(pc'[t])
    BY Zenon, <1>0, <1>11 DEF TruncUpper
  <2> QED
    BY Zenon, <1>2, <2>1, <2>2, <2>3
<1>12. ASSUME NEW t \in Tasks, TruncPage(t) PROVE CountInv'
  BY Zenon, <1>0, <1>1, <1>12 DEF TruncPage, lowerVars
<1>13. ASSUME NEW t \in Tasks, TruncLower(t) PROVE CountInv'
  <2>1. isize' = isize /\ lsize' = isize
    BY <1>13 DEF TruncLower, Fails
  <2> QED
    BY <1>2, <2>1 DEF CountInv
<1> QED
  BY Zenon, <1>3, <1>4, <1>5, <1>6, <1>7, <1>8, <1>9, <1>10, <1>11, <1>12, <1>13
  DEF Next, Continue, WriteStep, TruncStep

-----------------------------------------------------------------------------
(***************************************************************************)
(* The refinement mapping, page by page.                                   *)
(***************************************************************************)

\* A page that is being written is given the one value of its write; there is
\* one writer at a time.
Writes(t, p) == pc[t] \in WritePcs /\ req[t].p = p
Filled(v) == [o \in Offs |-> v]
WrittenIs ==
  \A p \in Pages :
    /\ \A t \in Tasks : Writes(t, p) => PagesWritten[p + 1] = Filled(req[t].v)
    /\ (\A t \in Tasks : ~ Writes(t, p)) => PagesWritten[p + 1] = NULL

\* Everything the steps of the mapping rest on.
MapInv == /\ TypeOK /\ Exclusive /\ FlagInv
          /\ CoherenceInv /\ CountInv /\ WrittenIs

\* Index i of the abstract file is page i - 1 of the page cache.
LEMMA IndexOf ==
  /\ \A i \in 1 .. NumPages : i - 1 \in Pages /\ (i - 1) + 1 = i
  /\ \A p \in Pages : p + 1 \in 1 .. NumPages /\ (p + 1) - 1 = p
BY NumPagesAssumption DEF Pages

\* With one writer at a time the chosen writer is that writer.
LEMMA WrittenHolds ==
  ASSUME TypeOK, Exclusive, ChunkInv
  PROVE  WrittenIs
<1>1. ASSUME NEW p \in Pages, NEW t \in Tasks, Writes(t, p)
      PROVE  PagesWritten[p + 1] = Filled(req[t].v)
  <2>1. t \in Writers(p)
    BY <1>1 DEF Writers, Writes
  <2>2. \A u \in Writers(p) : u = t
    BY <1>1 DEF Writers, Writes, Exclusive, MutexPcs
  <2>3. (CHOOSE u \in Writers(p) : TRUE) = t
    BY <2>1, <2>2
  <2>4. PagesWritten[p + 1] = Incoming(t)
    BY Zenon, <2>1, <2>3, IndexOf DEF PagesWritten
  <2>5. req[t].from = 0 /\ req[t].len = PageSize
    BY <1>1 DEF ChunkInv, WriteCallPcs, Writes
  <2>6. \A o \in Offs : 0 <= o /\ o < 0 + PageSize
    BY ConstType DEF Offs
  <2>7. Incoming(t) = Filled(req[t].v)
    BY <2>5, <2>6 DEF Incoming, Filled
  <2> QED
    BY <2>4, <2>7
<1>2. ASSUME NEW p \in Pages, \A t \in Tasks : ~ Writes(t, p)
      PROVE  PagesWritten[p + 1] = NULL
  <2>1. Writers(p) = {}
    BY Zenon, <1>2 DEF Writers, Writes
  <2> QED
    BY <2>1, IndexOf DEF PagesWritten
<1> QED
  BY <1>1, <1>2 DEF WrittenIs

\* A step that starts or ends no write leaves what is being written.
LEMMA WrittenSame ==
  ASSUME TypeOK, WrittenIs, WrittenIs',
         \A u \in Tasks :
           /\ pc'[u] \in WritePcs <=> pc[u] \in WritePcs
           /\ pc[u] \in WritePcs =>
                req'[u].p = req[u].p /\ req'[u].v = req[u].v
  PROVE  UNCHANGED PagesWritten
<1>1. ASSUME NEW p \in Pages
      PROVE  PagesWritten'[p + 1] = PagesWritten[p + 1]
  <2>1. \A u \in Tasks : Writes(u, p)' <=> Writes(u, p)
    BY Zenon DEF Writes
  <2>2. CASE \E u \in Tasks : Writes(u, p)
    <3>1. PICK u \in Tasks : Writes(u, p)
      BY <2>2
    <3>2. Writes(u, p)' /\ req'[u].v = req[u].v
      BY Zenon, <2>1, <3>1 DEF Writes
    <3>3. PagesWritten[p + 1] = Filled(req[u].v)
      BY Zenon, <3>1 DEF WrittenIs
    <3>4. PagesWritten'[p + 1] = Filled(req'[u].v)
      BY Zenon, <3>2 DEF WrittenIs
    <3> QED
      BY Zenon, <3>2, <3>3, <3>4
  <2>3. CASE \A u \in Tasks : ~ Writes(u, p)
    BY Zenon, <2>1, <2>3 DEF WrittenIs
  <2> QED
    BY <2>2, <2>3
<1>2. \A i \in 1 .. NumPages : PagesWritten'[i] = PagesWritten[i]
  BY Zenon, <1>1, IndexOf
<1> QED
  BY <1>2 DEF PagesWritten

\* A step that leaves what the lower file decrypts to leaves the file.
LEMMA FileSame ==
  ASSUME CountInv, UNCHANGED isize,
         \A p \in Pages, o \in Offs : p < Count =>
           DecryptCell(key', o, lower'[p][o]) = DecryptCell(key, o, lower[p][o])
  PROVE  UNCHANGED FilePages
<1>1. ASSUME NEW i \in 1 .. Count
      PROVE  DecryptPage(key', lower'[i - 1]) = DecryptPage(key, lower[i - 1])
  <2>1. i - 1 \in Pages /\ i - 1 < Count
    BY NumPagesAssumption DEF CountInv, Pages
  <2> QED
    BY <2>1 DEF DecryptPage
<1> QED
  BY Zenon, <1>1 DEF FilePages, Count

\* A step that leaves the up-to-date pages of the file leaves what is shown.
LEMMA ShownSame ==
  ASSUME CountInv, UNCHANGED isize,
         \A p \in Pages : p < Count =>
           /\ p \in uptodate' <=> p \in uptodate
           /\ p \in uptodate => data'[p] = data[p]
  PROVE  UNCHANGED PagesShown
<1>1. ASSUME NEW i \in 1 .. NumPages
      PROVE  PagesShown'[i] = PagesShown[i]
  <2>1. i - 1 \in Pages /\ (i <= Count <=> i - 1 < Count)
    BY NumPagesAssumption DEF CountInv, Pages
  <2> QED
    BY <2>1 DEF PagesShown, Count
<1> QED
  BY Zenon, <1>1 DEF PagesShown

\* The first n pages of a lower file, decrypted, are a sequence of n pages.
Decrypted(k, cells, n) == [i \in 1 .. n |-> DecryptPage(k, cells[i - 1])]
\* The first pages of the lower file, decrypted, are a sequence of pages.
LEMMA SomePages ==
  ASSUME NEW k \in KeyOrNull, NEW cells \in [Pages -> CellPage],
         NEW n \in 0 .. NumPages
  PROVE  LET s == Decrypted(k, cells, n) IN
         /\ s \in Seq([Offs -> Plain]) /\ Len(s) = n
         /\ \A i \in 1 .. n : s[i] = DecryptPage(k, cells[i - 1])
<1> DEFINE s == Decrypted(k, cells, n)
<1>1. ASSUME NEW i \in 1 .. n
      PROVE  DecryptPage(k, cells[i - 1]) \in [Offs -> Plain]
  <2>1. i - 1 \in Pages
    BY NumPagesAssumption DEF Pages
  <2>2. cells[i - 1] \in CellPage
    BY <2>1
  <2> QED
    BY <2>2, CellType DEF PlainPage
<1>2. n \in Nat
  BY NumPagesAssumption
<1>3. s \in [1 .. n -> [Offs -> Plain]]
  BY <1>1 DEF Decrypted
<1> HIDE DEF s
<1>4. s \in Seq([Offs -> Plain])
  BY <1>2, <1>3
<1>5. Len(s) = n
  BY <1>2, <1>3, <1>4
<1>6. \A i \in 1 .. n : s[i] = DecryptPage(k, cells[i - 1])
  BY Zenon DEF s, Decrypted
<1> QED
  BY Zenon, <1>4, <1>5, <1>6 DEF s

\* The file is a sequence of Count pages, before a step and after it.
LEMMA FileIs ==
  /\ TypeOK /\ CountInv =>
       /\ FilePages \in Seq([Offs -> Plain]) /\ Len(FilePages) = Count
       /\ \A i \in 1 .. Count : FilePages[i] = DecryptPage(key, lower[i - 1])
  /\ TypeOK' /\ CountInv' =>
       /\ FilePages' \in Seq([Offs -> Plain]) /\ Len(FilePages') = Count'
       /\ \A i \in 1 .. Count' :
            FilePages'[i] = DecryptPage(key', lower'[i - 1])
<1>1. ASSUME TypeOK, CountInv
      PROVE  /\ FilePages \in Seq([Offs -> Plain]) /\ Len(FilePages) = Count
             /\ \A i \in 1 .. Count : FilePages[i] = DecryptPage(key, lower[i - 1])
  <2>1. /\ key \in KeyOrNull /\ lower \in [Pages -> CellPage]
        /\ Count \in 0 .. NumPages
    BY Zenon, <1>1 DEF TypeOK, CountInv, KeyOrNull, CellPage
  <2>2. FilePages = Decrypted(key, lower, Count)
    BY DEF FilePages, Count, Decrypted
  <2> QED
    BY Zenon, <2>1, <2>2, SomePages
<1>2. ASSUME TypeOK', CountInv'
      PROVE  /\ FilePages' \in Seq([Offs -> Plain]) /\ Len(FilePages') = Count'
             /\ \A i \in 1 .. Count' :
                  FilePages'[i] = DecryptPage(key', lower'[i - 1])
  <2>1. /\ key' \in KeyOrNull /\ lower' \in [Pages -> CellPage]
        /\ Count' \in 0 .. NumPages
    BY Zenon, <1>2 DEF TypeOK, CountInv, KeyOrNull, CellPage
  <2>2. FilePages' = Decrypted(key', lower', Count')
    BY DEF FilePages, Count, Decrypted
  <2> QED
    BY Zenon, <2>1, <2>2, SomePages
<1> QED
  BY Zenon, <1>1, <1>2

\* Only one page may look different.
LEMMA BlurAt ==
  ASSUME TypeOK', NEW p \in Pages,
         \A q \in Pages \ {p} : PagesShown'[q + 1] = PagesShown[q + 1]
  PROVE  Abstract!Blur(p + 1)
<1>1. p + 1 \in 1 .. NumPages /\ (p + 1) - 1 = p
  BY Zenon, IndexOf
<1>2. PagesShown'[p + 1] \in [Offs -> Plain] \cup {NULL}
  BY <1>1 DEF PagesShown, TypeOK
<1>3. \A i \in 1 .. NumPages : i # p + 1 => PagesShown'[i] = PagesShown[i]
  <2>1. ASSUME NEW i \in 1 .. NumPages, i # p + 1
        PROVE  i - 1 \in Pages \ {p} /\ (i - 1) + 1 = i
    BY <2>1, NumPagesAssumption DEF Pages
  <2> QED
    BY <2>1
<1>4. PagesShown' = [PagesShown EXCEPT ![p + 1] = PagesShown'[p + 1]]
  BY Zenon, <1>1, <1>3 DEF PagesShown
<1> QED
  BY Zenon, <1>2, <1>4 DEF Abstract!Blur

\* What is shown of a page that keeps its flag, its contents and its place.
LEMMA ShownElsewhere ==
  ASSUME NEW q \in Pages, q < Count' <=> q < Count, Count \in Nat, Count' \in Nat,
         q \in uptodate' <=> q \in uptodate, data'[q] = data[q]
  PROVE  PagesShown'[q + 1] = PagesShown[q + 1]
<1>1. /\ q + 1 \in 1 .. NumPages /\ (q + 1) - 1 = q
      /\ q + 1 <= Count <=> q < Count
      /\ q + 1 <= Count' <=> q < Count'
  BY NumPagesAssumption DEF Pages
<1> QED
  BY Zenon, <1>1 DEF PagesShown, Count

\* The page a task writes, and the contents it gives it.
LEMMA WritingPage ==
  ASSUME TypeOK, WrittenIs, NEW t \in Tasks, pc[t] \in WritePcs,
         NEW p, p = req[t].p
  PROVE  /\ p \in Pages /\ p + 1 \in 1 .. NumPages
         /\ PagesWritten[p + 1] = Filled(req[t].v)
         /\ PagesWritten[p + 1] # NULL
<1>1. p \in Pages /\ req[t].v \in Plain
  BY DEF TypeOK, Request
<1>2. PagesWritten[p + 1] = Filled(req[t].v)
  BY Zenon, <1>1 DEF WrittenIs, Writes
<1>3. Filled(req[t].v) # NULL
  BY <1>1, NullAssumption DEF Filled
<1> QED
  BY <1>1, <1>2, <1>3, IndexOf

\* While nobody is between write_begin and write_end nothing is being written.
LEMMA NoWriter ==
  ASSUME TypeOK, WrittenIs, \A u \in Tasks : pc[u] \notin WritePcs
  PROVE  Abstract!Quiet
<1>1. \A p \in Pages : PagesWritten[p + 1] = NULL
  BY DEF WrittenIs, Writes
<1> QED
  BY <1>1, IndexOf DEF Abstract!Quiet, Abstract!Index

\* A step that starts or ends the write of one page, when no other is written.
LEMMA WrittenAt ==
  ASSUME WrittenIs, WrittenIs', NEW p \in Pages,
         \A u \in Tasks, q \in Pages \ {p} : ~ Writes(u, q) /\ ~ Writes(u, q)'
  PROVE  PagesWritten' = [PagesWritten EXCEPT ![p + 1] = PagesWritten'[p + 1]]
<1>1. \A q \in Pages \ {p} : PagesWritten'[q + 1] = PagesWritten[q + 1]
  BY DEF WrittenIs
<1>2. ASSUME NEW i \in 1 .. NumPages, i # p + 1
      PROVE  PagesWritten'[i] = PagesWritten[i]
  <2>1. i - 1 \in Pages \ {p} /\ (i - 1) + 1 = i
    BY <1>2, NumPagesAssumption DEF Pages
  <2> QED
    BY <1>1, <2>1
<1>3. /\ PagesWritten = [i \in 1 .. NumPages |-> PagesWritten[i]]
      /\ PagesWritten' = [i \in 1 .. NumPages |-> PagesWritten'[i]]
  BY DEF PagesWritten
<1>4. p + 1 \in 1 .. NumPages
  BY IndexOf
<1> QED
  BY Zenon, <1>2, <1>3, <1>4

\* write_begin announces the write.
LEMMA MapBegin ==
  ASSUME MapInv, MapInv', NEW t \in Tasks, WriteBeginPage(t)
  PROVE  Abstract!Next
<1>0. PICK p \in Pages : p = req[t].p
  BY DEF MapInv, TypeOK, Request
<1> DEFINE c == Filled(req[t].v)
<1>1. /\ pc[t] = "wr_page" /\ pc' = [pc EXCEPT ![t] = "wr_copy"]
      /\ UNCHANGED <<req, isize, key, lower>>
      /\ \A q \in Pages \ {p} : data'[q] = data[q]
      /\ uptodate' = uptodate \cup {p}
  BY Zenon, <1>0 DEF WriteBeginPage, Goto, lowerVars, MapInv, TypeOK
<1>2. \A u \in Tasks : pc[u] \notin WritePcs
  BY Zenon, <1>1 DEF MapInv, Exclusive, MutexPcs, WritePcs
<1>3. pc'[t] \in WritePcs /\ \A u \in Tasks \ {t} : pc'[u] = pc[u]
  BY Zenon, <1>1 DEF MapInv, TypeOK, WritePcs
<1>4. Abstract!Quiet
  BY Zenon, <1>2, NoWriter DEF MapInv
<1>5. PagesWritten' = [PagesWritten EXCEPT ![p + 1] = c]
  <2>1. PagesWritten'[p + 1] = Filled(req'[t].v)
    BY Zenon, <1>0, <1>1, <1>3 DEF MapInv, WrittenIs, Writes
  <2>2. \A u \in Tasks, q \in Pages \ {p} : ~ Writes(u, q) /\ ~ Writes(u, q)'
    BY Zenon, <1>0, <1>1, <1>2, <1>3 DEF Writes
  <2>3. PagesWritten' = [PagesWritten EXCEPT ![p + 1] = PagesWritten'[p + 1]]
    BY Zenon, <2>2, WrittenAt DEF MapInv
  <2> QED
    BY <1>1, <2>1, <2>3
<1>6. p + 1 <= Len(FilePages) + 1
  <2>1. Count \in 0 .. NumPages /\ isize = Count * PageSize /\ Pos(p, 0) <= isize
    BY Zenon, <1>0, <1>1 DEF MapInv, CountInv, CoherenceInv, ChunkInv, WriteCallPcs
  <2>2. p <= Count
    BY <2>1, PagesOf
  <2>3. Len(FilePages) = Count
    BY Zenon, FileIs DEF MapInv
  <2> QED
    BY <2>1, <2>2, <2>3 DEF Pages
<1>7. UNCHANGED FilePages
  BY Zenon, <1>1, FileSame DEF MapInv
<1>8. Abstract!Blur(p + 1)
  <2>1. \A q \in Pages \ {p} : PagesShown'[q + 1] = PagesShown[q + 1]
    BY <1>1, ShownElsewhere DEF MapInv, CountInv, Count
  <2> QED
    BY Zenon, <2>1, BlurAt DEF MapInv
<1>9. Abstract!BeginWrite(p + 1, c)
  BY Zenon, <1>4, <1>5, <1>6, <1>7, <1>8 DEF Abstract!BeginWrite
<1>10. c \in [Offs -> Plain] /\ p + 1 \in 1 .. NumPages
  BY Zenon, IndexOf DEF Filled, MapInv, TypeOK, Request
<1> QED
  BY Zenon, <1>9, <1>10 DEF Abstract!Next, Abstract!Index

\* The copy from user space only touches what is shown of the page.
LEMMA MapCopy ==
  ASSUME MapInv, MapInv', NEW t \in Tasks, CopyFromUser(t)
  PROVE  Abstract!Next
<1>0. PICK p \in Pages : p = req[t].p
  BY DEF MapInv, TypeOK, Request
<1>a. /\ pc \in [Tasks -> PCs] /\ req \in [Tasks -> Request]
      /\ data \in [Pages -> [Offs -> Plain]]
  BY Zenon DEF MapInv, TypeOK
<1>b. \A q \in Pages \ {p} : data'[q] = data[q]
  BY Zenon, <1>0, <1>a DEF CopyFromUser
<1>1. /\ pc[t] = "wr_copy" /\ pc'[t] = "we_key"
      /\ UNCHANGED <<isize, key, lower, uptodate>>
      /\ req'[t].p = req[t].p /\ req'[t].v = req[t].v
      /\ \A u \in Tasks \ {t} : pc'[u] = pc[u] /\ req'[u] = req[u]
  BY Zenon, <1>a, CopyKeeps
<1>2. pc[t] \in WritePcs /\ pc'[t] \in WritePcs
  BY Zenon, <1>1 DEF WritePcs
<1>3. UNCHANGED PagesWritten
  <2>1. \A u \in Tasks : /\ pc'[u] \in WritePcs <=> pc[u] \in WritePcs
                         /\ req'[u].p = req[u].p /\ req'[u].v = req[u].v
    BY Zenon, <1>1, <1>2 DEF MapInv, TypeOK
  <2> QED
    BY Zenon, <2>1, WrittenSame DEF MapInv
<1>4. UNCHANGED FilePages
  BY Zenon, <1>1, FileSame DEF MapInv
<1>5. Abstract!Blur(p + 1)
  <2>1. \A q \in Pages \ {p} : PagesShown'[q + 1] = PagesShown[q + 1]
    <3>1. Count \in 0 .. NumPages /\ Count' = Count
      BY Zenon, <1>1 DEF MapInv, CountInv, Count
    <3>2. Count \in Nat
      BY <3>1, NumPagesAssumption
    <3> QED
      BY Zenon, <1>1, <1>b, <3>1, <3>2, ShownElsewhere
  <2> QED
    BY <2>1, BlurAt DEF MapInv
<1>6. p + 1 \in 1 .. NumPages /\ PagesWritten[p + 1] # NULL
  BY Zenon, <1>0, <1>2, WritingPage DEF MapInv
<1> QED
  BY Zenon, <1>3, <1>4, <1>5, <1>6 DEF Abstract!Next, Abstract!Index, Abstract!Scribble

\* vfs_write in write_end makes the user's page the file's page, at the end of
\* the file a new one.
LEMMA MapStore ==
  ASSUME Orderly, MapInv, MapInv', NEW t \in Tasks, WriteEndLower(t)
  PROVE  Abstract!Next
<1>0. PICK p \in Pages : p = req[t].p
  BY Zenon DEF MapInv, TypeOK, Request
<1>a. key \in Keys \cup {NULL} /\ req[t].v \in Plain
  BY DEF MapInv, TypeOK, Request
<1> DEFINE c == Filled(req[t].v)
<1>1. /\ pc[t] = "we_write" /\ pc' = [pc EXCEPT ![t] = "we_tail"]
      /\ UNCHANGED <<req, key, uptodate, data>>
      /\ StoreLower(t, WriteSource(t), req[t].copied, TRUE)
  BY Zenon DEF WriteEndLower, Goto, cacheVars, Fails, Orderly
<1>2. /\ pc[t] \in WritePcs /\ pc'[t] = "we_tail" /\ pc'[t] \in WritePcs
      /\ pc[t] \in MutexPcs
  BY Zenon, <1>1 DEF MapInv, TypeOK, WritePcs, MutexPcs
<1>3. /\ lower' = WriteCells(lower, WriteSource(t), PageSize, Pos(p, 0))
      /\ isize = lsize /\ isize' = SizeAfter(isize, PageSize, Pos(p, 0))
      /\ Pos(p, 0) <= isize
  <2>1. req[t].copied = PageSize /\ Pos(p, 0) <= isize
    BY Zenon, <1>0, <1>1 DEF MapInv, CoherenceInv, ChunkInv, WriteCallPcs, WritePcs
  <2>2. isize = lsize
    BY Zenon, <1>1, <1>2 DEF MapInv, CountInv, Exclusive, MutexPcs
  <2> QED
    BY Zenon, <1>0, <1>1, <2>1, <2>2 DEF StoreLower, WriteOffset, Orderly
<1>4. /\ \A q \in Pages \ {p} : q < Count' <=> q < Count
      /\ p <= Count /\ Count' = IF p = Count THEN Count + 1 ELSE Count
      /\ p < Count'
  <2>1. /\ Count \in 0 .. NumPages /\ isize = Count * PageSize
        /\ Count' \in 0 .. NumPages /\ isize' = Count' * PageSize
    BY Zenon DEF MapInv, CountInv
  <2>2. p <= Count
    BY <1>3, <2>1, PagesOf
  <2>3. Pos(p, 0) + PageSize \in 0 .. MaxSize /\ MaxSize \in Nat /\ PageSize \in Nat \ {0}
    BY Zenon, WholePage
  <2>4. isize' = IF Pos(p, 0) + PageSize > isize THEN Pos(p, 0) + PageSize
                 ELSE isize
    BY <1>3, <2>3 DEF SizeAfter
  <2>5. CASE p = Count
    <3>1. Pos(p, 0) = isize /\ isize \in Nat
      BY <2>1, <2>3, <2>5 DEF Pos, Pages
    <3>2. isize' = Pos(p, 0) + PageSize
      BY <2>3, <2>4, <3>1
    <3>3. p + 1 \in 0 .. NumPages /\ Pos(p, 0) + PageSize = (p + 1) * PageSize
      BY <2>3, NumPagesAssumption DEF Pos, Pages
    <3>4. Count' = p + 1
      BY Zenon, <3>2, <3>3, PagesOf DEF Count
    <3> QED
      BY <2>1, <2>2, <2>5, <3>4 DEF Pages
  <2>6. CASE p < Count
    <3>1. Pos(p, 0) + PageSize <= isize
      BY Zenon, <2>1, <2>6, PagesOf
    <3>2. isize \in Nat
      BY <2>1, <2>3
    <3>3. isize' = isize
      <4>1. ~ (Pos(p, 0) + PageSize > isize)
        BY <2>3, <3>1, <3>2
      <4> QED
        BY Zenon, <2>4, <4>1
    <3> QED
      BY <2>1, <2>2, <2>6, <3>3 DEF Count, Pages
  <2> QED
    BY <2>1, <2>2, <2>5, <2>6 DEF Pages
<1>5. /\ DecryptPage(key', lower'[p]) = c
      /\ \A q \in Pages \ {p} :
           DecryptPage(key', lower'[q]) = DecryptPage(key, lower[q])
  <2>1. \A o \in Offs : lower'[p][o] = EncryptCell(key, o, req[t].v)
    <3>1. \A o \in Offs : lower'[req'[t].p][o] = EncryptCell(key', o, req'[t].v)
      BY Zenon, <1>2 DEF MapInv, CoherenceInv, DataInv, WriterInv
    <3> QED
      BY Zenon, <1>0, <1>1, <3>1
  <2>2. \A q \in Pages \ {p}, o \in Offs : lower'[q][o] = lower[q][o]
    BY <1>3, WholePageWrite
  <2>3. DecryptPage(key', lower'[p]) = c
    <3>1. ASSUME NEW o \in Offs
          PROVE  DecryptCell(key', o, lower'[p][o]) = req[t].v
      <4>1. lower'[p][o] = EncryptCell(key, o, req[t].v) /\ key' = key
        BY Zenon, <1>1, <2>1
      <4>2. DecryptCell(key, o, EncryptCell(key, o, req[t].v)) = req[t].v
        BY Zenon, <1>a, CellDecrypted
      <4> QED
        BY Zenon, <4>1, <4>2
    <3> QED
      BY Zenon, <3>1 DEF DecryptPage, Filled
  <2> QED
    BY <1>1, <2>2, <2>3 DEF DecryptPage
<1>6. /\ FilePages \in Seq([Offs -> Plain]) /\ Len(FilePages) = Count
      /\ \A i \in 1 .. Count : FilePages[i] = DecryptPage(key, lower[i - 1])
  BY Zenon, FileIs DEF MapInv
<1>7. /\ FilePages' \in Seq([Offs -> Plain]) /\ Len(FilePages') = Count'
      /\ \A i \in 1 .. Count' : FilePages'[i] = DecryptPage(key', lower'[i - 1])
  BY Zenon, FileIs DEF MapInv
<1>8. Count \in Nat /\ p \in Nat /\ c \in [Offs -> Plain]
  <2>1. Count \in 0 .. NumPages /\ req[t].v \in Plain
    BY Zenon DEF MapInv, CountInv, TypeOK, Request
  <2>2. Count \in Nat /\ p \in Nat
    BY <2>1, NumPagesAssumption DEF Pages
  <2>3. c \in [Offs -> Plain]
    BY Zenon, <2>1 DEF Filled
  <2> QED
    BY Zenon, <2>2, <2>3
<1>9. /\ FilePages'[p + 1] = c
      /\ \A i \in 1 .. Count : i # p + 1 => FilePages'[i] = FilePages[i]
  <2>1. p + 1 \in 1 .. Count' /\ (p + 1) - 1 = p
    BY <1>4, <1>8
  <2>2. ASSUME NEW i \in 1 .. Count, i # p + 1
        PROVE  i \in 1 .. Count' /\ i - 1 \in Pages \ {p}
    <3>1. Count \in 0 .. NumPages /\ Count \in Nat /\ p \in Nat
      BY Zenon, <1>8 DEF MapInv, CountInv
    <3>2. i \in 1 .. Count'
      BY <1>4, <2>2, <3>1
    <3>3. i - 1 \in Pages /\ i - 1 # p
      BY <2>2, <3>1, NumPagesAssumption DEF Pages
    <3> QED
      BY Zenon, <3>2, <3>3
  <2> QED
    BY Zenon, <1>5, <1>6, <1>7, <2>1, <2>2
<1> HIDE DEF c
<1>10. FilePages' = IF p + 1 > Len(FilePages) THEN Append(FilePages, c)
                    ELSE [FilePages EXCEPT ![p + 1] = c]
  <2>1. CASE p = Count
    <3>1. Append(FilePages, c) \in Seq([Offs -> Plain])
      BY <1>6, <1>8
    <3>2. Len(Append(FilePages, c)) = Count + 1 /\ Len(FilePages') = Count + 1
      BY <1>4, <1>6, <1>7, <1>8, <2>1
    <3>3. \A i \in 1 .. Count + 1 : Append(FilePages, c)[i] = FilePages'[i]
      BY <1>6, <1>8, <1>9, <2>1
    <3>4. FilePages' = Append(FilePages, c)
      BY <1>7, <1>8, <3>1, <3>2, <3>3
    <3> QED
      BY <1>6, <1>8, <2>1, <3>4
  <2>2. CASE p < Count
    <3> DEFINE s == [FilePages EXCEPT ![p + 1] = c]
    <3>1. s \in Seq([Offs -> Plain]) /\ Len(s) = Count /\ Len(FilePages') = Count
      BY <1>4, <1>6, <1>7, <1>8, <2>2
    <3>2. \A i \in 1 .. Count : s[i] = FilePages'[i]
      BY <1>6, <1>8, <1>9, <2>2
    <3> HIDE DEF s
    <3>3. FilePages' = s
      BY <1>7, <1>8, <3>1, <3>2
    <3> QED
      BY <1>6, <1>8, <2>2, <3>3 DEF s
  <2> QED
    BY Zenon, <1>4, <1>8, <2>1, <2>2
<1>11. UNCHANGED PagesWritten
  <2>1. \A u \in Tasks : pc'[u] \in WritePcs <=> pc[u] \in WritePcs
    BY Zenon, <1>1, <1>2 DEF MapInv, TypeOK
  <2> QED
    BY Zenon, <1>1, <2>1, WrittenSame DEF MapInv
<1>12. Abstract!Blur(p + 1)
  <2>1. Count \in Nat /\ Count' \in Nat
    BY DEF MapInv, CountInv
  <2>2. \A q \in Pages \ {p} : PagesShown'[q + 1] = PagesShown[q + 1]
    BY Zenon, <1>1, <1>4, <2>1, ShownElsewhere
  <2> QED
    BY Zenon, <2>2, BlurAt DEF MapInv
<1>13. /\ p + 1 \in 1 .. NumPages
       /\ PagesWritten[p + 1] # NULL /\ PagesWritten[p + 1] = c
  BY Zenon, <1>0, <1>2, WritingPage DEF MapInv, c
<1> QED
  BY Zenon, <1>10, <1>11, <1>12, <1>13
  DEF Abstract!Next, Abstract!Index, Abstract!Store

\* The end of write_end: the page in the cache and the page in the file are the
\* user's page, and nobody is writing any more.
LEMMA MapEnd ==
  ASSUME MapInv, MapInv', NEW t \in Tasks, WriteEndTail(t)
  PROVE  Abstract!Next
<1>0. PICK p \in Pages : p = req[t].p
  BY DEF MapInv, TypeOK, Request
<1>a. key \in Keys \cup {NULL} /\ req[t].v \in Plain
  BY DEF MapInv, TypeOK, Request
<1> DEFINE c == Filled(req[t].v)
<1>1. /\ pc[t] = "we_tail" /\ pc' = [pc EXCEPT ![t] = "we_size"]
      /\ UNCHANGED <<req, key, lower, isize, uptodate>>
      /\ data' = [data EXCEPT ![p] = FillZeros(@, p, req[t].from + req[t].copied)]
  BY Zenon, <1>0 DEF WriteEndTail, Goto, lowerVars
<1>2. pc[t] \in WritePcs /\ pc'[t] \notin WritePcs /\ pc[t] \in MutexPcs
  BY Zenon, <1>1 DEF MapInv, TypeOK, WritePcs, MutexPcs
<1>3. Count \in 0 .. NumPages /\ isize = Count * PageSize /\ p < Count
  <2>1. Count \in 0 .. NumPages /\ isize = Count * PageSize
    BY Zenon DEF MapInv, CountInv
  <2>2. Pos(p, 0) + PageSize <= isize
    BY Zenon, <1>0, <1>1 DEF MapInv, CoherenceInv, ChunkInv
  <2> QED
    BY Zenon, <2>1, <2>2, PagesOf
<1>4. UNCHANGED data
  <2>1. data \in [Pages -> [Offs -> Plain]]
    BY DEF MapInv, TypeOK
  <2>2. Count # p
    BY <1>3 DEF Pages
  <2>3. FillZeros(data[p], p, req[t].from + req[t].copied) = data[p]
    BY <2>2 DEF FillZeros, Count
  <2> QED
    BY Zenon, <1>1, <2>1, <2>3
<1>5. UNCHANGED FilePages
  BY Zenon, <1>1, FileSame DEF MapInv
<1>6. UNCHANGED PagesShown
  BY Zenon, <1>1, <1>4, ShownSame DEF MapInv
<1>7. /\ p + 1 \in 1 .. NumPages
      /\ PagesWritten[p + 1] # NULL /\ PagesWritten[p + 1] = c
  BY Zenon, <1>0, <1>2, WritingPage DEF MapInv
<1>8. p + 1 <= Len(FilePages) /\ FilePages[p + 1] = c
  <2>1. p + 1 \in 1 .. Count /\ (p + 1) - 1 = p /\ Count \in Nat
    BY <1>3 DEF Pages
  <2>2. Len(FilePages) = Count /\ FilePages[p + 1] = DecryptPage(key, lower[p])
    BY Zenon, <2>1, FileIs DEF MapInv
  <2>3. ASSUME NEW o \in Offs
        PROVE  DecryptCell(key, o, lower[p][o]) = req[t].v
    <3>1. lower[p][o] = EncryptCell(key, o, req[t].v)
      BY Zenon, <1>0, <1>1 DEF MapInv, CoherenceInv, DataInv, WriterInv
    <3>2. DecryptCell(key, o, EncryptCell(key, o, req[t].v)) = req[t].v
      BY Zenon, <1>a, CellDecrypted
    <3> QED
      BY Zenon, <3>1, <3>2
  <2>4. DecryptPage(key, lower[p]) = c
    BY <2>3 DEF DecryptPage, Filled
  <2> QED
    BY <2>1, <2>2, <2>4
<1>9. PagesShown[p + 1] \in {NULL, c}
  <2>1. \A o \in Offs : data[p][o] = req[t].v
    BY Zenon, <1>0, <1>1 DEF MapInv, CoherenceInv, DataInv, WriterInv
  <2>2. data[p] \in [Offs -> Plain]
    BY Zenon DEF MapInv, TypeOK
  <2>3. data[p] = c
    BY Zenon, <2>1, <2>2 DEF Filled
  <2> HIDE DEF c
  <2> QED
    BY Zenon, <1>7, <2>3, IndexOf DEF PagesShown
<1>10. PagesWritten' = [PagesWritten EXCEPT ![p + 1] = NULL]
  <2>1. \A u \in Tasks \ {t} : pc[u] \notin WritePcs /\ pc'[u] \notin WritePcs
    BY Zenon, <1>1, <1>2 DEF MapInv, TypeOK, Exclusive, MutexPcs
  <2>2. \A u \in Tasks, q \in Pages \ {p} : ~ Writes(u, q) /\ ~ Writes(u, q)'
    BY Zenon, <1>0, <1>1, <1>2, <2>1 DEF Writes
  <2>3. PagesWritten' = [PagesWritten EXCEPT ![p + 1] = PagesWritten'[p + 1]]
    BY <2>2, WrittenAt DEF MapInv
  <2>4. \A u \in Tasks : ~ Writes(u, p)'
    BY Zenon, <1>2, <2>1 DEF Writes
  <2>5. PagesWritten'[p + 1] = NULL
    BY Zenon, <2>4 DEF MapInv, WrittenIs
  <2> QED
    BY <2>3, <2>5
<1> HIDE DEF c
<1>11. Abstract!EndWrite(p + 1)
  BY Zenon, <1>5, <1>6, <1>7, <1>8, <1>9, <1>10 DEF Abstract!EndWrite
<1> QED
  BY Zenon, <1>7, <1>11 DEF Abstract!Next, Abstract!Index

\* truncate_setsize cuts the file, or leaves it when the size stays.
LEMMA MapTruncate ==
  ASSUME Orderly, MapInv, MapInv', NEW t \in Tasks, TruncUpper(t)
  PROVE  Abstract!Next \/ UNCHANGED Abstract!vars
<1>0. PICK n \in TruncSizes : n <= isize /\ isize' = n
  BY Zenon DEF TruncUpper, Orderly
<1>1. PICK m \in 0 .. NumPages : n = m * PageSize
  BY Zenon DEF Orderly
<1>2. /\ pc[t] = "tr_mutex" /\ imutex = NoTask
      /\ UNCHANGED <<req, key, lower, uptodate, data>>
      /\ \A u \in Tasks \ {t} : pc'[u] = pc[u]
      /\ pc'[t] \in {"tr_lower", "tr_pages"}
  BY DEF TruncUpper, lowerVars, cacheVars, MapInv, TypeOK
<1>3. \A u \in Tasks : pc[u] \notin WritePcs /\ pc'[u] \notin WritePcs
  <2>1. \A u \in Tasks : pc[u] \notin WritePcs
    BY Zenon, <1>2, MmapAssumption DEF MapInv, Exclusive, MutexPcs
  <2> QED
    BY Zenon, <1>2, <2>1 DEF WritePcs
<1>4. UNCHANGED PagesWritten
  BY Zenon, <1>3, WrittenSame DEF MapInv
<1>5. Count \in Nat /\ Count' = m /\ m <= Count /\ m \in Nat
  <2>1. Count \in 0 .. NumPages /\ isize = Count * PageSize
    BY Zenon DEF MapInv, CountInv
  <2>2. Count' = m
    BY Zenon, <1>0, <1>1, PagesOf DEF Count
  <2>3. PageSize \in Nat \ {0} /\ Count \in Nat /\ m \in Nat
    BY <2>1, ConstType
  <2>4. m * PageSize <= Count * PageSize
    BY Zenon, <1>0, <1>1, <2>1
  <2>5. ~ (m >= Count + 1)
    <3>1. SUFFICES ASSUME m >= Count + 1 PROVE FALSE
      BY Zenon
    <3> HIDE DEF Count
    <3>2. m * PageSize >= (Count + 1) * PageSize
      BY <2>3, <3>1
    <3>3. (Count + 1) * PageSize = Count * PageSize + PageSize
      BY <2>3
    <3> QED
      BY <2>3, <2>4, <3>2, <3>3
  <2> QED
    BY <2>2, <2>3, <2>5
<1>6. CASE m = Count
  <2>1. isize' = isize
    BY Zenon, <1>0, <1>1, <1>6 DEF MapInv, CountInv
  <2>2. UNCHANGED FilePages /\ UNCHANGED PagesShown
    BY Zenon, <1>2, <2>1, FileSame, ShownSame DEF MapInv
  <2> QED
    BY Zenon, <1>4, <2>2 DEF Abstract!vars
<1>7. CASE m < Count
  <2>1. /\ FilePages \in Seq([Offs -> Plain]) /\ Len(FilePages) = Count
        /\ \A i \in 1 .. Count : FilePages[i] = DecryptPage(key, lower[i - 1])
    BY Zenon, FileIs DEF MapInv
  <2>2. /\ FilePages' \in Seq([Offs -> Plain]) /\ Len(FilePages') = m
        /\ \A i \in 1 .. m : FilePages'[i] = DecryptPage(key', lower'[i - 1])
    BY Zenon, <1>5, FileIs DEF MapInv
  <2> DEFINE s == SubSeq(FilePages, 1, m)
  <2>3. s \in Seq([Offs -> Plain]) /\ Len(s) = m
    BY <1>5, <1>7, <2>1
  <2>4. \A i \in 1 .. m : s[i] = FilePages[i]
    BY <1>5, <1>7, <2>1
  <2>5. \A i \in 1 .. m : i \in 1 .. Count /\ FilePages'[i] = FilePages[i]
    <3>1. \A i \in 1 .. m : i \in 1 .. Count
      BY <1>5, <1>7
    <3> QED
      BY Zenon, <1>2, <2>1, <2>2, <3>1
  <2> HIDE DEF s
  <2>6. FilePages' = s
    <3>1. \A i \in 1 .. m : s[i] = FilePages'[i]
      BY Zenon, <2>4, <2>5
    <3> QED
      BY <1>5, <2>2, <2>3, <3>1
  <2>7. PagesShown' = [i \in 1 .. NumPages |->
                         IF i <= m THEN PagesShown[i] ELSE NULL]
    <3>1. ASSUME NEW i \in 1 .. NumPages
          PROVE  PagesShown'[i] = IF i <= m THEN PagesShown[i] ELSE NULL
      BY <1>2, <1>5, <1>7 DEF PagesShown, Count
    <3> QED
      BY Zenon, <3>1 DEF PagesShown
  <2>8. Abstract!Quiet
    BY Zenon, <1>3, NoWriter DEF MapInv
  <2>9. Abstract!Truncate(m)
    BY Zenon, <1>4, <1>7, <2>1, <2>6, <2>7, <2>8
    DEF Abstract!Truncate, Abstract!Index, s
  <2> QED
    BY <2>9 DEF Abstract!Next
<1> QED
  BY <1>5, <1>6, <1>7

\* readpage fetches the page as the file has it; past the end of the file, or
\* when the decryption reports an error, nothing is shown.
LEMMA MapFetch ==
  ASSUME Orderly, MapInv, MapInv', NEW t \in Tasks, ReadpageDone(t)
  PROVE  Abstract!Next \/ UNCHANGED Abstract!vars
<1>0. PICK p \in Pages : p = req[t].p
  BY DEF MapInv, TypeOK, Request
<1>1. /\ pc[t] = "rp_done" /\ pc' = [pc EXCEPT ![t] = "idle"]
      /\ req' = [req EXCEPT ![t] = NoRequest]
      /\ UNCHANGED <<key, lower, isize>>
      /\ \/ /\ data' = [data EXCEPT ![p] = DecryptPage(encKey[t], buf[t].cells)]
            /\ uptodate' = uptodate \cup {p}
         \/ uptodate' = uptodate \ {p} /\ UNCHANGED data
  BY Zenon, <1>0 DEF ReadpageDone, Return, lowerVars, Fails, Orderly
<1>2. pc[t] \notin WritePcs /\ pc'[t] \notin WritePcs /\ pc[t] \in ReadPcs
  BY Zenon, <1>1 DEF MapInv, TypeOK, WritePcs, ReadPcs
<1>3. UNCHANGED PagesWritten
  <2>1. \A u \in Tasks \ {t} : pc'[u] = pc[u] /\ req'[u] = req[u]
    BY Zenon, <1>1 DEF MapInv, TypeOK
  <2> QED
    BY Zenon, <1>2, <2>1, WrittenSame DEF MapInv
<1>4. UNCHANGED FilePages
  BY Zenon, <1>1, FileSame DEF MapInv
<1>5. p \notin uptodate
  BY Zenon, <1>0, <1>2 DEF MapInv, FlagInv
<1>6. Count \in 0 .. NumPages /\ isize = Count * PageSize /\ Count \in Nat
  BY NumPagesAssumption DEF MapInv, CountInv
<1>7. data \in [Pages -> [Offs -> Plain]] /\ p \in Nat
  BY DEF MapInv, TypeOK, Pages
<1>8. CASE uptodate' = uptodate \ {p} /\ UNCHANGED data
  <2>1. uptodate' = uptodate
    BY <1>5, <1>8
  <2>2. UNCHANGED PagesShown
    BY Zenon, <1>1, <1>8, <2>1, ShownSame DEF MapInv
  <2> QED
    BY Zenon, <1>3, <1>4, <2>2 DEF Abstract!vars
<1>9. ASSUME data' = [data EXCEPT ![p] = DecryptPage(encKey[t], buf[t].cells)],
             uptodate' = uptodate \cup {p}, ~ (p < Count)
      PROVE  UNCHANGED Abstract!vars
  <2>1. \A q \in Pages : q < Count => /\ q \in uptodate' <=> q \in uptodate
                                      /\ data'[q] = data[q]
    BY Zenon, <1>7, <1>9
  <2>2. UNCHANGED PagesShown
    BY Zenon, <1>1, <2>1, ShownSame DEF MapInv
  <2> QED
    BY <1>3, <1>4, <2>2 DEF Abstract!vars
<1>10. ASSUME data' = [data EXCEPT ![p] = DecryptPage(encKey[t], buf[t].cells)],
              uptodate' = uptodate \cup {p}, p < Count
       PROVE  Abstract!Next
  <2>1. p + 1 \in 1 .. Count /\ (p + 1) - 1 = p /\ p + 1 \in 1 .. NumPages
    <3>1. (p + 1) - 1 = p /\ p + 1 \in 1 .. NumPages
      BY Zenon, IndexOf
    <3>2. p < Count /\ Count \in Nat /\ p \in Nat
      BY Zenon, <1>6, <1>7, <1>10
    <3>3. p + 1 \in 1 .. Count
      BY <3>2
    <3> QED
      BY Zenon, <3>1, <3>3
  <2>2. Len(FilePages) = Count /\ FilePages[p + 1] = DecryptPage(key, lower[p])
    BY Zenon, <2>1, FileIs DEF MapInv
  <2>3. encKey[t] = key
    BY Zenon, <1>1 DEF MapInv, CoherenceInv, KeyInv
  <2>4. ASSUME NEW o \in Offs PROVE buf[t].cells[o] = lower[p][o]
    <3>1. Pos(p, o) < isize
      BY Zenon, <1>6, <1>10, PagesOf
    <3>2. Pos(p, o) < lsize
      BY <3>1, WithinLower DEF MapInv, CoherenceInv
    <3> QED
      BY Zenon, <1>0, <1>1, <3>2 DEF MapInv, CoherenceInv, DataInv, ReadInv
  <2>5. DecryptPage(encKey[t], buf[t].cells) = DecryptPage(key, lower[p])
    BY Zenon, <2>3, <2>4 DEF DecryptPage
  <2>6. data'[p] = FilePages[p + 1]
    BY Zenon, <1>7, <1>10, <2>2, <2>5
  <2>7. PagesShown'[p + 1] = FilePages[p + 1]
    <3>1. p \in uptodate' /\ p + 1 <= Count'
      <4>1. p \in uptodate' /\ Count' = Count
        BY Zenon, <1>1, <1>10 DEF Count
      <4>2. Count \in Nat
        BY Zenon, <1>6
      <4>3. p + 1 <= Count
        BY <2>1, <4>2
      <4> QED
        BY Zenon, <4>1, <4>3
    <3>2. PagesShown'[p + 1] = data'[p]
      BY Zenon, <2>1, <3>1 DEF PagesShown, Count
    <3> QED
      BY Zenon, <2>6, <3>2
  <2>8. \A q \in Pages \ {p} : PagesShown'[q + 1] = PagesShown[q + 1]
    <3>1. \A q \in Pages \ {p} :
            data'[q] = data[q] /\ (q \in uptodate' <=> q \in uptodate)
      BY Zenon, <1>7, <1>10
    <3>2. Count' = Count
      BY Zenon, <1>1 DEF Count
    <3> QED
      BY Zenon, <1>6, <3>1, <3>2, ShownElsewhere
  <2>9. PagesShown' = [PagesShown EXCEPT ![p + 1] = FilePages[p + 1]]
    <3>1. ASSUME NEW i \in 1 .. NumPages, i # p + 1
          PROVE  PagesShown'[i] = PagesShown[i]
      <4>1. i - 1 \in Pages \ {p} /\ (i - 1) + 1 = i
        BY <1>7, <3>1, NumPagesAssumption DEF Pages
      <4> QED
        BY Zenon, <2>8, <4>1
    <3>2. /\ PagesShown = [i \in 1 .. NumPages |-> PagesShown[i]]
          /\ PagesShown' = [i \in 1 .. NumPages |-> PagesShown'[i]]
      BY Zenon DEF PagesShown
    <3> QED
      BY Zenon, <2>1, <2>7, <3>1, <3>2
  <2>10. PagesWritten[p + 1] = NULL
    <3>1. \A u \in Tasks : ~ Writes(u, p)
      BY Zenon, <1>5 DEF Writes, MapInv, FlagInv
    <3> QED
      BY Zenon, <3>1 DEF MapInv, WrittenIs
  <2>11. Abstract!Fetch(p + 1)
    BY <1>3, <1>4, <2>1, <2>2, <2>9, <2>10 DEF Abstract!Fetch
  <2> QED
    BY Zenon, <2>1, <2>11 DEF Abstract!Next, Abstract!Index
<1> QED
  BY Zenon, <1>1, <1>8, <1>9, <1>10

\* A step that starts or ends no write and leaves the key, the lower file, the
\* size and the contents of the cache is no step of the file.
LEMMA MapSame ==
  ASSUME MapInv, MapInv', UNCHANGED <<key, lower, isize, uptodate, data>>,
         \A u \in Tasks :
           /\ pc'[u] \in WritePcs <=> pc[u] \in WritePcs
           /\ pc[u] \in WritePcs =>
                req'[u].p = req[u].p /\ req'[u].v = req[u].v
  PROVE  UNCHANGED Abstract!vars
<1>1. UNCHANGED PagesWritten
  BY Zenon, WrittenSame DEF MapInv
<1>2. UNCHANGED FilePages
  BY Zenon, FileSame DEF MapInv
<1>3. UNCHANGED PagesShown
  BY Zenon, ShownSame DEF MapInv
<1> QED
  BY <1>1, <1>2, <1>3 DEF Abstract!vars

\* Pages that leave the cache are no longer shown.
LEMMA MapForget ==
  ASSUME MapInv, MapInv', NEW P \in SUBSET Pages, Drop(P),
         UNCHANGED <<key, lower, isize, pc, req>>
  PROVE  Abstract!Next
<1>1. UNCHANGED PagesWritten
  BY Zenon, WrittenSame DEF MapInv
<1>2. UNCHANGED FilePages
  BY Zenon, FileSame DEF MapInv
<1> DEFINE S == {i \in 1 .. NumPages : i - 1 \in P}
<1>3. ASSUME NEW i \in 1 .. NumPages
      PROVE  PagesShown'[i] = IF i \in S THEN NULL ELSE PagesShown[i]
  <2>1. i - 1 \in Pages
    BY Zenon, IndexOf
  <2> QED
    BY Zenon, <2>1 DEF PagesShown, Drop
<1>4. PagesShown' = [i \in 1 .. NumPages |->
                       IF i \in S THEN NULL ELSE PagesShown[i]]
  BY Zenon, <1>3 DEF PagesShown
<1>5. S \in SUBSET (1 .. NumPages)
  BY Zenon
<1>6. Abstract!Forget(S)
  BY Zenon, <1>1, <1>2, <1>4 DEF Abstract!Forget, Abstract!Index
<1> QED
  BY <1>5, <1>6 DEF Abstract!Next, Abstract!Index

\* The ioctl changes no file: the first key is set while the file is empty, and
\* there is no other.
LEMMA MapKey ==
  ASSUME Orderly, MapInv, MapInv', SetKey \/ ClearKey
  PROVE  UNCHANGED Abstract!vars
<1>1. PICK k \in Keys : StoreKey(k)
  BY Zenon DEF SetKey, ClearKey, Orderly
<1>2. key' = k /\ UNCHANGED <<lower, isize, uptodate, data, pc, req>>
  BY Zenon, <1>1 DEF StoreKey, lowerVars, cacheVars
<1>3. UNCHANGED PagesWritten
  BY Zenon, <1>2, WrittenSame DEF MapInv
<1>4. UNCHANGED PagesShown
  BY Zenon, <1>2, ShownSame DEF MapInv
<1>5. UNCHANGED FilePages
  <2>1. CASE key = NULL
    <3>1. lsize = 0 /\ isize <= lsize /\ isize \in Nat
      <4>1. /\ lsize = 0 /\ isize <= lsize /\ isize \in 0 .. MaxSize
            /\ MaxSize \in Nat
        BY Zenon, <2>1, ConstType DEF MapInv, CoherenceInv, DataInv, StoreInv,
                                      LengthInv, TypeOK
      <4> QED
        BY <4>1
    <3>2. isize = 0 * PageSize /\ 0 \in 0 .. NumPages
      BY <3>1, ConstType, NumPagesAssumption
    <3>3. Count = 0
      BY Zenon, <3>2, PagesOf DEF Count
    <3>4. \A p \in Pages : ~ (p < Count)
      BY <3>3 DEF Pages
    <3> QED
      BY <1>2, <3>4, FileSame DEF MapInv
  <2>2. CASE key # NULL
    <3>1. key' = key
      BY Zenon, <1>2, <2>2 DEF Orderly, MapInv, TypeOK
    <3> QED
      BY Zenon, <1>2, <3>1, FileSame DEF MapInv
  <2> QED
    BY Zenon, <2>1, <2>2
<1> QED
  BY Zenon, <1>3, <1>4, <1>5 DEF Abstract!vars

\* The rest of a truncation, the pages and the lower file past the new end,
\* does not show.
LEMMA MapCut ==
  ASSUME "lower_setattr" \notin Faults, MapInv, MapInv', NEW t \in Tasks,
         TruncPage(t) \/ TruncLower(t)
  PROVE  UNCHANGED Abstract!vars
<1>1. Count \in 0 .. NumPages /\ isize = Count * PageSize /\ UNCHANGED <<isize, key>>
  BY DEF MapInv, CountInv, TruncPage, TruncLower
<1>2. UNCHANGED PagesWritten
  <2>1. /\ pc[t] \in {"tr_pages", "tr_lower"}
        /\ pc'[t] \in {"tr_pages", "tr_lower", "idle"}
        /\ \A u \in Tasks \ {t} : pc'[u] = pc[u] /\ req'[u] = req[u]
    BY Zenon DEF TruncPage, TruncLower, WriteReturn, Return, MapInv, TypeOK
  <2>2. pc[t] \notin WritePcs /\ pc'[t] \notin WritePcs
    BY Zenon, <2>1 DEF WritePcs
  <2> QED
    BY Zenon, <2>1, <2>2, WrittenSame DEF MapInv
<1>3. CASE TruncPage(t)
  <2>1. PICK i \in todo[t] :
          IF Pos(i, 0) >= isize THEN Drop({i})
          ELSE /\ data' = IF i \notin cached THEN data
                          ELSE [data EXCEPT ![i] = [o \in Offs |->
                                  IF Pos(i, o) < isize THEN @[o] ELSE Zero]]
               /\ UNCHANGED <<cached, uptodate, dirty>>
    BY Zenon, <1>3 DEF TruncPage
  <2>2. i \in Pages /\ isize <= Pos(i, 0)
    BY Zenon, <1>3 DEF TruncPage, MapInv, TypeOK, CoherenceInv, LengthInv
  <2>3. isize \in Nat /\ Pos(i, 0) \in Nat
    BY <2>2, WholePage DEF MapInv, TypeOK
  <2>4. Drop({i})
    BY Zenon, <2>1, <2>2, <2>3
  <2>5. ~ (i < Count)
    <3>1. ~ (Pos(i, 0) < isize) /\ 0 \in Offs
      BY <2>2, <2>3, ConstType
    <3> QED
      BY Zenon, <1>1, <2>2, <3>1, PagesOf
  <2>6. \A p \in Pages : p < Count => /\ p \in uptodate' <=> p \in uptodate
                                      /\ data'[p] = data[p]
    BY Zenon, <2>4, <2>5 DEF Drop
  <2>7. UNCHANGED PagesShown
    BY Zenon, <1>1, <2>6, ShownSame DEF MapInv
  <2>8. UNCHANGED lower
    BY <1>3 DEF TruncPage, lowerVars
  <2>9. UNCHANGED FilePages
    BY Zenon, <1>1, <2>8, FileSame DEF MapInv
  <2> QED
    BY <1>2, <2>7, <2>9 DEF Abstract!vars
<1>4. CASE TruncLower(t)
  <2>1. lower' = TruncateCells(lower, isize) /\ UNCHANGED <<uptodate, data>>
    BY Zenon, <1>4 DEF TruncLower, Fails, cacheVars
  <2>2. \A p \in Pages, o \in Offs : p < Count => lower'[p][o] = lower[p][o]
    BY Zenon, <1>1, <2>1, PagesOf DEF TruncateCells
  <2>3. UNCHANGED FilePages
    BY Zenon, <1>1, <2>2, FileSame DEF MapInv
  <2>4. UNCHANGED PagesShown
    BY Zenon, <1>1, <2>1, ShownSame DEF MapInv
  <2> QED
    BY Zenon, <1>2, <2>3, <2>4 DEF Abstract!vars
<1> QED
  BY Zenon, <1>3, <1>4

-----------------------------------------------------------------------------
(***************************************************************************)
(* The refinement.                                                         *)
(***************************************************************************)

\* A freshly mounted, empty file is an empty file.
LEMMA MapInit == Init => CountInv /\ Abstract!Init
<1> SUFFICES ASSUME Init PROVE CountInv /\ Abstract!Init
  BY Zenon
<1>1. isize = 0 /\ lsize = 0 /\ uptodate = {} /\ pc = [t \in Tasks |-> "idle"]
  BY Zenon DEF Init
<1>2. isize = 0 * PageSize /\ 0 \in 0 .. NumPages
  BY <1>1, ConstType, NumPagesAssumption
<1>3. Count = 0
  BY Zenon, <1>2, PagesOf DEF Count
<1>4. CountInv
  BY Zenon, <1>1, <1>2, <1>3 DEF CountInv
<1>5. FilePages = << >>
  BY <1>3 DEF FilePages, Count
<1>6. \A p \in Pages : Writers(p) = {}
  BY Zenon, <1>1 DEF Writers, WritePcs
<1>7. PagesWritten = [i \in 1 .. NumPages |-> NULL]
  BY Zenon, <1>6, IndexOf DEF PagesWritten
<1>8. PagesShown = [i \in 1 .. NumPages |-> NULL]
  BY Zenon, <1>1 DEF PagesShown
<1> QED
  BY Zenon, <1>4, <1>5, <1>7, <1>8 DEF Abstract!Init, Abstract!Index

\* One step of the data path is one step of the plain file, or none.
LEMMA MapNext ==
  ASSUME Orderly, "lower_setattr" \notin Faults, MapInv, MapInv', [Next]_vars
  PROVE  [Abstract!Next]_(Abstract!vars)
<1>0. pc \in [Tasks -> PCs] /\ req \in [Tasks -> Request]
  BY Zenon DEF MapInv, TypeOK
<1>1. CASE SetKey \/ ClearKey
  BY <1>1, MapKey
<1>2. CASE UNCHANGED vars \/ \E p \in Pages : Writeback(p)
  BY Zenon, <1>2, MapSame DEF vars, Writeback, lowerVars, cacheVars
<1>3. ASSUME NEW p \in Pages, Reclaim(p) PROVE Abstract!Next
  BY Zenon, <1>3, MapForget DEF Reclaim, lowerVars
<1>4. CASE Evict
  <2>1. isize' = isize
    BY Zenon, <1>4 DEF Evict, MapInv, CountInv
  <2> QED
    BY Zenon, <1>4, <2>1, MapForget DEF Evict, lowerVars
<1>5. ASSUME NEW t \in Tasks, UNCHANGED <<key, lower, isize, uptodate, data>>,
             pc[t] \notin WritePcs, pc'[t] \notin WritePcs,
             \A u \in Tasks \ {t} : pc'[u] = pc[u] /\ req'[u] = req[u]
      PROVE  UNCHANGED Abstract!vars
  BY Zenon, <1>5, MapSame
<1>6. ASSUME NEW t \in Tasks, StartCall(t) PROVE UNCHANGED Abstract!vars
  BY Zenon, <1>0, <1>5, <1>6 DEF StartCall, ReadStart, WriteStart, TruncStart, Call,
                          Goto, lowerVars, cacheVars, WritePcs
<1>7. ASSUME NEW t \in Tasks, ReadStep(t)
      PROVE  Abstract!Next \/ UNCHANGED Abstract!vars
  <2>1. CASE ReadpageDone(t)
    BY Zenon, <2>1, MapFetch
  <2>2. CASE ReadHit(t) \/ ReadpageNoKey(t)
    BY Zenon, <1>0, <1>5, <2>2 DEF ReadHit, ReadpageNoKey, Return, lowerVars,
                            cacheVars, WritePcs
  <2>3. CASE \/ ReadMiss(t) \/ ReadpageKey(t) \/ ReadpageSeek(t)
             \/ ReadpageRead(t)
    BY Zenon, <1>0, <1>5, <2>3 DEF ReadMiss, ReadpageKey, ReadpageSeek, ReadpageRead,
                            Goto, lowerVars, cacheVars, WritePcs
  <2>4. ~ ReadpageNoPage(t)
    BY Zenon DEF ReadpageNoPage, Fails, Orderly
  <2> QED
    BY Zenon, <1>7, <2>1, <2>2, <2>3, <2>4 DEF ReadStep
<1>8. ASSUME NEW t \in Tasks, WriteStep(t)
      PROVE  Abstract!Next \/ UNCHANGED Abstract!vars
  <2>1. CASE WriteBeginPage(t)
    BY Zenon, <2>1, MapBegin
  <2>2. CASE CopyFromUser(t)
    BY Zenon, <2>2, MapCopy
  <2>3. CASE WriteEndLower(t)
    BY <2>3, MapStore
  <2>4. CASE WriteEndTail(t)
    BY <2>4, MapEnd
  <2>5. CASE WriteLock(t) \/ WriteBeginKey(t)
    BY Zenon, <1>0, <1>5, <2>5 DEF WriteLock, WriteBeginKey, Goto, lowerVars,
                            cacheVars, WritePcs
  <2>6. CASE WriteTooBig(t) \/ WriteBeginNoKey(t) \/ WriteBeginNoPage(t)
    BY Zenon, <1>0, <1>5, <2>6 DEF WriteTooBig, WriteBeginNoKey, WriteBeginNoPage,
                            WriteReturn, Return, lowerVars, cacheVars, WritePcs
  <2>7. CASE WriteEndKey(t)
    <3>1. pc[t] \in WritePcs /\ pc'[t] \in WritePcs
      BY Zenon, <1>0, <2>7 DEF WriteEndKey, Goto, WritePcs
    <3>2. /\ \A u \in Tasks \ {t} : pc'[u] = pc[u]
          /\ UNCHANGED <<req, key, lower, isize, uptodate, data>>
      BY Zenon, <1>0, <2>7 DEF WriteEndKey, Goto, lowerVars, cacheVars
    <3> QED
      BY Zenon, <3>1, <3>2, MapSame
  <2>8. CASE WriteEndSize(t)
    <3>1. isize' = isize
      BY Zenon, <2>8, SizeStays DEF MapInv, CoherenceInv
    <3>2. /\ pc[t] \notin WritePcs /\ pc'[t] \notin WritePcs
          /\ \A u \in Tasks \ {t} : pc'[u] = pc[u] /\ req'[u] = req[u]
      BY Zenon, <1>0, <2>8 DEF WriteEndSize, WriteReturn, Return, WritePcs
    <3>3. UNCHANGED <<key, lower, uptodate, data>>
      BY <2>8 DEF WriteEndSize, lowerVars, cacheVars
    <3> QED
      BY Zenon, <1>5, <3>1, <3>2, <3>3
  <2>9. ~ WriteEndNoPage(t)
    BY Zenon DEF WriteEndNoPage, Fails, Orderly
  <2> QED
    BY Zenon, <1>8, <2>1, <2>2, <2>3, <2>4, <2>5, <2>6, <2>7, <2>8, <2>9 DEF WriteStep
<1>9. ASSUME NEW t \in Tasks, TruncStep(t)
      PROVE  Abstract!Next \/ UNCHANGED Abstract!vars
  BY Zenon, <1>9, MapTruncate, MapCut DEF TruncStep
<1> QED
  BY Zenon, <1>1, <1>2, <1>3, <1>4, <1>6, <1>7, <1>8, <1>9 DEF Next, Continue

\* Under orderly use and while the lower file system follows every truncation,
\* what users see of the page cache over the encrypted lower file is a plain
\* file of pages: a write takes effect in the vfs_write of write_end and a
\* truncation in truncate_setsize, each in one step, and readpage, writepage,
\* reclaim, eviction and the key ioctl change nothing users can tell.
THEOREM ImplementsPlainFile ==
  ASSUME Orderly, "lower_setattr" \notin Faults
  PROVE  Spec => ImplementsPageFile
<1>1. TypeOK /\ Exclusive /\ CoherenceInv /\ CountInv /\ [Next]_vars => CountInv'
  BY Zenon, CountInvNext
<1>2. Init => CountInv /\ Abstract!Init
  BY MapInit
<1>3. TypeOK /\ Exclusive /\ CoherenceInv => WrittenIs
  BY WrittenHolds DEF CoherenceInv
<1>4. TypeOK /\ Exclusive /\ FlagInv /\ CoherenceInv /\ CountInv /\ WrittenIs
        => MapInv
  BY DEF MapInv
<1>5. MapInv /\ MapInv' /\ [Next]_vars => [Abstract!Next]_(Abstract!vars)
  BY MapNext
<1> QED
  BY <1>1, <1>2, <1>3, <1>4, <1>5, TypeCorrect, ExclusiveAccess,
     FlagsInvariant, CoherenceInvariant, PTL
  DEF Spec, ImplementsPageFile, Abstract!Spec
=============================================================================
