----------------------------- MODULE WrapfsMmap -----------------------------
(***************************************************************************)
(* The data path of a wrapfs mount made with "-o mmap": the address-space  *)
(* operations of mmap.c (readpage, writepage, write_begin, write_end), the *)
(* key ioctl of file.c, the size change of inode.c and the eviction of     *)
(* super.c, for one regular file, under concurrent tasks, page reclaim,    *)
(* writeback, key changes and failing allocations and I/O.                 *)
(*                                                                         *)
(* The VFS code that calls these operations (generic_file_aio_read and     *)
(* _write, truncate_inode_pages, page reclaim) is external and modelled as *)
(* the wrapfs code depends on it: a page lock, the inode's i_mutex around  *)
(* writes and size changes, PageUptodate tested without the page lock.     *)
(* A read that finds an up-to-date page copies from it without changing    *)
(* any state modelled here.                                                *)
(***************************************************************************)
EXTENDS LowerFile, FiniteSets

CONSTANTS
  Tasks, NoTask,
  Files,         \* open struct files of the inode, each with a lower_file
  Opens,         \* the files each task holds a descriptor for
  AppendFiles,   \* the files opened with O_APPEND
  WriteShapes,   \* the <<from, len>> page chunks users write
  TruncSizes,    \* the sizes users truncate the file to
  Allow,         \* further freedom of the users, see UserFreedom
  Faults,        \* the calls that may fail, see FaultKinds
  MaxOps, MaxFaults, MaxKeyOps   \* bounds on calls, failures, key changes

\* "sparse": writes may start past the end of the file; "grow": truncate may
\* extend it; "keyless": reads are tried before a key is set; "clear": the
\* key is cleared again.
UserFreedom == {"sparse", "grow", "keyless", "clear"}

FaultKinds == {"grab_page", "dst_page", "cipher", "cipher_err",
               "lower_read", "lower_write", "lower_setattr", "short_copy"}

ASSUME MmapAssumption ==
  /\ NoTask \notin Tasks
  /\ NULL \notin Files
  /\ Opens \in [Tasks -> SUBSET Files]
  /\ AppendFiles \subseteq Files
  /\ WriteShapes \subseteq {s \in Offs \X (1 .. PageSize) :
                              s[1] + s[2] <= PageSize}
  /\ TruncSizes \subseteq 0 .. MaxSize
  /\ Allow \subseteq UserFreedom
  /\ Faults \subseteq FaultKinds
  /\ MaxOps \in Nat /\ MaxFaults \in Nat /\ MaxKeyOps \in Nat

VARIABLES
  key,        \* WRAPFS_SB(sb)->keyVal
  lower,      \* contents of the lower file
  lsize,      \* i_size of the lower inode
  isize,      \* i_size of the wrapfs inode
  cached,     \* pages in the wrapfs inode's page cache
  uptodate,   \* pages with PageUptodate set
  dirty,      \* pages with PageDirty set
  data,       \* contents of the cached pages
  plock,      \* the task that locked each page
  imutex,     \* the task that holds the inode's i_mutex
  fpos,       \* lower_file->f_pos of each open file
  pc, req,    \* where each task is, and the call it is making
  encKey,     \* the encKey local of readpage and write_end
  buf,        \* dst_page of a readpage, and the f_pos vfs_read leaves
  todo,       \* pages truncate_inode_pages has still to visit
  opsLeft, faultsLeft, keysLeft

cacheVars  == <<cached, uptodate, dirty, data>>
lowerVars  == <<lower, lsize>>
localVars  == <<encKey, buf, todo>>
boundVars  == <<opsLeft, faultsLeft, keysLeft>>
vars == <<key, lowerVars, isize, cacheVars, plock, imutex, fpos, pc, req,
          localVars, boundVars>>

-----------------------------------------------------------------------------
ReadPcs  == {"rp_key", "rp_seek", "rp_read", "rp_done"}
WritePcs == {"wr_copy", "we_key", "we_write", "we_tail"}
MutexPcs == WritePcs \cup {"wr_begin", "wr_page", "we_size", "tr_pages",
                           "tr_lower"}
PCs == ReadPcs \cup MutexPcs \cup {"idle", "rd_find", "wr_mutex",
                                   "tr_mutex", "dead"}

Request == {r \in [f : Files \cup {NULL}, p : Pages, from : 0 .. PageSize,
                   len : 0 .. PageSize, v : Plain, copied : 0 .. PageSize] :
              r.from + r.len <= PageSize /\ r.copied <= r.len}
NewRequest(f, p, from, len, v, n) ==
  [f |-> f, p |-> p, from |-> from, len |-> len, v |-> v, copied |-> n]
NoRequest == NewRequest(NULL, 0, 0, 0, Zero, 0)
Buffer   == [cells : [Offs -> Cell], next : 0 .. MaxSize]
NoBuffer == [cells |-> UnwrittenCells, next |-> 0]

Init ==
  /\ key = NULL                       \* wrapfs_mount clears the key
  /\ lower = EmptyFile /\ lsize = 0 /\ isize = 0
  /\ cached = {} /\ uptodate = {} /\ dirty = {}
  /\ data = [p \in Pages |-> Uninitialised]
  /\ plock = [p \in Pages |-> NoTask]
  /\ imutex = NoTask
  /\ fpos = [f \in Files |-> 0]
  /\ pc = [t \in Tasks |-> "idle"]
  /\ req = [t \in Tasks |-> NoRequest]
  /\ encKey = [t \in Tasks |-> NULL]
  /\ buf = [t \in Tasks |-> NoBuffer]
  /\ todo = [t \in Tasks |-> {}]
  /\ opsLeft = MaxOps /\ faultsLeft = MaxFaults /\ keysLeft = MaxKeyOps

-----------------------------------------------------------------------------
(***************************************************************************)
(* Shared steps.                                                           *)
(***************************************************************************)
Goto(t, from, to) == pc[t] = from /\ pc' = [pc EXCEPT ![t] = to]

\* The call a task makes is over; its locals are gone.
Return(t, to) ==
  /\ pc' = [pc EXCEPT ![t] = to]
  /\ req' = [req EXCEPT ![t] = NoRequest]
  /\ encKey' = [encKey EXCEPT ![t] = NULL]
  /\ buf' = [buf EXCEPT ![t] = NoBuffer]
  /\ UNCHANGED todo

\* Faulty form: the page is taken without waiting for its lock.
LockWithoutWaiting(t, p) == plock' = [plock EXCEPT ![p] = t]

Lock(t, p)  == plock[p] = NoTask /\ plock' = [plock EXCEPT ![p] = t]
Unlock(p)   == plock' = [plock EXCEPT ![p] = NoTask]

Fails(x) == /\ x \in Faults /\ faultsLeft > 0
            /\ faultsLeft' = faultsLeft - 1
            /\ UNCHANGED <<opsLeft, keysLeft>>
NoFailure == UNCHANGED boundVars

Call(t, to) == /\ opsLeft > 0 /\ opsLeft' = opsLeft - 1
               /\ Goto(t, "idle", to)
               /\ UNCHANGED <<faultsLeft, keysLeft>>

\* A page leaves the page cache.
Drop(P) ==
  /\ cached' = cached \ P
  /\ uptodate' = uptodate \ P
  /\ dirty' = dirty \ P
  /\ data' = [p \in Pages |-> IF p \in P THEN Uninitialised ELSE data[p]]

-----------------------------------------------------------------------------
(***************************************************************************)
(* The key: wrapfs_unlocked_ioctl with WRAPFS_SETEKEY.  The handler takes  *)
(* no lock; its only lasting effect is the store of a freshly allocated    *)
(* digest, or of NULL for the key "0".  It returns early, or returns 0     *)
(* with the key unchanged, when an allocation, the copy from user space or *)
(* the MD5 computation fails.  No digest is ever freed, so a pointer read  *)
(* by an operation in flight stays valid.                                  *)
(***************************************************************************)
StoreKey(k) ==
  /\ keysLeft > 0 /\ keysLeft' = keysLeft - 1
  /\ key' = k
  /\ UNCHANGED <<lowerVars, isize, cacheVars, plock, imutex, fpos, pc, req,
                 localVars, opsLeft, faultsLeft>>

SetKey == \E k \in Keys : StoreKey(k)
ClearKey == "clear" \in Allow /\ StoreKey(NULL)

-----------------------------------------------------------------------------
(***************************************************************************)
(* Reading: do_generic_file_read and wrapfs_readpage.                      *)
(***************************************************************************)
ReadStart(t) ==
  /\ Call(t, "rd_find")
  /\ "keyless" \in Allow \/ key # NULL
  /\ \E f \in Opens[t], p \in Pages :
       req' = [req EXCEPT ![t] = NewRequest(f, p, 0, 0, Zero, 0)]
  /\ UNCHANGED <<key, lowerVars, isize, cacheVars, plock, imutex, fpos,
                 localVars>>

\* The page is up to date: the reader copies from it without locking it.
ReadHit(t) ==
  /\ pc[t] = "rd_find"
  /\ req[t].p \in uptodate
  /\ Return(t, "idle")
  /\ UNCHANGED <<key, lowerVars, isize, cacheVars, plock, imutex, fpos,
                 boundVars>>

\* The page is missing or not up to date: lock it and call readpage.
ReadMiss(t) ==
  LET p == req[t].p IN
  /\ Goto(t, "rd_find", "rp_key")
  /\ p \notin uptodate
  /\ Lock(t, p)
  /\ cached' = cached \cup {p}
  /\ UNCHANGED <<key, lowerVars, isize, uptodate, dirty, data, imutex, fpos,
                 req, localVars, boundVars>>

\* Without a key readpage returns -EPERM at once; the page stays locked.
ReadpageNoKey(t) ==
  /\ pc[t] = "rp_key"
  /\ key = NULL
  /\ Return(t, "idle")
  /\ UNCHANGED <<key, lowerVars, isize, cacheVars, plock, imutex, fpos,
                 boundVars>>

ReadpageKey(t) ==
  /\ Goto(t, "rp_key", "rp_seek")
  /\ key # NULL
  /\ encKey' = [encKey EXCEPT ![t] = key]
  /\ UNCHANGED <<key, lowerVars, isize, cacheVars, plock, imutex, fpos, req,
                 buf, todo, boundVars>>

\* Faulty form: the error path returns before unlock_page.
ReadpageNoPageKeepsLock(t) ==
  /\ pc[t] = "rp_key"
  /\ key # NULL
  /\ Fails("dst_page")
  /\ uptodate' = uptodate \ {req[t].p}
  /\ Return(t, "dead")
  /\ UNCHANGED <<key, lowerVars, isize, cached, dirty, data, plock, imutex,
                 fpos>>

\* alloc_page fails: the page is unlocked, then kunmap(dst_page) follows the
\* null pointer (the build has CONFIG_HIGHMEM) and the task is killed.
ReadpageNoPage(t) ==
  LET p == req[t].p IN
  /\ pc[t] = "rp_key"
  /\ key # NULL
  /\ Fails("dst_page")
  /\ uptodate' = uptodate \ {p}
  /\ Unlock(p)
  /\ Return(t, "dead")
  /\ UNCHANGED <<key, lowerVars, isize, cached, dirty, data, imutex, fpos>>

\* Faulty form: the read starts wherever the last one ended.
ReadpageSeekMissing(t) ==
  /\ Goto(t, "rp_seek", "rp_read")
  /\ UNCHANGED <<key, lowerVars, isize, cacheVars, plock, imutex, fpos, req,
                 localVars, boundVars>>

\* lower_file->f_pos = page_offset(page), a field all users of the file share.
ReadpageSeek(t) ==
  /\ Goto(t, "rp_seek", "rp_read")
  /\ fpos' = [fpos EXCEPT ![req[t].f] = Pos(req[t].p, 0)]
  /\ UNCHANGED <<key, lowerVars, isize, cacheVars, plock, imutex, req,
                 localVars, boundVars>>

\* vfs_read(lower_file, dst_virt, PAGE_CACHE_SIZE, &lower_file->f_pos): the
\* position is loaded here and stored back when the read is over.
ReadpageRead(t) ==
  LET at == fpos[req[t].f] IN
  /\ Goto(t, "rp_read", "rp_done")
  /\ \/ /\ NoFailure
        /\ buf' = [buf EXCEPT ![t] =
                     [cells |-> ReadCells(lower, lsize, at),
                      next  |-> at + ReadCount(lsize, at)]]
     \/ /\ Fails("lower_read")
        /\ buf' = [buf EXCEPT ![t] = [cells |-> UnwrittenCells, next |-> at]]
  /\ UNCHANGED <<key, lowerVars, isize, cacheVars, plock, imutex, fpos, req,
                 encKey, todo>>

\* The result of vfs_read is overwritten by that of the decryption, which is
\* 0 also when the transform could not be allocated ("cipher").
ReadpageDone(t) ==
  LET p == req[t].p IN
  /\ pc[t] = "rp_done"
  /\ fpos' = [fpos EXCEPT ![req[t].f] = buf[t].next]
  /\ \/ /\ NoFailure
        /\ data' = [data EXCEPT ![p] = DecryptPage(encKey[t], buf[t].cells)]
        /\ uptodate' = uptodate \cup {p}
     \/ /\ Fails("cipher")
        /\ uptodate' = uptodate \cup {p}
        /\ UNCHANGED data
     \/ /\ Fails("cipher_err")
        /\ uptodate' = uptodate \ {p}
        /\ UNCHANGED data
  /\ Unlock(p)
  /\ Return(t, "idle")
  /\ UNCHANGED <<key, lowerVars, isize, cached, dirty, imutex>>

-----------------------------------------------------------------------------
(***************************************************************************)
(* Writing: generic_file_aio_write holds the i_mutex around the loop of    *)
(* generic_perform_write; each round is one chunk of one page.             *)
(***************************************************************************)
WriteStart(t) ==
  /\ WriteShapes # {}
  /\ Call(t, "wr_mutex")
  /\ \E f \in Opens[t] :
       req' = [req EXCEPT ![t] = NewRequest(f, 0, 0, 0, Zero, 0)]
  /\ UNCHANGED <<key, lowerVars, isize, cacheVars, plock, imutex, fpos,
                 localVars>>

\* The chunk <<p, from>> a write to file f may start at.
ChunkAllowed(f, p, from) ==
  IF f \in AppendFiles THEN Pos(p, from) = isize
  ELSE "sparse" \in Allow \/ Pos(p, from) <= isize

\* The i_mutex is taken; generic_write_checks moves an appending write to
\* the end of the file.
WriteLock(t) ==
  /\ Goto(t, "wr_mutex", "wr_begin")
  /\ imutex = NoTask /\ imutex' = t
  /\ \E s \in WriteShapes, p \in Pages, v \in Data :
       /\ ChunkAllowed(req[t].f, p, s[1])
       /\ req' = [req EXCEPT ![t] =
                    NewRequest(req[t].f, p, s[1], s[2], v, 0)]
  /\ UNCHANGED <<key, lowerVars, isize, cacheVars, plock, fpos, localVars,
                 boundVars>>

\* generic_write_checks gives up: no room for the write (-EFBIG).
WriteTooBig(t) ==
  /\ pc[t] = "wr_mutex"
  /\ imutex = NoTask
  /\ \A s \in WriteShapes, p \in Pages : ~ ChunkAllowed(req[t].f, p, s[1])
  /\ Return(t, "idle")
  /\ UNCHANGED <<key, lowerVars, isize, cacheVars, plock, imutex, fpos,
                 boundVars>>

\* The write is over, done or failed: the i_mutex is released.
WriteReturn(t) == imutex' = NoTask /\ Return(t, "idle")

\* wrapfs_write_begin refuses to write without a key.
WriteBeginNoKey(t) ==
  /\ pc[t] = "wr_begin"
  /\ key = NULL
  /\ WriteReturn(t)
  /\ UNCHANGED <<key, lowerVars, isize, cacheVars, plock, fpos, boundVars>>

\* Faulty form: write_begin does not look at the key.
WriteBeginAnyKey(t) ==
  /\ Goto(t, "wr_begin", "wr_page")
  /\ UNCHANGED <<key, lowerVars, isize, cacheVars, plock, imutex, fpos, req,
                 localVars, boundVars>>

WriteBeginKey(t) ==
  /\ Goto(t, "wr_begin", "wr_page")
  /\ key # NULL
  /\ UNCHANGED <<key, lowerVars, isize, cacheVars, plock, imutex, fpos, req,
                 localVars, boundVars>>

\* grab_cache_page_write_begin returns NULL: -ENOMEM.
WriteBeginNoPage(t) ==
  /\ pc[t] = "wr_page"
  /\ Fails("grab_page")
  /\ WriteReturn(t)
  /\ UNCHANGED <<key, lowerVars, isize, cacheVars, plock, fpos>>

\* zero_user_segments(page, 0, from, from + len, PAGE_CACHE_SIZE), done for a
\* page that is not up to date unless the whole page is about to be written.
\* The page is not read from the lower file first.
ZeroAround(page, from, len) ==
  IF len = PageSize THEN page
  ELSE [o \in Offs |-> IF from <= o /\ o < from + len THEN page[o] ELSE Zero]

\* Faulty form: SetPageUptodate is missing.
WriteBeginPageNotUptodate(t) ==
  LET r == req[t] IN
  /\ Goto(t, "wr_page", "wr_copy")
  /\ Lock(t, r.p)
  /\ cached' = cached \cup {r.p}
  /\ data' = IF r.p \in uptodate THEN data
             ELSE [data EXCEPT ![r.p] = ZeroAround(@, r.from, r.len)]
  /\ UNCHANGED <<key, lowerVars, isize, uptodate, dirty, imutex, fpos, req,
                 localVars, boundVars>>

\* The page is found or created, locked, and marked up to date before the
\* user's data is in it.
WriteBeginPage(t) ==
  LET r == req[t] IN
  /\ Goto(t, "wr_page", "wr_copy")
  /\ Lock(t, r.p)
  /\ cached' = cached \cup {r.p}
  /\ data' = IF r.p \in uptodate THEN data
             ELSE [data EXCEPT ![r.p] = ZeroAround(@, r.from, r.len)]
  /\ uptodate' = uptodate \cup {r.p}
  /\ UNCHANGED <<key, lowerVars, isize, dirty, imutex, fpos, req, localVars,
                 boundVars>>

\* iov_iter_copy_from_user_atomic copies the chunk, or less of it when the
\* user's page is not resident.
CopyFromUser(t) ==
  LET r == req[t] IN
  /\ Goto(t, "wr_copy", "we_key")
  /\ \E n \in 0 .. r.len :
       /\ \/ n = r.len /\ NoFailure
          \/ n < r.len /\ Fails("short_copy")
       /\ data' = [data EXCEPT ![r.p] =
                     [o \in Offs |-> IF r.from <= o /\ o < r.from + n
                                     THEN r.v ELSE @[o]]]
       /\ req' = [req EXCEPT ![t] =
                    NewRequest(r.f, r.p, r.from, r.len, r.v, n)]
  /\ UNCHANGED <<key, lowerVars, isize, cached, uptodate, dirty, plock,
                 imutex, fpos, localVars>>

-----------------------------------------------------------------------------
(***************************************************************************)
(* wrapfs_write_end.                                                       *)
(***************************************************************************)
WriteEndKey(t) ==
  /\ Goto(t, "we_key", "we_write")
  /\ encKey' = [encKey EXCEPT ![t] = key]
  /\ UNCHANGED <<key, lowerVars, isize, cacheVars, plock, imutex, fpos, req,
                 buf, todo, boundVars>>

\* alloc_page fails: as in readpage the task dies in kunmap, after the page
\* is unlocked but with the i_mutex held.
WriteEndNoPage(t) ==
  /\ pc[t] = "we_key"
  /\ key # NULL
  /\ Fails("dst_page")
  /\ Unlock(req[t].p)
  /\ Return(t, "dead")
  /\ UNCHANGED <<key, lowerVars, isize, cacheVars, imutex, fpos>>

\* The buffer write_end hands to vfs_write: the encrypted page, or the
\* chunk itself when the key read at the start of write_end is NULL.
WriteSource(t) ==
  LET r == req[t] IN
  IF encKey[t] # NULL THEN EncryptPage(encKey[t], data[r.p])
  ELSE [o \in Offs |-> Raw(IF r.from + o < PageSize THEN data[r.p][r.from + o]
                           ELSE Junk)]

\* Faulty form: the prefix of the encrypted page is written at the chunk's
\* position in the file.
WriteOffsetAtChunk(t) == Pos(req[t].p, req[t].from)

\* Where vfs_write puts it: offset is the start of the page, whatever part
\* of the page was written; a lower file opened with O_APPEND ignores it.
WriteOffset(t) ==
  IF req[t].f \in AppendFiles THEN lsize ELSE Pos(req[t].p, 0)

\* Faulty form: the size becomes the end of what was just written.
StoreLowerSetsEnd(t, src, n, ok) ==
  /\ lower' = WriteCells(lower, src, n, WriteOffset(t))
  /\ lsize' = SizeAfter(lsize, n, WriteOffset(t))
  /\ isize' = IF ok THEN WriteOffset(t) + n ELSE isize

\* vfs_write stores n cells of src.  Unless it fails the lower size becomes
\* the size of the wrapfs inode.
StoreLower(t, src, n, ok) ==
  /\ lower' = WriteCells(lower, src, n, WriteOffset(t))
  /\ lsize' = SizeAfter(lsize, n, WriteOffset(t))
  /\ isize' = IF ok THEN lsize' ELSE isize

\* The result of the encryption is ignored, so a failure stores the
\* uninitialised dst_page; an error or a short count of vfs_write is lost.
WriteEndLower(t) ==
  /\ Goto(t, "we_write", "we_tail")
  /\ \/ /\ NoFailure
        /\ StoreLower(t, WriteSource(t), req[t].copied, TRUE)
     \/ /\ Fails("cipher")
        /\ encKey[t] # NULL
        /\ StoreLower(t, UnwrittenCells, req[t].copied, TRUE)
     \/ /\ Fails("lower_write")
        /\ \E n \in 0 .. req[t].copied :
             /\ n < req[t].copied
             /\ StoreLower(t, WriteSource(t), n, n > 0)
  /\ UNCHANGED <<key, cacheVars, plock, imutex, fpos, req, localVars>>

\* fill_zeros_to_end_of_page(page, to).
FillZeros(page, p, to) ==
  LET end == isize % PageSize IN
  IF isize \div PageSize # p THEN page
  ELSE [o \in Offs |-> IF o >= end /\ o >= to THEN Zero ELSE page[o]]

\* Faulty form: unlock_page is missing.
WriteEndTailKeepsLock(t) ==
  LET r == req[t] IN
  /\ Goto(t, "we_tail", "we_size")
  /\ data' = [data EXCEPT ![r.p] = FillZeros(@, r.p, r.from + r.copied)]
  /\ dirty' = dirty \cup {r.p}
  /\ UNCHANGED <<key, lowerVars, isize, cached, uptodate, plock, imutex,
                 fpos, req, localVars, boundVars>>

\* fill_zeros_to_end_of_page, set_page_dirty, unlock_page.
WriteEndTail(t) ==
  LET r == req[t] IN
  /\ Goto(t, "we_tail", "we_size")
  /\ data' = [data EXCEPT ![r.p] = FillZeros(@, r.p, r.from + r.copied)]
  /\ dirty' = dirty \cup {r.p}
  /\ Unlock(r.p)
  /\ UNCHANGED <<key, lowerVars, isize, cached, uptodate, imutex, fpos, req,
                 localVars, boundVars>>

\* Faulty form: the size counts one cell too many.
GrownSizePlusOne(size, end) == IF end >= size THEN end + 1 ELSE size

\* i_size_write when the chunk ends past the current size.
GrownSize(size, end) == IF end > size THEN end ELSE size

\* The size is brought up to date; generic_perform_write then returns, or
\* goes on with the part of the chunk that was not copied.
WriteEndSize(t) ==
  LET r == req[t] IN
  /\ pc[t] = "we_size"
  /\ isize' = GrownSize(isize, Pos(r.p, r.from + r.copied))
  /\ \/ r.copied = r.len /\ WriteReturn(t)
     \/ /\ r.copied < r.len
        /\ pc' = [pc EXCEPT ![t] = "wr_begin"]
        /\ req' = [req EXCEPT ![t] =
                     NewRequest(r.f, r.p, r.from + r.copied,
                                r.len - r.copied, r.v, 0)]
        /\ encKey' = [encKey EXCEPT ![t] = NULL]
        /\ UNCHANGED <<imutex, buf, todo>>
  /\ UNCHANGED <<key, lowerVars, cacheVars, plock, fpos, boundVars>>

-----------------------------------------------------------------------------
(***************************************************************************)
(* Changing the size: do_truncate holds the i_mutex around wrapfs_setattr. *)
(***************************************************************************)
TruncStart(t) ==
  /\ TruncSizes # {}
  /\ Call(t, "tr_mutex")
  /\ UNCHANGED <<key, lowerVars, isize, cacheVars, plock, imutex, fpos, req,
                 localVars>>

\* The pages truncate_inode_pages visits for a new size.
TruncPages(size) == {i \in Pages : i >= size \div PageSize}

\* truncate_setsize stores the new size, then drops the pages past it.
TruncUpper(t) ==
  /\ pc[t] = "tr_mutex"
  /\ imutex = NoTask /\ imutex' = t
  /\ \E n \in TruncSizes :
       /\ "grow" \in Allow \/ n <= isize
       /\ isize' = n
       /\ todo' = [todo EXCEPT ![t] = TruncPages(n)]
       /\ pc' = [pc EXCEPT ![t] =
                   IF TruncPages(n) = {} THEN "tr_lower" ELSE "tr_pages"]
  /\ UNCHANGED <<key, lowerVars, cacheVars, plock, fpos, req, encKey, buf,
                 boundVars>>

\* One page is locked and removed, or its cells past the new end are zeroed.
TruncPage(t) ==
  /\ pc[t] = "tr_pages"
  /\ \E i \in todo[t] :
       /\ plock[i] = NoTask
       /\ IF Pos(i, 0) >= isize
          THEN Drop({i})
          ELSE /\ data' = IF i \notin cached THEN data
                          ELSE [data EXCEPT ![i] = [o \in Offs |->
                                  IF Pos(i, o) < isize THEN @[o] ELSE Zero]]
               /\ UNCHANGED <<cached, uptodate, dirty>>
       /\ todo' = [todo EXCEPT ![t] = @ \ {i}]
       /\ pc' = [pc EXCEPT ![t] =
                   IF todo[t] = {i} THEN "tr_lower" ELSE "tr_pages"]
  /\ UNCHANGED <<key, lowerVars, isize, plock, imutex, fpos, req, encKey, buf,
                 boundVars>>

\* Faulty form: the lower file is not truncated.
TruncLowerSkipped(t) ==
  /\ pc[t] = "tr_lower"
  /\ NoFailure
  /\ WriteReturn(t)
  /\ UNCHANGED <<key, lowerVars, isize, cacheVars, plock, fpos>>

\* notify_change on the lower dentry; a failure leaves the upper size as set.
TruncLower(t) ==
  /\ pc[t] = "tr_lower"
  /\ \/ /\ NoFailure
        /\ lower' = TruncateCells(lower, isize)
        /\ lsize' = isize
     \/ Fails("lower_setattr") /\ UNCHANGED lowerVars
  /\ WriteReturn(t)
  /\ UNCHANGED <<key, isize, cacheVars, plock, fpos>>

-----------------------------------------------------------------------------
(***************************************************************************)
(* The memory manager and the end of the inode's life.                     *)
(***************************************************************************)
\* The flusher clears the dirty bit and calls wrapfs_writepage with the page
\* locked.  The test of lower_inode lacks a negation: it always holds, and
\* the page is unlocked without having been written.
Writeback(p) ==
  /\ p \in dirty
  /\ plock[p] = NoTask
  /\ dirty' = dirty \ {p}
  /\ UNCHANGED <<key, lowerVars, isize, cached, uptodate, data, plock, imutex,
                 fpos, pc, req, localVars, boundVars>>

\* write_end keeps its reference to the page until it returns.
Pinned(p) == \E t \in Tasks : pc[t] = "we_size" /\ req[t].p = p

Reclaim(p) ==
  /\ p \in cached \ dirty
  /\ plock[p] = NoTask
  /\ ~ Pinned(p)
  /\ Drop({p})
  /\ UNCHANGED <<key, lowerVars, isize, plock, imutex, fpos, pc, req,
                 localVars, boundVars>>

\* The last reference to the inode is dropped.  drop_inode is
\* generic_delete_inode and wrapfs_evict_inode truncates the page cache, so
\* dirty pages are discarded; the next lookup and open of the file start from
\* the lower inode's size and a fresh lower file and i_mutex.
Evict ==
  /\ \A t \in Tasks : pc[t] \in {"idle", "dead"}
  /\ \A p \in Pages : plock[p] = NoTask
  /\ Drop(Pages)
  /\ isize' = lsize
  /\ imutex' = NoTask
  /\ fpos' = [f \in Files |-> 0]
  /\ UNCHANGED <<key, lowerVars, plock, pc, req, localVars, boundVars>>

-----------------------------------------------------------------------------
StartCall(t) == ReadStart(t) \/ WriteStart(t) \/ TruncStart(t)

ReadStep(t) ==
  \/ ReadHit(t) \/ ReadMiss(t)
  \/ ReadpageNoKey(t) \/ ReadpageKey(t) \/ ReadpageNoPage(t)
  \/ ReadpageSeek(t) \/ ReadpageRead(t) \/ ReadpageDone(t)

WriteStep(t) ==
  \/ WriteLock(t) \/ WriteTooBig(t)
  \/ WriteBeginNoKey(t) \/ WriteBeginKey(t)
  \/ WriteBeginNoPage(t) \/ WriteBeginPage(t)
  \/ CopyFromUser(t)
  \/ WriteEndKey(t) \/ WriteEndNoPage(t)
  \/ WriteEndLower(t) \/ WriteEndTail(t) \/ WriteEndSize(t)

TruncStep(t) == TruncUpper(t) \/ TruncPage(t) \/ TruncLower(t)

\* A task goes on with the call it is in.
Continue(t) == ReadStep(t) \/ WriteStep(t) \/ TruncStep(t)

Next ==
  \/ SetKey \/ ClearKey
  \/ \E t \in Tasks : StartCall(t) \/ Continue(t)
  \/ \E p \in Pages : Writeback(p) \/ Reclaim(p)
  \/ Evict

Spec == Init /\ [][Next]_vars

\* The scheduler runs every runnable task; nobody is obliged to make calls,
\* write back, reclaim or evict.
FairSpec == Spec /\ \A t \in Tasks : WF_vars(Continue(t))

-----------------------------------------------------------------------------
(***************************************************************************)
(* Properties.                                                             *)
(***************************************************************************)

\* Every variable has its type: sizes and positions stay within the file,
\* a chunk within its page.
TypeOK ==
  /\ key \in Keys \cup {NULL}
  /\ lower \in [Pages -> [Offs -> Cell]]
  /\ lsize \in 0 .. MaxSize /\ isize \in 0 .. MaxSize
  /\ cached \subseteq Pages /\ uptodate \subseteq Pages /\ dirty \subseteq Pages
  /\ data \in [Pages -> [Offs -> Plain]]
  /\ plock \in [Pages -> Tasks \cup {NoTask}]
  /\ imutex \in Tasks \cup {NoTask}
  /\ fpos \in [Files -> 0 .. MaxSize]
  /\ pc \in [Tasks -> PCs]
  /\ req \in [Tasks -> Request]
  /\ encKey \in [Tasks -> Keys \cup {NULL}]
  /\ buf \in [Tasks -> Buffer]
  /\ todo \in [Tasks -> SUBSET Pages]
  /\ opsLeft \in Nat /\ faultsLeft \in Nat /\ keysLeft \in Nat

\* "Readpage expects a locked page, and must unlock it" (mmap.c): a page is
\* locked only while some task is inside readpage, write_begin or write_end
\* for that very page; no return or error path leaves a lock behind.
LockOwnerActive ==
  \A p \in Pages : plock[p] # NoTask =>
    /\ pc[plock[p]] \in ReadPcs \cup WritePcs
    /\ req[plock[p]].p = p

\* Every encrypted cell of the lower file lies at the in-page offset whose
\* keystream it was encrypted with, so its key can decrypt it: write_end
\* writes whole prefixes of the encrypted page at the page's start.
KeystreamAligned ==
  \A p \in Pages, o \in Offs : lower[p][o].k # NULL => lower[p][o].o = o

\* User data is in the lower file only in encrypted form.
NoClearText ==
  \A p \in Pages, o \in Offs : lower[p][o].k = NULL => lower[p][o].v \notin Data

\* wrapfs_writepage asserts BUG_ON(!PageUptodate(page)) on every dirty page:
\* a failed readpage never clears the flag of a page with data to write, and
\* the flags are those of cached pages.
DirtyIsUptodate == dirty \subseteq uptodate /\ uptodate \subseteq cached

\* Whenever no write or size change is in progress the wrapfs inode is at
\* least as long as the lower one, so no stored data is cut off from reads.
LowerNotLonger == imutex = NoTask => lsize <= isize

\* A page that is up to date and that nobody has locked shows, up to the end
\* of the file, what decrypting the lower file with the current key gives.
CacheCoherent ==
  \A p \in uptodate, o \in Offs :
    plock[p] = NoTask /\ Pos(p, o) < isize =>
      data[p][o] = DecryptCell(key, o, lower[p][o])

\* A reader who trusts PageUptodate meets an uninitialised or wrongly
\* decrypted cell only while write_begin's caller is still filling the page.
JunkOnlyMidCopy ==
  \A p \in uptodate, o \in Offs :
    data[p][o] = Junk /\ Pos(p, o) < isize =>
      plock[p] # NoTask /\ pc[plock[p]] = "wr_copy"

\* Readpage reads from its own page: between the store of f_pos and the
\* vfs_read that loads it nobody else moves the position.
ReadsOwnPage ==
  \A t \in Tasks : pc[t] = "rp_read" => fpos[req[t].f] = Pos(req[t].p, 0)

\* When write_end has called vfs_write, the chunk it was called for is in the
\* lower file, encrypted at its place.
ChunkOnDisk ==
  \A t \in Tasks : pc[t] = "we_tail" =>
    LET r == req[t] IN
    \A o \in r.from .. r.from + r.copied - 1 :
      lower[r.p][o] = EncryptCell(encKey[t], o, data[r.p][o])

\* Writeback cleans a page only when the lower file has its contents.
WritebackStores ==
  [][\A p \in dirty \ dirty' : p \in cached' =>
       \A o \in Offs : Pos(p, o) < isize =>
         data[p][o] = DecryptCell(key, o, lower'[p][o])]_vars

\* A task inside readpage, write_begin or write_end holds the lock of its
\* page, and a task inside a write or a size change holds the i_mutex: no
\* page is filled, encrypted or zeroed by two tasks at a time.
Exclusive ==
  \A t \in Tasks :
    /\ pc[t] \in ReadPcs \cup WritePcs => plock[req[t].p] = t
    /\ pc[t] \in MutexPcs => imutex = t

\* Whatever fails and whenever the key is missing, a lock that is left behind
\* is left on a page that was being read in: it hides no cached contents.
LostLockHidesNothing ==
  \A p \in uptodate :
    plock[p] # NoTask => pc[plock[p]] \in WritePcs /\ req[plock[p]].p = p

\* Only a truncation or a new incarnation of the inode makes the file
\* shorter; a write never does.
WriteNeverShrinks ==
  [][isize' < isize => \/ \E t \in Tasks : pc[t] = "tr_mutex" /\ pc'[t] # pc[t]
                       \/ cached' = {} /\ isize' = lsize]_vars

\* Every read, write and truncate returns, or ends its task where alloc_page
\* fails: no order of page locks, i_mutex and failures leaves a caller waiting
\* for ever, except on the i_mutex that a task killed in write_end holds.
CallsReturn ==
  \A t \in Tasks : pc[t] # "idle" ~>
    \/ pc[t] \in {"idle", "dead"}
    \/ imutex # NoTask /\ pc[imutex] = "dead"

=============================================================================
