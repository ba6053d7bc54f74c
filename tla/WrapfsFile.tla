------------------------------ MODULE WrapfsFile ------------------------------
(***************************************************************************)
(* A regular file of a mount without -o mmap: wrapfs_main_fops (file.c)    *)
(* pass open, write, fsync, mmap and release on to the lower file,         *)
(* wrapfs_setattr (inode.c) truncates both inodes, and wrapfs_fault        *)
(* (mmap.c) maps pages of the lower page cache.  The upper page cache is   *)
(* empty; the upper inode has a size of its own, which is the one stat and *)
(* lseek see.                                                              *)
(*                                                                         *)
(* External: the lower inode's size, page cache and disk; page tables.  A  *)
(* mapping is listed under the upper inode, so truncating the upper inode  *)
(* finds its page table entries, and truncating or writing back the lower  *)
(* one does not.  An entry becomes writable and dirty on the first store,  *)
(* which dirties the page; later stores go unnoticed until it is unmapped. *)
(* Sizes are in pages, a page is one value.                                *)
(***************************************************************************)
EXTENDS Integers, FiniteSets

CONSTANTS
  Tasks, NULL,
  Files,               \* open files (struct file), shared by processes
  Vmas,                \* mappings, each in a process of its own
  NumPages,            \* bound on the size of the file
  FirstSize,           \* its size when the inode is looked up
  Values, Zero,        \* contents of a page; Zero is a page of zeros
  Ops,                 \* the calls users make
  Faults,              \* the calls that may fail
  MaxOps, MaxFaults    \* bounds on calls and failures

AllOps == {"open", "close", "write", "truncate", "fsync", "mmap", "munmap",
           "touch", "link", "unlink"}
AllFaults == {"file_info", "lower_open", "lower_write", "lower_truncate",
              "lower_mmap", "lower_link"}

ASSUME FileAssumption ==
  /\ NumPages \in Nat \ {0} /\ MaxOps \in Nat /\ MaxFaults \in Nat
  /\ FirstSize \in 0 .. NumPages
  /\ NULL \notin Tasks \cup Files \cup Vmas
  /\ Ops \subseteq AllOps /\ Faults \subseteq AllFaults

Pages == 1 .. NumPages

VARIABLES
  hashed,        \* the dentry has not been unlinked
  file,          \* the open files
  vma,           \* the mappings
  pte,           \* their page table entries
  isize, lsize,  \* size of the upper and of the lower inode
  mem, disk,     \* lower page cache and lower disk
  dirty,         \* lower pages that are dirty
  wb,            \* what each lower page has held since its write-back began;
                 \* empty: none is under way
  imutex, lmutex,\* the i_mutex of the upper and of the lower inode
  pc, call,      \* where each task is, and the arguments and locals of its call
  opsLeft, faultsLeft,
  since,         \* history: pages changed, or dirtied by the end of a mapping,
                 \* since a task's fsync began
  mixed,         \* history: tasks whose call met another that sets the size
  sure           \* history: the last call that set the size met no other

lower   == <<lsize, mem, disk, dirty, wb>>
maps    == <<vma, pte>>
history == <<since, mixed, sure>>
bounds  == <<opsLeft, faultsLeft>>
vars == <<hashed, file, maps, isize, lower, imutex, lmutex, pc, call, bounds,
          history>>

-----------------------------------------------------------------------------
\* lower: the lower file; ops: lower_vm_ops has been saved; fd: some process
\* has a descriptor.
File == [open : BOOLEAN, fd : BOOLEAN, lower : BOOLEAN, ops : BOOLEAN]
Closed == [open |-> FALSE, fd |-> FALSE, lower |-> FALSE, ops |-> FALSE]
Call == [file : Files \cup {NULL}, vma : Vmas \cup {NULL}, page : 0 .. NumPages,
         size : 0 .. NumPages, saved : BOOLEAN, write : BOOLEAN,
         todo : SUBSET Pages]
NoCall == [file |-> NULL, vma |-> NULL, page |-> 0, size |-> 0, saved |-> FALSE,
           write |-> FALSE, todo |-> {}]

PCs == {"idle", "w_lower", "w_load", "w_store", "t_upper", "t_lock", "t_lower",
        "n_make", "m_save", "f_lower", "bug", "s_write", "s_wait"}

\* "stale": the entry maps a page that has been cut off the lower file.
PTEs == {"none", "clean", "dirty", "stale"}
NoPages == [p \in Pages |-> "none"]

Init ==
  /\ hashed = TRUE
  /\ file = [f \in Files |-> Closed]
  /\ vma = [v \in Vmas |-> NULL]
  /\ pte = [v \in Vmas |-> NoPages]
  /\ isize = FirstSize /\ lsize = FirstSize
  /\ mem = [p \in Pages |-> Zero] /\ disk = [p \in Pages |-> Zero]
  /\ dirty = {} /\ wb = [p \in Pages |-> {}]
  /\ imutex = NULL /\ lmutex = NULL
  /\ pc = [t \in Tasks |-> "idle"] /\ call = [t \in Tasks |-> NoCall]
  /\ opsLeft = MaxOps /\ faultsLeft = MaxFaults
  /\ since = [t \in Tasks |-> {}] /\ mixed = {} /\ sure = TRUE

Op(o) == o \in Ops /\ opsLeft > 0 /\ opsLeft' = opsLeft - 1
Fails(x) == x \in Faults /\ faultsLeft > 0 /\ faultsLeft' = faultsLeft - 1
NoFailure == UNCHANGED faultsLeft

Begin(t, c, to) == /\ pc[t] = "idle" /\ pc' = [pc EXCEPT ![t] = to]
                   /\ call' = [call EXCEPT ![t] = c]
Goto(t, from, to) == pc[t] = from /\ pc' = [pc EXCEPT ![t] = to]
Return(t) == /\ pc' = [pc EXCEPT ![t] = "idle"]
             /\ call' = [call EXCEPT ![t] = NoCall]
             /\ mixed' = mixed \ {t}

InUse(f) == \E t \in Tasks : call[t].file = f
Mapped(f) == \E v \in Vmas : vma[v] = f

\* Pages change: every fsync in progress takes note.
Syncing == {t \in Tasks : pc[t] \in {"s_write", "s_wait"}}
Changed(P) == since' = [t \in Tasks |-> IF t \in Syncing THEN since[t] \cup P
                                        ELSE since[t]]

\* A page is stored to; a write-back under way may see it before or after.
Modify(p) ==
  /\ \E x \in Values :
       /\ mem' = [mem EXCEPT ![p] = x]
       /\ wb' = [wb EXCEPT ![p] = IF @ = {} THEN {} ELSE @ \cup {x}]
  /\ Changed({p})

WritingBack == {p \in Pages : wb[p] # {}}

\* Calls that set the size of the upper inode, and what is noted of them.
SizePcs == {"w_lower", "w_load", "w_store", "t_upper", "t_lock", "t_lower",
            "n_make"}
Sizing == {t \in Tasks : pc[t] \in SizePcs}
NoteOverlap(t) ==
  mixed' = IF Sizing = {} THEN mixed ELSE mixed \cup Sizing \cup {t}
SizeCallBegins(t) == NoteOverlap(t) /\ sure' = FALSE
SizeCallEnds(t) == sure' = (t \notin mixed)

-----------------------------------------------------------------------------
(***************************************************************************)
(* wrapfs_open, wrapfs_flush, wrapfs_file_release.                         *)
(***************************************************************************)
\* A file of an unlinked dentry is not opened, the private data is allocated
\* and the lower file opened; what fails leaves nothing behind.
Open(f) ==
  /\ Op("open")
  /\ ~ file[f].open
  /\ \/ /\ NoFailure
        /\ file' = IF hashed
                   THEN [file EXCEPT ![f] = [open |-> TRUE, fd |-> TRUE,
                                             lower |-> TRUE, ops |-> FALSE]]
                   ELSE file
     \/ /\ hashed
        /\ Fails("file_info") \/ Fails("lower_open")
        /\ UNCHANGED file
  /\ UNCHANGED <<hashed, maps, isize, lower, imutex, lmutex, pc, call, history>>

Unlink ==
  /\ Op("unlink")
  /\ hashed /\ hashed' = FALSE
  /\ UNCHANGED <<file, maps, isize, lower, imutex, lmutex, pc, call, faultsLeft,
                 history>>

\* wrapfs_file_release puts the lower file and frees the private data; it is
\* called when neither a descriptor nor a mapping refers to the file.
Release(f, fd, maplist) ==
  IF fd \/ \E v \in Vmas : maplist[v] = f
  THEN [file EXCEPT ![f].fd = fd]
  ELSE [file EXCEPT ![f] = Closed]

\* Faulty form: the lower file is put with the last descriptor.
CloseReleases(f) ==
  /\ Op("close")
  /\ file[f].fd /\ ~ InUse(f)
  /\ file' = [file EXCEPT ![f] = Closed]
  /\ UNCHANGED <<hashed, maps, isize, lower, imutex, lmutex, pc, call,
                 faultsLeft, history>>

\* The last descriptor is closed.  wrapfs_flush finds no page in the upper
\* page cache, and ext3 has no flush.
Close(f) ==
  /\ Op("close")
  /\ file[f].fd /\ ~ InUse(f)
  /\ file' = Release(f, FALSE, vma)
  /\ UNCHANGED <<hashed, maps, isize, lower, imutex, lmutex, pc, call,
                 faultsLeft, history>>

-----------------------------------------------------------------------------
(***************************************************************************)
(* wrapfs_write.                                                           *)
(***************************************************************************)
WriteBegin(t) ==
  /\ Op("write")
  /\ \E f \in Files, p \in Pages :
       /\ file[f].fd
       /\ Begin(t, [NoCall EXCEPT !.file = f, !.page = p], "w_lower")
  /\ SizeCallBegins(t)
  /\ UNCHANGED <<hashed, file, maps, isize, lower, imutex, lmutex, faultsLeft,
                 since>>

\* vfs_write, under the lower i_mutex; on an error nothing is copied.
WriteLower(t) ==
  LET p == call[t].page IN
  /\ pc[t] = "w_lower" /\ lmutex = NULL
  /\ \/ /\ NoFailure
        /\ Modify(p)
        /\ dirty' = dirty \cup {p}
        /\ lsize' = IF p > lsize THEN p ELSE lsize
        /\ pc' = [pc EXCEPT ![t] = "w_load"]
        /\ UNCHANGED <<call, mixed>>
     \/ /\ Fails("lower_write")
        /\ Return(t)
        /\ UNCHANGED <<mem, dirty, wb, lsize, since>>
  /\ UNCHANGED <<hashed, file, maps, isize, disk, imutex, lmutex, opsLeft, sure>>

\* Faulty form: the size read counts one page too many.
WriteLoadPlusOne(t) ==
  /\ Goto(t, "w_load", "w_store")
  /\ call' = [call EXCEPT ![t].size = lsize + 1]
  /\ UNCHANGED <<hashed, file, maps, isize, lower, imutex, lmutex, bounds,
                 history>>

\* fsstack_copy_inode_size reads the lower size ...
WriteLoad(t) ==
  /\ Goto(t, "w_load", "w_store")
  /\ call' = [call EXCEPT ![t].size = lsize]
  /\ UNCHANGED <<hashed, file, maps, isize, lower, imutex, lmutex, bounds,
                 history>>

\* Faulty form: a write only makes the upper inode larger.
WriteStoreGrows(t) ==
  /\ pc[t] = "w_store"
  /\ isize' = IF call[t].size > isize THEN call[t].size ELSE isize
  /\ Return(t)
  /\ SizeCallEnds(t)
  /\ UNCHANGED <<hashed, file, maps, lower, imutex, lmutex, bounds, since>>

\* ... and sets the upper one, with neither i_mutex held.
WriteStore(t) ==
  /\ pc[t] = "w_store"
  /\ isize' = call[t].size
  /\ Return(t)
  /\ SizeCallEnds(t)
  /\ UNCHANGED <<hashed, file, maps, lower, imutex, lmutex, bounds, since>>

-----------------------------------------------------------------------------
(***************************************************************************)
(* wrapfs_setattr with ATTR_SIZE; the VFS holds the upper i_mutex.         *)
(***************************************************************************)
TruncBegin(t) ==
  /\ Op("truncate")
  /\ imutex = NULL /\ imutex' = t
  /\ \E n \in 0 .. NumPages : Begin(t, [NoCall EXCEPT !.size = n], "t_upper")
  /\ SizeCallBegins(t)
  /\ UNCHANGED <<hashed, file, maps, isize, lower, lmutex, faultsLeft, since>>

\* truncate_setsize(inode): the size, then the mapped pages past it.
TruncUpper(t) ==
  LET n == call[t].size
      moved == {p \in Pages : p > n /\ \E v \in Vmas : pte[v][p] = "dirty"}
  IN
  /\ Goto(t, "t_upper", "t_lock")
  /\ isize' = n
  /\ pte' = [v \in Vmas |-> [p \in Pages |-> IF p > n THEN "none" ELSE pte[v][p]]]
  /\ dirty' = dirty \cup moved
  /\ Changed(moved)
  /\ UNCHANGED <<hashed, file, vma, lsize, mem, disk, wb, imutex, lmutex, call,
                 bounds, mixed, sure>>

TruncLock(t) ==
  /\ Goto(t, "t_lock", "t_lower")
  /\ lmutex = NULL /\ lmutex' = t
  /\ UNCHANGED <<hashed, file, maps, isize, lower, imutex, call, bounds, history>>

\* Faulty form: an error of notify_change leaves the lower i_mutex locked.
TruncErrorKeepsMutex(t) ==
  /\ pc[t] = "t_lower"
  /\ Fails("lower_truncate")
  /\ imutex' = NULL
  /\ Return(t)
  /\ UNCHANGED <<hashed, file, maps, isize, lower, lmutex, opsLeft, since, sure>>

\* notify_change fails: the upper inode keeps its new size.
TruncError(t) ==
  /\ pc[t] = "t_lower"
  /\ Fails("lower_truncate")
  /\ imutex' = NULL /\ lmutex' = NULL
  /\ Return(t)
  /\ UNCHANGED <<hashed, file, maps, isize, lower, opsLeft, since, sure>>

\* notify_change(lower_dentry): pages past the end are cut off the lower
\* inode, also where they are mapped.
TruncLower(t) ==
  LET n == call[t].size
      cut == {p \in Pages : p > n}
  IN
  /\ pc[t] = "t_lower"
  /\ WritingBack \cap cut = {}
  /\ lsize' = n
  /\ mem' = [p \in Pages |-> IF p > n THEN Zero ELSE mem[p]]
  /\ disk' = [p \in Pages |-> IF p > n THEN Zero ELSE disk[p]]
  /\ dirty' = dirty \ cut
  /\ pte' = [v \in Vmas |-> [p \in Pages |->
               IF p > n /\ pte[v][p] # "none" THEN "stale" ELSE pte[v][p]]]
  /\ Changed(cut)
  /\ imutex' = NULL /\ lmutex' = NULL
  /\ Return(t)
  /\ SizeCallEnds(t)
  /\ UNCHANGED <<hashed, file, vma, isize, wb, bounds>>

-----------------------------------------------------------------------------
(***************************************************************************)
(* wrapfs_link of another name to the file; the VFS holds the upper        *)
(* i_mutex, which wrapfs_write does not take.                              *)
(***************************************************************************)
\* file_size_save
LinkBegin(t) ==
  /\ Op("link")
  /\ hashed
  /\ imutex = NULL /\ imutex' = t
  /\ Begin(t, [NoCall EXCEPT !.size = isize], "n_make")
  /\ NoteOverlap(t)
  /\ UNCHANGED <<hashed, file, maps, isize, lower, lmutex, faultsLeft, since,
                 sure>>

\* Faulty form: the size of the new name is taken to be zero.
LinkEndClears(t) ==
  /\ pc[t] = "n_make"
  /\ \/ NoFailure /\ isize' = 0
     \/ Fails("lower_link") /\ UNCHANGED isize
  /\ imutex' = NULL
  /\ Return(t)
  /\ UNCHANGED <<hashed, file, maps, lower, lmutex, opsLeft, since, sure>>

\* After vfs_link and wrapfs_interpose, i_size_write of the size saved.
LinkEnd(t) ==
  /\ pc[t] = "n_make"
  /\ \/ NoFailure /\ isize' = call[t].size
     \/ Fails("lower_link") /\ UNCHANGED isize
  /\ imutex' = NULL
  /\ Return(t)
  /\ UNCHANGED <<hashed, file, maps, lower, lmutex, opsLeft, since, sure>>

-----------------------------------------------------------------------------
(***************************************************************************)
(* wrapfs_mmap and wrapfs_fault.                                           *)
(***************************************************************************)
\* The first mapping of a file calls the lower mmap to learn its vm_ops.
\* ext3 has a writepage, so a writable mapping is never refused.
MmapLower(t) ==
  /\ Op("mmap")
  /\ \E f \in Files, v \in Vmas :
       /\ file[f].fd
       /\ vma[v] = NULL /\ \A u \in Tasks : call[u].vma # v
       /\ Begin(t, [NoCall EXCEPT !.file = f, !.vma = v, !.saved = ~ file[f].ops],
                "m_save")
  /\ UNCHANGED <<hashed, file, maps, isize, lower, imutex, lmutex, faultsLeft,
                 history>>

\* The lower mmap, or the do_munmap after it, fails.
MmapError(t) ==
  /\ pc[t] = "m_save" /\ call[t].saved
  /\ Fails("lower_mmap")
  /\ Return(t)
  /\ UNCHANGED <<hashed, file, maps, isize, lower, imutex, lmutex, opsLeft,
                 since, sure>>

\* Faulty form: what this call has saved is stored without a test.
MmapSaveAlways(t) ==
  /\ pc[t] = "m_save"
  /\ file' = [file EXCEPT ![call[t].file].ops = call[t].saved]
  /\ vma' = [vma EXCEPT ![call[t].vma] = call[t].file]
  /\ Return(t)
  /\ UNCHANGED <<hashed, pte, isize, lower, imutex, lmutex, bounds, since, sure>>

\* lower_vm_ops is set unless another mmap of the file has set it; the VFS
\* then links the mapping.
MmapSave(t) ==
  LET f == call[t].file IN
  /\ pc[t] = "m_save"
  /\ file' = [file EXCEPT ![f].ops = @ \/ call[t].saved]
  /\ vma' = [vma EXCEPT ![call[t].vma] = f]
  /\ Return(t)
  /\ UNCHANGED <<hashed, pte, isize, lower, imutex, lmutex, bounds, since, sure>>

\* wrapfs_fault: BUG_ON(!lower_vm_ops), then the lower file's fault.
FaultBegin(t) ==
  /\ Op("touch")
  /\ \E v \in Vmas, p \in Pages, w \in BOOLEAN :
       /\ vma[v] # NULL
       /\ pte[v][p] = "none"
       /\ Begin(t, [NoCall EXCEPT !.vma = v, !.page = p, !.write = w],
                IF file[vma[v]].ops /\ file[vma[v]].lower THEN "f_lower" ELSE "bug")
  /\ UNCHANGED <<hashed, file, maps, isize, lower, imutex, lmutex, faultsLeft,
                 history>>

\* filemap_fault: SIGBUS past the lower size, else the page is mapped; for a
\* store it is dirtied.
FaultLower(t) ==
  LET v == call[t].vma  p == call[t].page IN
  /\ pc[t] = "f_lower"
  /\ IF p > lsize \/ pte[v][p] # "none"
     THEN UNCHANGED <<pte, dirty>>
     ELSE /\ pte' = [pte EXCEPT ![v][p] = IF call[t].write THEN "dirty" ELSE "clean"]
          /\ dirty' = IF call[t].write THEN dirty \cup {p} ELSE dirty
  /\ Return(t)
  /\ UNCHANGED <<hashed, file, vma, isize, lsize, mem, disk, wb, imutex, lmutex,
                 bounds, since, sure>>

\* The first store to a page mapped by a load: wrapfs_vm_ops has no
\* page_mkwrite.
StoreNotify(v) ==
  /\ Op("touch")
  /\ \E p \in Pages : /\ pte[v][p] = "clean"
                      /\ pte' = [pte EXCEPT ![v][p] = "dirty"]
                      /\ dirty' = dirty \cup {p}
  /\ UNCHANGED <<hashed, file, vma, isize, lsize, mem, disk, wb, imutex, lmutex,
                 pc, call, faultsLeft, history>>

\* A store through a writable entry.
Store(v) ==
  /\ Op("touch")
  /\ \E p \in Pages : pte[v][p] = "dirty" /\ Modify(p)
  /\ UNCHANGED <<hashed, file, maps, isize, lsize, disk, dirty, imutex, lmutex,
                 pc, call, faultsLeft, mixed, sure>>

\* The dirty bits move to the pages; the mapping lets go of the file.
Munmap(v) ==
  LET moved == {p \in Pages : pte[v][p] = "dirty"} IN
  /\ Op("munmap")
  /\ vma[v] # NULL /\ \A t \in Tasks : call[t].vma # v
  /\ vma' = [vma EXCEPT ![v] = NULL]
  /\ pte' = [pte EXCEPT ![v] = NoPages]
  /\ dirty' = dirty \cup moved
  /\ Changed(moved)
  /\ file' = Release(vma[v], file[vma[v]].fd, vma')
  /\ UNCHANGED <<hashed, isize, lsize, mem, disk, wb, imutex, lmutex, pc, call,
                 faultsLeft, mixed, sure>>

-----------------------------------------------------------------------------
(***************************************************************************)
(* wrapfs_fsync, and the write-back of the lower file system.              *)
(***************************************************************************)
\* Faulty form: only the upper inode, which has no pages, is synced.
FsyncNothing(t) ==
  /\ Op("fsync")
  /\ \E f \in Files : file[f].fd /\ Begin(t, [NoCall EXCEPT !.file = f], "s_write")
  /\ UNCHANGED <<hashed, file, maps, isize, lower, imutex, lmutex, faultsLeft,
                 history>>

\* generic_file_fsync of the upper file finds nothing to write; then
\* vfs_fsync_range of the lower one.
FsyncBegin(t) ==
  /\ Op("fsync")
  /\ \E f \in Files :
       /\ file[f].fd
       /\ Begin(t, [NoCall EXCEPT !.file = f, !.todo = Pages], "s_write")
  /\ UNCHANGED <<hashed, file, maps, isize, lower, imutex, lmutex, faultsLeft,
                 history>>

\* A write-back begins, and the page is clean.
StartIO(p) == /\ dirty' = dirty \ {p}
              /\ wb' = [wb EXCEPT ![p] = {mem[p]}]

\* One page is written, after a write-back under way.
FsyncWrite(t) ==
  /\ pc[t] = "s_write"
  /\ \E p \in call[t].todo \ WritingBack :
       /\ IF p \in dirty THEN StartIO(p) ELSE UNCHANGED <<dirty, wb>>
       /\ call' = [call EXCEPT ![t].todo = @ \ {p}]
  /\ UNCHANGED <<hashed, file, maps, isize, lsize, mem, disk, imutex, lmutex, pc,
                 bounds, history>>

FsyncWait(t) ==
  /\ Goto(t, "s_write", "s_wait")
  /\ call[t].todo = {}
  /\ call' = [call EXCEPT ![t].todo = WritingBack]
  /\ UNCHANGED <<hashed, file, maps, isize, lower, imutex, lmutex, bounds,
                 history>>

FsyncEnd(t) ==
  /\ pc[t] = "s_wait"
  /\ call[t].todo \cap WritingBack = {}
  /\ Return(t)
  /\ since' = [since EXCEPT ![t] = {}]
  /\ UNCHANGED <<hashed, file, maps, isize, lower, imutex, lmutex, bounds, sure>>

\* Write-back by the kernel's flusher.  No mapping is write-protected.
WritebackBegin(p) ==
  /\ p \in dirty \ WritingBack
  /\ StartIO(p)
  /\ UNCHANGED <<hashed, file, maps, isize, lsize, mem, disk, imutex, lmutex, pc,
                 call, bounds, history>>

\* The disk has what the page held at some time while it was written.
WritebackEnd(p) ==
  /\ p \in WritingBack
  /\ wb' = [wb EXCEPT ![p] = {}]
  /\ \E x \in wb[p] : disk' = [disk EXCEPT ![p] = x]
  /\ UNCHANGED <<hashed, file, maps, isize, lsize, mem, dirty, imutex, lmutex, pc,
                 call, bounds, history>>

-----------------------------------------------------------------------------
TaskStep(t) ==
  \/ WriteLower(t) \/ WriteLoad(t) \/ WriteStore(t)
  \/ TruncUpper(t) \/ TruncLock(t) \/ TruncLower(t) \/ TruncError(t)
  \/ LinkEnd(t) \/ MmapSave(t) \/ MmapError(t) \/ FaultLower(t)
  \/ FsyncWrite(t) \/ FsyncWait(t) \/ FsyncEnd(t)

TaskCall(t) == WriteBegin(t) \/ TruncBegin(t) \/ LinkBegin(t)
                 \/ MmapLower(t) \/ FaultBegin(t) \/ FsyncBegin(t)

Next ==
  \/ \E t \in Tasks : TaskCall(t) \/ TaskStep(t)
  \/ \E f \in Files : Open(f) \/ Close(f)
  \/ \E v \in Vmas : StoreNotify(v) \/ Store(v) \/ Munmap(v)
  \/ \E p \in Pages : WritebackBegin(p) \/ WritebackEnd(p)
  \/ Unlink

Spec == Init /\ [][Next]_vars

\* A task in a call runs, the scheduler being preemptive, and the disk
\* finishes a write-back that has begun.
FairSpec == /\ Spec
            /\ \A t \in Tasks : WF_vars(TaskStep(t))
            /\ \A p \in Pages : WF_vars(WritebackEnd(p))

-----------------------------------------------------------------------------
(***************************************************************************)
(* Properties.                                                             *)
(***************************************************************************)

\* Every variable has its type.
TypeOK ==
  /\ hashed \in BOOLEAN
  /\ file \in [Files -> File]
  /\ vma \in [Vmas -> Files \cup {NULL}]
  /\ pte \in [Vmas -> [Pages -> PTEs]]
  /\ isize \in 0 .. NumPages /\ lsize \in 0 .. NumPages
  /\ mem \in [Pages -> Values \cup {Zero}] /\ disk \in [Pages -> Values \cup {Zero}]
  /\ dirty \subseteq Pages /\ wb \in [Pages -> SUBSET (Values \cup {Zero})]
  /\ imutex \in Tasks \cup {NULL} /\ lmutex \in Tasks \cup {NULL}
  /\ pc \in [Tasks -> PCs] /\ call \in [Tasks -> Call]
  /\ opsLeft \in 0 .. MaxOps /\ faultsLeft \in 0 .. MaxFaults
  /\ since \in [Tasks -> SUBSET Pages]
  /\ sure \in BOOLEAN /\ mixed \subseteq Tasks

\* A page fault always finds the lower file and its vm_ops, so that
\* BUG_ON(!lower_vm_ops) is never hit: although mmaps of a shared file race to
\* save them, and a mapping outlives the descriptor it was made with.
FaultFindsLower == \A t \in Tasks : pc[t] # "bug"

\* No lower file is kept for a file that has been released, whatever order
\* descriptors and mappings go in and whatever fails in open.
LowerFilesReleased ==
  \A f \in Files : file[f].lower <=> file[f].fd \/ Mapped(f)

\* When fsync returns, a page that nobody changed since it was called is on
\* the lower disk, however it raced with the flusher.  The exception is a page
\* with a dirty page table entry, now or until a munmap or truncate since fsync
\* was called: a store after a write-back is not seen by the lower file system
\* before the entry is gone.
FsyncDurable ==
  [][\A t \in Tasks : FsyncEnd(t) =>
       \A p \in Pages \ since[t] :
         \/ disk[p] = mem[p]
         \/ \E v \in Vmas : pte[v][p] = "dirty"]_vars

\* A write or truncate that succeeds, and that no other call that sets the
\* size overlaps, leaves the upper inode with the size of the lower one until
\* the next such call, whatever sizes earlier calls that failed or raced have
\* left; a link to the file, which stores the size it has saved, leaves it.
SizeRepaired == sure => isize = lsize

\* "update our inode times+sizes upon a successful lower write" (file.c:44):
\* between calls the upper inode has the size of the lower one.
SizeFresh == Sizing = {} => isize = lsize

\* Every call on the file returns, whatever others do at the same time and
\* whatever the lower file system refuses.
CallsReturn == \A t \in Tasks : (pc[t] # "idle") ~> (pc[t] = "idle")

=============================================================================
