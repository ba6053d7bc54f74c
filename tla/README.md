# A verification project for wrapfs with page encryption

wrapfs is a stackable file system for Linux 3.2.2: its dentries, inodes and
open files each hold a lower (ext3) one, and calls are forwarded. Mounted with
`-o mmap` it also has address-space operations: pages are kept in clear in the
wrapfs page cache and encrypted with `ctr(aes)` on their way to the lower file.

The project has TLA+ modules for the parts in which state is shared and steps
interleave (the data path, the interposition of dentries and inodes, mounting
with the key and symbolic links, and regular files without `-o mmap`), TLC
configurations for small instances, an abstract file that the data path is
shown to implement, and TLAPS proofs for every instance.

## Inventory of the system

| Part | Source | Module |
|---|---|---|
| address-space operations | `mmap.c` | `WrapfsMmap` |
| page cipher | `crypto.c` | `PageCipher` |
| key ioctl, digest of the key | `file.c`, `md5.c`, `wrapfs.h` | `WrapfsKey`; its effect on the data path in `WrapfsMmap` |
| size changes (`wrapfs_setattr`) | `inode.c` | `WrapfsMmap`, `WrapfsFile` |
| eviction of an inode | `super.c` | `WrapfsMmap`, `WrapfsInode` |
| lookup, interpose, iget, d_release, lower paths | `lookup.c`, `dentry.c`, `wrapfs.h` | `WrapfsInode` |
| create, mknod, symlink, mkdir, link, unlink, rmdir, rename | `inode.c` | `WrapfsInode` |
| open, release | `file.c` | `WrapfsInode` (references), `WrapfsFile` (mappings) |
| readlink, follow_link, put_link | `inode.c` | `WrapfsSymlink` |
| mount, options, remount, unmount, module init and exit | `main.c`, `super.c` | `WrapfsMount`, composed with `WrapfsKey` and `WrapfsSymlink` |
| write, fsync, flush, mmap, fault without `-o mmap` | `file.c`, `mmap.c` | `WrapfsFile` |
| lower file (`vfs_read`, `vfs_write`, `notify_change`) | external | `LowerFile` |
| a plain file of pages (what programs expect) | abstract | `PageFile`, `WrapfsMmapRefinement` |

`PROJECT.json` has the same list with notes, the source lines of every
definition, and the hazards with the properties that cover them.

The build modelled is that of `src/hw2.config`: i386, SMP, preemptible,
`CONFIG_HIGHMEM` (so `kunmap(NULL)` faults). `wrapfs.h` defines
`WRAPFS_CRYPTO`, so the encrypting branches are the ones compiled.

## The data path: PageCipher, LowerFile, WrapfsMmap

**Data.** A byte is a *cell*. `crypto.c` allocates a new transform for every
page and never sets an IV, so a keystream byte depends on the key and the
offset in the page alone. A stored cell is `[k, o, v]`: the key and offset it
was encrypted under (`k = NULL`: stored in clear) and its plaintext.
`DecryptCell` returns `v` under the same key and offset and `Junk` otherwise.
`Junk` also stands for memory that was never written; `Zero` is the byte a hole
of the lower file reads as, which is not encrypted and so decrypts to `Junk`.

**State.** One regular file: the superblock's key; the lower file's contents and
size; the wrapfs inode's size; for each page whether it is cached, up to date,
dirty, its contents and its lock; the `i_mutex`; the `f_pos` of each lower file;
and for each task its control point, request, the `encKey` local and
`dst_page`.

**Actions.** An operation is cut where other tasks can interfere:

| Code | Actions |
|---|---|
| `wrapfs_readpage` | `ReadpageNoKey`, `ReadpageKey`, `ReadpageNoPage`, `ReadpageSeek`, `ReadpageRead`, `ReadpageDone` |
| `wrapfs_write_begin` | `WriteBeginNoKey`, `WriteBeginKey`, `WriteBeginNoPage`, `WriteBeginPage` |
| `wrapfs_write_end` | `WriteEndKey`, `WriteEndNoPage`, `WriteEndLower`, `WriteEndTail`, `WriteEndSize` |
| `wrapfs_setattr` | `TruncUpper`, `TruncPage`, `TruncLower` |
| `wrapfs_writepage` | `Writeback` |
| `wrapfs_unlocked_ioctl` | `SetKey`, `ClearKey` |
| `wrapfs_evict_inode` | `Evict` |
| VFS and memory manager (external) | `ReadStart`, `ReadHit`, `ReadMiss`, `WriteStart`, `WriteLock`, `WriteTooBig`, `CopyFromUser`, `TruncStart`, `Reclaim` |

A failing call is a disjunct guarded by `Fails("...")`; `Faults` says which
calls may fail and `MaxFaults` how often. `"dst_page"` is the failure of
`alloc_page` after which the code calls `kunmap(NULL)`: the task is `"dead"`
and keeps the locks it holds. `Allow` lists what users may do beyond reading
and writing with a key set (sparse writes, growing truncation, reads without a
key, clearing the key). Writes of the model are one chunk of one page, as
`write_begin` and `write_end` see them.

**Refinement.** `PageFile` is what a program that writes and truncates whole
pages expects of a file: a sequence of pages, changed in one step by a write,
and shown to readers as it is except while that page is being written. It has
no key, cipher, lower file, dirty bit or lock. `WrapfsMmapRefinement` maps the
data path to it: the file is what the lower file decrypts to up to `i_size`, a
page is shown while it is up to date, and it is being written while a task is
between `write_begin` and `write_end` on it. A write takes effect in the
`vfs_write` of `write_end`, a truncation in `truncate_setsize`; readpage,
writepage, reclaim, eviction and the ioctl are steps that leave the file alone.

## Interposition: WrapfsInode

**State.** The lower names of a few directories and the lower inode each is
linked to; the wrapfs and lower directory locks; wrapfs dentries (free, fresh,
hashed, unhashed, dying) with the lower dentry of their path; wrapfs inodes
(free, new, live, freeing, clear) with their `lower_inode`; reference counts of
lower paths, of lower inodes (those wrapfs itself takes with `igrab` and drops
with `iput`) and of wrapfs inodes; the link counts of wrapfs inodes and
directories; the write count of the mount; the open files of each dentry.

**Actions.** `Lookup*` is `wrapfs_lookup` with `__wrapfs_lookup`; `Iget*` and
`Interpose*` are `wrapfs_iget` and `wrapfs_interpose`, shared by lookup and all
calls that make a name; `Op*` are the steps of the directory operations, one
per label of the code, which have the same labels but for rename, with its two
lower directories and two write counts; `Open*` and `FileRelease` are
`wrapfs_open` and `wrapfs_file_release`; `DentryKill`, `EvictInode`,
`DestroyInode`, `DentryRelease` are the end of a dentry and its inode.

`behind` and `doubled` are history: the inodes whose link count the code does
not copy (the target of a rename, a name whose interposition failed) and the
lower inodes that two lookups have given two wrapfs inodes.

Left out: the `i_mutex` of the file itself (taken after the directory's, held
over no wait of this model), `-EXDEV` (one lower file system), copies of times
and directory sizes, the trap of `lock_rename` (the VFS has already excluded
ancestors among the wrapfs directories), changes made to the lower directory
behind wrapfs's back. `lowerRef` is a count: what the lower file system does
after it has lost a reference is not modelled.

## Mounting, keys and links: WrapfsMount, WrapfsKey, WrapfsSymlink

`WrapfsKey` has the ioctl and `wrapfs_compute_md5`: kernel buffers (`mem`), the
key pointer of each superblock, the buffer a task works with and its address
limit (`set_fs`). `UseBegin` and `UseEnd` stand for a readpage or `write_end`
that has read the key pointer and uses it later. `WrapfsSymlink` extends it by
`follow_link`, `readlink` and `put_link`, which take buffers from the same
memory and raise the same limit. `WrapfsMount` extends both by the module
(`Init*`, `Exit*`), `wrapfs_mount` with `read_super` step by step
(`ReadSuper*`, each with its error label), the parsing of options, files that
get their operations from `aops_enabled`, remounting and unmounting. A task
that follows an error pointer or a null pointer is `"m_dead"` (in mount) or
`"dead"` (in the ioctl) and keeps what it holds. The table of option tokens has
no end mark (`main.c:129`), so an unknown option has any outcome: a wild
pointer, the end of the parsing, or a token by chance.

## Files without -o mmap: WrapfsFile

One file with its wrapfs inode size, the lower inode's size, page cache, dirty
and write-back pages and disk; open files with their saved `lower_vm_ops`;
mappings and page table entries; the two `i_mutex`es. `Write*` is
`wrapfs_write`, whose copy of the size is a load and a store with no lock;
`Trunc*` is `wrapfs_setattr`; `Link*` the part of `wrapfs_link` that saves and
restores the size; `Mmap*` and `FaultBegin` are `wrapfs_mmap` and
`wrapfs_fault`; `Fsync*` is `wrapfs_fsync`. Stores to mapped memory, write-back
and page faults of the lower file system are external. `since`, `mixed` and
`sure` are history: what changed since an fsync began, the calls that set the
size and met another such call, and whether the last one met none. A page is one
value, sizes are in pages. An argument that `inode_change_ok` or
`inode_newsize_ok` refuses changes nothing and is no action; ext3 has a
`writepage`, so a writable mapping is not refused.

## Runs

Data path: two tasks, pages of two cells, a file of two pages. Two cells are
the least that tell a page's start from its inside, two pages the least that
tell the right page from a wrong one; every property is about one page, one
file position or one lock and at most two tasks that meet there.

| Run | Setting | Shows |
|---|---|---|
| `aligned` | whole-page writes, truncation to page boundaries, private descriptors, one key that is set once, no failures, 5 calls | `CacheCoherent`, `JunkOnlyMidCopy`, `ReadsOwnPage`, `ChunkOnDisk`, `WritebackStores`, `WriteNeverShrinks`, `TypeOK`, and the refinement `ImplementsPageFile` |
| `faults` | any chunk, sparse writes, any truncation, a shared descriptor, one key set before any read, one failure of any call but the lower truncation, fairness, 3 calls | `LockOwnerActive`, `KeystreamAligned`, `LowerNotLonger`, `NoClearText`, `CallsReturn` |
| `anything` | everything in `Allow`, one failure of any call, an appending descriptor, one key that may be cleared, 3 calls | `Exclusive`, `LostLockHidesNothing`, `DirtyIsUptodate` |

Interposition: two tasks, two names that are hard links of one lower inode,
further lower inodes (one of them a directory in `interpose_tree`), three
dentries (one more than there are names, so that an old and a new dentry of a
name exist together). Tasks, dentries and inodes are symmetric where only
invariants are checked.

| Run | Setting | Shows |
|---|---|---|
| `interpose` | both names in one directory, lookup, create, symlink, link, unlink and rename, one failure of the lower lookup, `mnt_want_write` or the lower operation, fairness, 4 calls | `OneInodePerLower`, `LowerRefsBalanced`, `CallsReturn` |
| `interpose_tree` | names in two directories, every operation but create and symlink (which have the steps of mknod), any two failures, 5 calls | `NothingLost`, `DcacheTruthful`, `LinkCounts`, `TypeOK` |

Mounting and files: two tasks, as every property relates the state of one
superblock, buffer or file to that of two tasks at most.

| Run | Setting | Shows |
|---|---|---|
| `mount` | two superblocks, two device numbers (so they run out), three buffers, five option lists, one failure of any call but `match_int` and `crypto_hash_update`, 6 calls | `LowerAccounted`, `CachesOutliveObjects`, `FilesFollowOption`, `KeyIsDigest`, `KeyInUseStable`, `AddrLimitRestored`, `LinkBufsFreed`, `TypeOK` |
| `file` | one open file shared by two processes, two mappings, two pages, every call, one failure of any call, fairness, 5 calls | `FaultFindsLower`, `LowerFilesReleased`, `SizeRepaired`, `FsyncDurable`, `CallsReturn`, `TypeOK` |

Deadlock checking is off where the system may stop: in runs with a `"dead"`
task that keeps a lock, and in `WrapfsInode`, `WrapfsMount` and `WrapfsFile`,
where all tasks are idle once the calls are used up. `aligned` checks it:
writeback, reclaim or eviction stays possible and no task is stuck.

Disagreements between the code and what its comments or README say, each with a
run that ends in a counterexample (the quotations are in `PROJECT.json`):

| Run | Property | Behaviour |
|---|---|---|
| `read_without_key` | `LockOwnerActive` | readpage without a key leaves the page locked |
| `unaligned_write` | `ChunkOnDisk` | the start of the page is stored instead of the chunk |
| `writepage` | `WritebackStores` | the test for a missing lower inode is inverted, nothing is written |
| `iget_race` | `OneInodePerLower` | two lookups in two directories make two inodes of one lower inode |
| `write_size` | `SizeFresh` | of two writes the slower one stores the older size |

Further settings are excluded from the passing runs because the code does not
keep the property there:

* two readers that share a descriptor overwrite each other's
  `lower_file->f_pos` between `mmap.c:111` and `:127` (`ReadsOwnPage`);
* a key cleared between `write_begin` and `write_end` makes `mmap.c:411` store
  the chunk in clear, as the comment at `mmap.c:369` says (`NoClearText`);
* a lower file that inherited `O_APPEND` from `file.c:343` ignores the offset
  of the page (`KeystreamAligned`);
* a lower truncation that fails after the upper size has been set leaves the
  lower file longer (`LowerNotLonger`);
* a chunk inside a page is neither stored at its place (`mmap.c:408`) nor
  merged with the rest of the page (`mmap.c:301`) (`ImplementsPageFile`);
* another key leaves pages decrypted with the first one in the cache, where
  `src/README.md` says they cannot be accessed (`CacheCoherent`);
* when no inode can be allocated `lookup.c:90` puts a lower inode that was not
  taken (`LowerRefsBalanced`);
* when `crypto_hash_update` fails `md5.c:60` returns with the kernel's address
  limit (`AddrLimitRestored`);
* when `match_int` has no memory the options after `debug=` are ignored
  (`FilesFollowOption`).

Changing `Opens`, `WriteShapes`, `Keys` with `MaxKeyOps`, `Allow`,
`AppendFiles` or `Faults` in the configuration of a passing run shows each of
them. Exceptions that a property itself makes are stated in its comment: a task
killed in mount (`LowerAccounted`), an option the table does not have
(`FilesFollowOption`), the target of a rename (`LinkCounts`), a file that has
had two wrapfs inodes (`DcacheTruthful`, `LinkCounts`), calls that set the size
at the same time (`SizeRepaired`), and a page stored to through a mapping after
its write-back (`FsyncDurable`).

All these settings are what the passing runs, and the assumptions of the
theorems, leave out; the rest is what they establish.

**Fairness.** `FairSpec` is weak fairness of each task's next step, in
`WrapfsInode` also of the freeing of an inode, which is done by the task that
dropped the last reference, and in `WrapfsFile` of the end of a write-back,
which the disk reports. The kernel's scheduler and its queued mutexes justify
it. Nobody is obliged to start a call, write back, reclaim or evict.
Starvation of a page lock is not an issue: the number of calls is bounded.

The operators marked "Faulty form" change one definition each the way a slip in
the code would; with each of them in place of the definition, TLC finds the
property it is listed with in `PROJECT.json` violated.

## Proofs

All theorems hold for all values of the constants that satisfy the named
assumptions: any number of tasks, pages, names, inodes and so on, any workload
and any bounds. Each module of proofs extends the module it is about.

### Data path

From `CipherAssumption`, `NumPagesAssumption`, `MmapAssumption`.
`WrapfsMmapProofs` has the facts about positions and cells and the properties
that hold for any use of the file:

| Theorem | Statement | Further assumption |
|---|---|---|
| `TypeCorrect` | `Spec => []TypeOK` | none |
| `ExclusiveAccess` | `Spec => []Exclusive` | none |
| `WritepageAssertion` | `Spec => []DirtyIsUptodate` | none |
| `LostLocksHideNothing` | `Spec => []LostLockHidesNothing` | none |
| `KeystreamSafe` | `Spec => []KeystreamAligned` | no file is opened with `O_APPEND` |
| `NoClearTextSafe` | `Spec => []NoClearText` | the key is not cleared |
| `NoLockLeftBehind` | `Spec => []LockOwnerActive` | no reads without a key, the key is not cleared |
| `LowerNotLongerSafe` | `Spec => []LowerNotLonger` | the lower truncation does not fail |

The further assumptions are the settings excluded above. The inductive
invariants:

* `TypeInv` adds to `TypeOK` that a task in readpage has a file; the arithmetic
  (a chunk's end lies in the file, a page's prefix in its page) is in lemmas.
* `Exclusive` is inductive with `TypeOK`.
* `FlagInv` needs `Exclusive`: readpage is only called for a page that is not
  up to date, and nobody else marks it dirty while it is locked.
* `LostLockInv`: who holds the lock of an up-to-date page is writing it, so a
  lock that outlives its call is of a page that is not up to date.
* `WriterHasKey`: a writer past `write_begin` runs with a key set, because it
  saw one there and keys are replaced but not cleared.
* `LockInv`: a reader in readpage runs with a key set, so the early return that
  keeps the lock is not taken. It and `LostLockInv` follow from `LockMoves`,
  which sorts the steps of a call into those outside a lock, those that take it,
  work under it and give it back.
* `SizeInv`: outside `TruncPage` and `TruncLower` the lower file is not longer;
  `write_end` only stores prefixes of a page it then accounts for.

`WrapfsMmapCoherence` is about the contents of pages. Its theorems assume
`Orderly`, which is the setting of the run `aligned` for every instance, with
some failures: whole-page writes and truncations that leave no holes,
descriptors that tasks do not share and that do not append, and one key that is
not cleared; a page cache page may be missing, decryption may report an error
and the lower truncation may fail.

| Theorem | Statement |
|---|---|
| `CacheIsCoherent` | `Spec => []CacheCoherent` |
| `JunkIsNotShown` | `Spec => []JunkOnlyMidCopy` |
| `ReadpageReadsOwnPage` | `Spec => ReadsOwnPage` |
| `WriteEndStoresChunk` | `Spec => ChunkOnDisk` |
| `WritebackLosesNothing` | `Spec => WritebackStores` |
| `WritesDoNotShrink` | `Spec => WriteNeverShrinks` |

`CoherenceInv` has four parts. `KeyInv`: whoever encrypts or decrypts has the
mount's key. `ChunkInv`: a write is of one whole page, at most one page past the
end of the file. `LengthInv`: the lower file is not shorter, and a truncation
has only pages past the new end left to visit. `DataInv` relates a page to the
cells of the lower file: up to its end that holds user data under the key
(`StoreInv`); what readpage has read stays what is there while it has the page
locked (`ReadInv`); from the copy on the page holds the user's data, and from
`vfs_write` on the lower file does (`WriterInv`); a page that nobody has locked
and that is up to date holds what the lower file holds (`PageInv`). The
properties are about pages between such steps and are not inductive without
the parts about the middle of a call.

`WrapfsMmapImplements` proves the refinement: under `Orderly`, and unless the
lower truncation fails, `Spec => ImplementsPageFile` (`ImplementsPlainFile`).
`CountInv` makes the size a number of pages, and `WrittenIs` says that the
abstract page being written is that of the one writer. There is one lemma for
each kind of step: `write_begin`, the copy, the store and the end of
`write_end`, `truncate_setsize`, the end of readpage, pages that are forgotten,
the pages a truncation visits, and the ioctl.

### Interposition

From `InodeAssumption`. `WrapfsInodeProofs` proves `Ownership`,
`Spec => []OwnInv`, on which the other two rest:

| Theorem | Module | Statement | Further assumption |
|---|---|---|---|
| `LowerReferencesBalanced` | `WrapfsInodeAccounts` | `Spec => []LowerRefsBalanced` | the allocation of an inode does not fail |
| `TypeInvariant` | `WrapfsInodeAccounts` | `Spec => []TypeOK` | none |
| `NothingIsLost` | `WrapfsInodeAccounts` | `Spec => []NothingLost` | none |
| `OneInodeInOneDirectory` | `WrapfsInodeDcache` | `Spec => []OneInodePerLower` | all names are in one directory |
| `DcacheIsTruthful` | `WrapfsInodeDcache` | `Spec => []DcacheTruthful` | none |
| `CountsAreCopied` | `WrapfsInodeDcache` | `Spec => []LinkCounts` | none |

* `OwnInv`: a task inside a directory operation has the directory of its name
  locked, for rename both (`CallOK`), and its dentry is in the state its
  control point says (`StageOK`); a dentry in use has a live inode of its own
  lower inode (`DentOK`), which the inode has from its initialisation until it
  is evicted (`SlotOK`); a task in `wrapfs_iget` initialises an inode nobody
  else does (`IgetOK`); `i_count` is the number of dentries that have the inode
  or are about to (`HoldInv`). `Local` and `Steady` are the shapes of the steps
  that leave the dentries of other calls, and the inodes, alone; most actions
  are proved by showing that they have one of them.
* `RefInv`: a lower inode's references are the inodes that have it.
* `PathInv` counts the references to a lower path by what they are for: the
  dentry's own, those of open files and those of calls in progress (`Refs`, a
  finite set to which a step adds what it gets and from which it removes what it
  puts); `MountInv` does the same for write access to the lower mount;
  `LockInv` says that locks are held by calls that are to release them.
  `NothingLost` is what they say when all tasks are idle.
* `UniqueInv`: as long as `doubled` is empty no two inodes have one lower inode.
  `NoRace`: in one directory a lookup that made a new inode found none with its
  lower inode, and while it holds the directory nobody makes one; so `doubled`
  stays empty.
* `NameInv`: a name has at most one hashed dentry, and a call for a name that is
  not in the dcache keeps it out until it hashes its own. `TruthInv`: a hashed
  dentry tells the truth unless `vfs_rename` has moved its lower name and
  `d_move` has not yet followed, and a call knows the lower state of the name it
  has locked.
* `KindInv`: a lower directory has one name, link and unlink are for files and
  rmdir for directories. `CopyInv`: a link count that differs from the lower one
  is that of a link or mkdir which has made its name and not yet copied the
  count, or is in `behind`.

### Mounting

From `KeyAssumption` and `MountAssumption`, in `WrapfsMountProofs`:

| Theorem | Statement | Further assumption |
|---|---|---|
| `KeysAreDigests` | `Spec => []KeyIsDigest` | none |
| `KeysInUseStable` | `Spec => []KeyInUseStable` | none |
| `LinkBuffersFreed` | `Spec => []LinkBufsFreed` | none |
| `LimitsRestored` | `Spec => []AddrLimitRestored` | `crypto_hash_update` does not fail |
| `LowerIsAccounted` | `Spec => []LowerAccounted` | none |
| `CachesLastLongest` | `Spec => []CachesOutliveObjects` | none |

* `KeyInv` is ownership of buffers: what a task holds in `integ` in the ioctl
  or on a link is its own, no key points to it, and a key or a key in use
  points to a finished digest, which nobody writes again. `Aside` is the shape
  of the steps that leave buffers alone.
* `LimitInv`: the limit is raised only inside the digest and `readlink`.
* `RefInv` has three parts. `Stages` ties each superblock's `st`, `info`,
  `inode` and `root` to the one task that is setting it up or tearing it down,
  or to being in use by none of them. `Counts` then says that the three
  reference counts are cardinalities of sets of superblocks and tasks, each of
  which a step changes by one element (`Accounts`, `StepCounts`). `Modular` says
  that a module without caches has no references; the module is stopped only
  when `modRef` is 0, by `Counts` no superblock and no mount call is left then,
  and hence the order in which `exit_wrapfs_fs` works does no harm.

### Files without -o mmap

From `FileAssumption`, in `WrapfsFileProofs`, all without further assumptions:
`TypeCorrect` (`TypeOK`), `FaultsFindLower` (`FaultFindsLower`),
`LowerFilesAreReleased` (`LowerFilesReleased`), `SizeIsRepaired`
(`SizeRepaired`) and `FsyncIsDurable` (`FsyncDurable`).

* `MapInv`: a mapping's file has its `vm_ops`, a task in `wrapfs_mmap` has found
  some or brings some, and a call holds the descriptor it was made on.
* `SizeInv`: of two calls that overlap both are in `mixed`; while `sure` holds
  no call is about to change the size; and a call that is not in `mixed` has
  seen the size as it is.
* `SyncInv`: a page that is dirty neither in the lower page cache nor in a page
  table is on disk, or under write-back with its present contents; so is a page
  that fsync has passed, until it changes.

Only model-checked: `FilesFollowOption`, which rests on a fold over the list of
options, where the proof would be an induction over the list; `TypeOK` of
`WrapfsMount`, of whose conjuncts `KeyTypes` and `StageTypes` are proved; and
liveness (`CallsReturn`), which the prover does not handle. The theorems about
page contents and the refinement say nothing of chunks inside a page, which
the code does not store in their place (`unaligned_write`).

A leaf that cites `Zenon` is one of plain first-order reasoning, for which that
prover is the quicker one.

## Not modelled

* `wrapfs_read`, `wrapfs_readdir`, `wrapfs_fasync`, `wrapfs_compat_ioctl`,
  `wrapfs_permission`, `wrapfs_statfs`, `wrapfs_umount_begin`: each forwards one
  call to the lower object and changes no state of wrapfs but an access time
  or, in readdir, a file position.
* `wrapfs_mmap` with `-o mmap`: it leaves `vm_ops` NULL, so the mapping is
  anonymous memory that reaches neither the page cache nor the lower file.
* Times, owners and modes; directory sizes, into which `inode.c:81` copies the
  size of the linked file.
* The memory the ioctl and `crypto.c` do not free: an old digest, `integ_val`
  after another command, transforms.
* User programs and files that are not built into the module: `user.c`,
  `test_mmap.c`, `mount.sh`, `read_write.c`, `ioctl.h`, `syscalls`,
  `wrapfs.mod.c`.
* The composition of interposition and data path: two wrapfs inodes of one
  lower inode (`iget_race`) have two page caches of one file. The data path is
  modelled for one inode, which is the case `OneInodePerLower` establishes.
