----------------------------- MODULE WrapfsInode -----------------------------
(***************************************************************************)
(* Interposition: how wrapfs dentries, inodes and open files hold on to    *)
(* the lower ones.  lookup.c (lookup, interpose, iget), the directory      *)
(* operations of inode.c, open and release of file.c, d_release of         *)
(* dentry.c, evict_inode of super.c and the path helpers of wrapfs.h, for  *)
(* the names of a few directories under concurrent tasks, dentry reclaim   *)
(* and failing allocations and lower calls.  Directories that are made,    *)
(* moved and removed stay empty.                                           *)
(*                                                                         *)
(* External: the VFS holds the i_mutex of the directory around a directory *)
(* operation, for rename of both; it does not call rename when the two     *)
(* names have the same inode or one is a directory and the other is not,   *)
(* and moves the dentry afterwards.  iget5_locked compares hashed inodes   *)
(* with wrapfs_inode_test and waits for a matching one that is being       *)
(* freed; a dying dentry gives up its inode first and is then passed to    *)
(* d_release.                                                              *)
(***************************************************************************)
EXTENDS Integers, FiniteSets

CONSTANTS
  Tasks, NoTask, NULL,
  Dirs, Names, DirOf,     \* the directory each name is in
  LowerInodes, DirInodes, \* lower inodes, and those that are directories
  FirstTarget,            \* the lower inode each name has at mount time
  Dentries, Slots,        \* wrapfs dentries and inodes (bounds)
  Ops,                    \* the calls users make
  Faults,                 \* the calls that may fail
  MaxOps, MaxFaults       \* bounds on calls and failures

MakeOps    == {"create", "mknod", "symlink", "mkdir", "link"}
RemoveOps  == {"unlink", "rmdir"}
OpKinds    == MakeOps \cup RemoveOps \cup {"lookup", "rename", "open"}
FaultKinds == {"dentry_info", "lower_lookup", "alloc_inode", "want_write",
               "lower_op", "file_info", "lower_open"}

ASSUME InodeAssumption ==
  /\ NoTask \notin Tasks
  /\ NULL \notin LowerInodes \cup Dentries \cup Slots \cup Names
  /\ Slots \cap Dirs = {}
  /\ IsFiniteSet(Tasks) /\ IsFiniteSet(Names)
  /\ IsFiniteSet(Dentries) /\ IsFiniteSet(Slots)
  /\ DirOf \in [Names -> Dirs]
  /\ DirInodes \subseteq LowerInodes
  /\ FirstTarget \in [Names -> LowerInodes \cup {NULL}]
  /\ \A m, n \in Names : FirstTarget[m] = FirstTarget[n] /\ m # n =>
                           FirstTarget[m] \notin DirInodes
  /\ Ops \subseteq OpKinds
  /\ Faults \subseteq FaultKinds
  /\ MaxOps \in Nat /\ MaxFaults \in Nat

VARIABLES
  target,     \* the lower inode each lower name is linked to
  dirLock,    \* i_mutex of each wrapfs directory
  lowerLock,  \* i_mutex of each lower directory
  parentRef,  \* extra references to each directory's lower path
  dent,       \* the wrapfs dentries and their lower paths
  pathRef,    \* references to the lower path of each dentry
  opens,      \* open files of each dentry, each with a lower file
  inode,      \* the wrapfs inodes and their lower_inode
  icount,     \* i_count of each wrapfs inode
  mntWriters, \* mnt_want_write calls not yet dropped
  lowerRef,   \* references wrapfs holds to each lower inode by itself
  nlink,      \* i_nlink of each wrapfs inode: here, the number of its names
  dirLinks,   \* i_nlink of each wrapfs directory: here, of its subdirectories
  behind,     \* history: what has a link count that was not copied
  doubled,    \* history: lower inodes that have had two wrapfs inodes
  pc, cur,    \* where each task is, and its call
  opsLeft, faultsLeft

lockVars == <<dirLock, lowerLock>>
attrVars == <<nlink, dirLinks, behind, doubled>>
vars == <<target, lockVars, attrVars, parentRef, dent, pathRef, opens, inode, icount,
          lowerRef, mntWriters, pc, cur, opsLeft, faultsLeft>>

-----------------------------------------------------------------------------
\* l and ln are the inode and the name of the lower dentry, path says whether
\* lower_path is set.
Dentry == [st : {"free", "fresh", "hashed", "unhashed", "dying"},
           n : Names \cup {NULL}, ln : Names \cup {NULL},
           l : LowerInodes \cup {NULL}, path : BOOLEAN,
           ino : Slots \cup {NULL}]
FreeDentry == [st |-> "free", n |-> NULL, ln |-> NULL, l |-> NULL,
               path |-> FALSE, ino |-> NULL]

Inode == [st : {"free", "new", "live", "freeing", "clear"},
          l : LowerInodes \cup {NULL}]
FreeInode == [st |-> "free", l |-> NULL]

\* The call of a task: the name, its dentry d, the source e of a link or
\* rename, the inode s found for it, whether the call has succeeded so far.
Call == [op : OpKinds \cup {NULL}, n : Names \cup {NULL},
         d : Dentries \cup {NULL}, e : Dentries \cup {NULL},
         s : Slots \cup {NULL}, ok : BOOLEAN]
NoCall == [op |-> NULL, n |-> NULL, d |-> NULL, e |-> NULL, s |-> NULL,
           ok |-> TRUE]

PCs == {"idle", "lk_info", "lk_path", "ig_find", "ig_init", "ig_add",
        "ig_fail", "op_lock", "op_want", "op_want2", "op_do", "op_out",
        "op_drop", "op_unlock", "op_return", "open_check", "open_lower",
        "dead"}

\* Link counts of the lower inodes, in the same terms as nlink and dirLinks.
Links(to, l) == Cardinality({n \in Names : to[n] = l})
DirLinks(to, i) == Cardinality({n \in Names : DirOf[n] = i /\ to[n] \in DirInodes})

Init ==
  /\ target = FirstTarget
  /\ dirLock = [i \in Dirs |-> NoTask] /\ lowerLock = [i \in Dirs |-> NoTask]
  /\ parentRef = [i \in Dirs |-> 0]
  /\ dent = [d \in Dentries |-> FreeDentry]
  /\ pathRef = [d \in Dentries |-> 0]
  /\ opens = [d \in Dentries |-> 0]
  /\ inode = [s \in Slots |-> FreeInode]
  /\ icount = [s \in Slots |-> 0]
  /\ lowerRef = [l \in LowerInodes |-> 0]
  /\ mntWriters = 0
  /\ nlink = [s \in Slots |-> 0] /\ dirLinks = [i \in Dirs |-> DirLinks(target, i)]
  /\ behind = {} /\ doubled = {}
  /\ pc = [t \in Tasks |-> "idle"]
  /\ cur = [t \in Tasks |-> NoCall]
  /\ opsLeft = MaxOps /\ faultsLeft = MaxFaults

-----------------------------------------------------------------------------
Goto(t, from, to) == pc[t] = from /\ pc' = [pc EXCEPT ![t] = to]
Bump(f, x, k) == [f EXCEPT ![x] = @ + k]

Fails(x) == x \in Faults /\ faultsLeft > 0 /\ faultsLeft' = faultsLeft - 1
NoFailure == UNCHANGED faultsLeft

Hashed(n) == {d \in Dentries : dent[d].st = "hashed" /\ dent[d].n = n}

\* Dentries the VFS holds for a call in progress.
Pinned(d) == \E t \in Tasks : d \in {cur[t].d, cur[t].e}

Begin(t, c, to) ==
  /\ opsLeft > 0 /\ opsLeft' = opsLeft - 1
  /\ c.op \in Ops
  /\ Goto(t, "idle", to)
  /\ cur' = [cur EXCEPT ![t] = c]

\* The directories whose i_mutex the VFS holds for a call.
UpperDirs(c) ==
  {DirOf[c.n]} \cup IF c.op = "rename" THEN {DirOf[dent[c.e].n]} ELSE {}
LockDirs(t, c) ==
  /\ \A i \in UpperDirs(c) : dirLock[i] = NoTask
  /\ dirLock' = [i \in Dirs |-> IF i \in UpperDirs(c) THEN t ELSE dirLock[i]]

\* The call returns and the VFS drops them.
Finish(t) ==
  /\ pc' = [pc EXCEPT ![t] = "idle"]
  /\ cur' = [cur EXCEPT ![t] = NoCall]
  /\ dirLock' = [i \in Dirs |-> IF i \in UpperDirs(cur[t]) THEN NoTask
                                ELSE dirLock[i]]

\* d_release: wrapfs_put_reset_lower_path, then the dentry is freed.
Release(d) ==
  /\ pathRef' = IF dent[d].path THEN Bump(pathRef, d, -1) ELSE pathRef
  /\ dent' = [dent EXCEPT ![d] = FreeDentry]

-----------------------------------------------------------------------------
(***************************************************************************)
(* wrapfs_lookup.  It is called for a name that is not in the dcache, for  *)
(* its own sake or on behalf of a call that makes or replaces the name; a  *)
(* hashed dentry is used as it is, since d_revalidate returns 1 on ext3.   *)
(***************************************************************************)
LookupFor(t, op, n, d, e) ==
  LET c == [NoCall EXCEPT !.op = op, !.n = n, !.d = d, !.e = e] IN
  /\ dent[d].st = "free" /\ ~ Pinned(d)
  /\ Hashed(n) = {}
  /\ IF op \in {"link", "rename"}
     THEN /\ e # NULL /\ dent[e].st = "hashed"
          /\ op = "link" => dent[e].l \notin DirInodes
     ELSE e = NULL
  /\ Begin(t, c, "lk_info")
  /\ LockDirs(t, c)
  /\ dent' = [dent EXCEPT ![d] = [FreeDentry EXCEPT !.st = "fresh", !.n = n]]
  /\ parentRef' = Bump(parentRef, DirOf[n], 1)
  /\ UNCHANGED <<target, lowerLock, pathRef, opens, inode, icount, lowerRef,
                 mntWriters, faultsLeft, attrVars>>

LookupBegin(t) ==
  \E op \in MakeOps \cup {"lookup", "rename"}, n \in Names, d \in Dentries,
     e \in Dentries \cup {NULL} : LookupFor(t, op, n, d, e)

\* The lookup fails or finds nothing: the parent's lower path is put and the
\* VFS drops the new dentry.
LookupFails(t) ==
  /\ Release(cur[t].d)
  /\ parentRef' = Bump(parentRef, DirOf[cur[t].n], -1)
  /\ Finish(t)
  /\ UNCHANGED <<target, lowerLock, opens, inode, icount, lowerRef,
                 mntWriters, opsLeft, attrVars>>

\* new_dentry_private_data.
LookupInfo(t) ==
  /\ pc[t] = "lk_info"
  /\ \/ /\ NoFailure
        /\ pc' = [pc EXCEPT ![t] = "lk_path"]
        /\ UNCHANGED <<target, lockVars, parentRef, dent, pathRef, opens,
                       inode, icount, lowerRef, mntWriters, cur, opsLeft, attrVars>>
     \/ Fails("dentry_info") /\ LookupFails(t)

\* vfs_path_lookup found the name: its path becomes the dentry's lower path.
\* The VFS will not make a name that exists.
LookupPositive(t) ==
  LET c == cur[t] IN
  /\ Goto(t, "lk_path", "ig_find")
  /\ target[c.n] # NULL
  /\ dent' = [dent EXCEPT ![c.d].l = target[c.n], ![c.d].ln = c.n,
                      ![c.d].path = TRUE]
  /\ pathRef' = Bump(pathRef, c.d, 1)
  /\ cur' = IF c.op = "rename" THEN cur
            ELSE [cur EXCEPT ![t].op = "lookup", ![t].e = NULL]
  /\ NoFailure
  /\ UNCHANGED <<target, lockVars, parentRef, opens, inode, icount, lowerRef,
                 mntWriters, opsLeft, attrVars>>

\* -ENOENT: a negative lower dentry becomes the lower path.  Unless the name
\* is to be made the error is returned.
LookupNegative(t) ==
  LET c == cur[t] IN
  /\ pc[t] = "lk_path"
  /\ target[c.n] = NULL
  /\ NoFailure
  /\ \/ c.op = "lookup" /\ LookupFails(t)
     \/ /\ c.op # "lookup"
        /\ pc' = [pc EXCEPT ![t] = "op_lock"]
        /\ dent' = [dent EXCEPT ![c.d].ln = c.n, ![c.d].path = TRUE]
        /\ pathRef' = Bump(pathRef, c.d, 1)
        /\ parentRef' = Bump(parentRef, DirOf[c.n], -1)
        /\ UNCHANGED <<target, lockVars, opens, inode, icount, lowerRef,
                       mntWriters, cur, opsLeft, attrVars>>

\* Any other error of vfs_path_lookup, or no memory for a lower dentry.
LookupError(t) ==
  /\ pc[t] = "lk_path"
  /\ Fails("lower_lookup")
  /\ LookupFails(t)

-----------------------------------------------------------------------------
(***************************************************************************)
(* wrapfs_interpose and wrapfs_iget, for lookup and the calls that make    *)
(* a name.                                                                 *)
(***************************************************************************)
\* The hashed inodes wrapfs_inode_test accepts for a lower inode.  One that
\* was inserted but not yet given its lower_inode is not among them.
Matches(l) == {s \in Slots : inode[s].st \in {"live", "freeing"}
                              /\ inode[s].l = l}

\* iget5_locked finds a cached inode; it waits while that is being freed.
IgetFound(t) ==
  /\ Goto(t, "ig_find", "ig_add")
  /\ \E s \in Matches(dent[cur[t].d].l) :
       /\ inode[s].st = "live"
       /\ icount' = Bump(icount, s, 1)
       /\ cur' = [cur EXCEPT ![t].s = s]
  /\ UNCHANGED <<target, lockVars, parentRef, dent, pathRef, opens, inode,
                 lowerRef, mntWriters, opsLeft, faultsLeft, attrVars>>

\* Faulty form: the inode comparison is left out (a plain new inode each time).
IgetNewAlways(t) ==
  /\ Goto(t, "ig_find", "ig_init")
  /\ \E s \in Slots :
       /\ inode[s].st = "free"
       /\ inode' = [inode EXCEPT ![s].st = "new"]
       /\ icount' = [icount EXCEPT ![s] = 1]
       /\ cur' = [cur EXCEPT ![t].s = s]
  /\ UNCHANGED <<target, lockVars, parentRef, dent, pathRef, opens, lowerRef,
                 mntWriters, opsLeft, faultsLeft, attrVars>>

\* iget5_locked hashes a new inode.  wrapfs_inode_set leaves its lower_inode
\* empty.
IgetNew(t) ==
  /\ Goto(t, "ig_find", "ig_init")
  /\ Matches(dent[cur[t].d].l) = {}
  /\ \E s \in Slots :
       /\ inode[s].st = "free"
       /\ inode' = [inode EXCEPT ![s].st = "new"]
       /\ icount' = [icount EXCEPT ![s] = 1]
       /\ cur' = [cur EXCEPT ![t].s = s]
  /\ UNCHANGED <<target, lockVars, parentRef, dent, pathRef, opens, lowerRef,
                 mntWriters, opsLeft, faultsLeft, attrVars>>

\* alloc_inode fails: wrapfs_iget puts the lower inode.
IgetNoMemory(t) ==
  /\ Goto(t, "ig_find", "ig_fail")
  /\ Matches(dent[cur[t].d].l) = {}
  /\ Fails("alloc_inode")
  /\ lowerRef' = Bump(lowerRef, dent[cur[t].d].l, -1)
  /\ UNCHANGED <<target, lockVars, parentRef, dent, pathRef, opens, inode,
                 icount, mntWriters, cur, opsLeft, attrVars>>

\* igrab(lower_inode), which succeeds since the lower path pins the lower
\* inode; wrapfs_set_lower_inode; fsstack_copy_attr_all; unlock_new_inode.
IgetInit(t) ==
  LET l == dent[cur[t].d].l IN
  /\ Goto(t, "ig_init", "ig_add")
  /\ inode' = [inode EXCEPT ![cur[t].s] = [st |-> "live", l |-> l]]
  /\ lowerRef' = Bump(lowerRef, l, 1)
  /\ nlink' = [nlink EXCEPT ![cur[t].s] = Links(target, l)]
  /\ doubled' = IF Matches(l) = {} THEN doubled ELSE doubled \cup {l}
  /\ UNCHANGED <<target, lockVars, parentRef, dent, pathRef, opens, icount,
                 mntWriters, cur, opsLeft, faultsLeft, dirLinks, behind>>

\* What has a link count that a call copies once it has made the name.
CountOf(c) == CASE c.op = "link"  -> {dent[c.e].ino}
                [] c.op = "mkdir" -> {DirOf[c.n]}
                [] OTHER          -> {}

\* d_add: the dentry takes over the reference to the inode.  link then copies
\* the link count of the file, mkdir that of the directory.
Interpose(t) ==
  LET c == cur[t] IN
  /\ pc[t] = "ig_add"
  /\ dent' = [dent EXCEPT ![c.d].st = "hashed", ![c.d].ino = c.s]
  /\ \/ /\ c.op = "lookup"
        /\ parentRef' = Bump(parentRef, DirOf[c.n], -1)
        /\ Finish(t)
     \/ /\ c.op = "rename"
        /\ parentRef' = Bump(parentRef, DirOf[c.n], -1)
        /\ pc' = [pc EXCEPT ![t] = "op_lock"]
        /\ UNCHANGED <<dirLock, cur>>
     \/ /\ c.op \in MakeOps
        /\ pc' = [pc EXCEPT ![t] = "op_out"]
        /\ UNCHANGED <<parentRef, dirLock, cur>>
  /\ nlink' = [s \in Slots |-> IF s \in CountOf(c) THEN Links(target, inode[s].l)
                               ELSE nlink[s]]
  /\ dirLinks' = [i \in Dirs |-> IF i \in CountOf(c) THEN DirLinks(target, i)
                                 ELSE dirLinks[i]]
  /\ behind' = behind \ CountOf(c)
  /\ UNCHANGED <<target, lowerLock, pathRef, opens, inode, icount, lowerRef,
                 mntWriters, opsLeft, faultsLeft, doubled>>

\* wrapfs_interpose returns an error: __wrapfs_lookup puts and resets the
\* lower path; a call that made the name leaves that to d_release and copies
\* nothing.
InterposeFails(t) ==
  LET c == cur[t] IN
  /\ pc[t] = "ig_fail"
  /\ \/ c.op \in {"lookup", "rename"} /\ LookupFails(t)
     \/ /\ c.op \in MakeOps
        /\ pc' = [pc EXCEPT ![t] = "op_out"]
        /\ cur' = [cur EXCEPT ![t].ok = FALSE]
        /\ behind' = behind \cup CountOf(c)
        /\ UNCHANGED <<target, lockVars, parentRef, dent, pathRef, opens,
                       inode, icount, lowerRef, mntWriters, opsLeft, nlink,
                       dirLinks, doubled>>
  /\ UNCHANGED faultsLeft

-----------------------------------------------------------------------------
(***************************************************************************)
(* wrapfs_create, wrapfs_mknod, wrapfs_symlink, wrapfs_mkdir, wrapfs_link, *)
(* wrapfs_unlink, wrapfs_rmdir and wrapfs_rename.                          *)
(***************************************************************************)
RemoveBegin(t) ==
  \E d \in Dentries, op \in RemoveOps :
    LET c == [NoCall EXCEPT !.op = op, !.n = dent[d].n, !.d = d] IN
    /\ dent[d].st = "hashed"
    /\ op = "rmdir" <=> dent[d].l \in DirInodes
    /\ Begin(t, c, "op_lock")
    /\ LockDirs(t, c)
    /\ UNCHANGED <<target, lowerLock, parentRef, dent, pathRef, opens, inode,
                   icount, lowerRef, mntWriters, faultsLeft, attrVars>>

\* A rename to a name in the dcache; LookupBegin is for one that is not.
RenameBegin(t) ==
  \E e, d \in Dentries :
    LET c == [NoCall EXCEPT !.op = "rename", !.n = dent[d].n, !.d = d, !.e = e] IN
    /\ e # d /\ dent[e].st = "hashed" /\ dent[d].st = "hashed"
    /\ Begin(t, c, "op_lock")
    /\ LockDirs(t, c)
    /\ UNCHANGED <<target, lowerLock, parentRef, dent, pathRef, opens, inode,
                   icount, lowerRef, mntWriters, faultsLeft, attrVars>>

\* The VFS itself answers a rename between names of one inode, or of a
\* directory and a file.
Refused(c) ==
  /\ c.op = "rename"
  /\ dent[c.d].ino # NULL
  /\ \/ dent[c.d].ino = dent[c.e].ino
     \/ (dent[c.d].l \in DirInodes) # (dent[c.e].l \in DirInodes)

RenameRefused(t) ==
  /\ Goto(t, "op_lock", "op_return")
  /\ Refused(cur[t])
  /\ cur' = [cur EXCEPT ![t].ok = FALSE]
  /\ UNCHANGED <<target, lockVars, parentRef, dent, pathRef, opens, inode,
                 icount, lowerRef, mntWriters, opsLeft, faultsLeft, attrVars>>

\* The references a call takes on the lower paths of d and e.  unlink also
\* takes one on the lower dentry.
CallRefs(t, x) ==
  IF x = cur[t].d THEN IF cur[t].op = "unlink" THEN 2 ELSE 1
  ELSE IF x = cur[t].e THEN 1 ELSE 0

\* The lower directories lock_parent or lock_rename locks.
LowerDirs(c) ==
  {DirOf[dent[c.d].ln]} \cup IF c.op = "rename" THEN {DirOf[dent[c.e].ln]} ELSE {}

\* wrapfs_get_lower_path, dget, lock_parent or lock_rename.  The VFS holds
\* the upper directories, so no ancestor of the other is found as the trap.
OpLock(t) ==
  LET c == cur[t] IN
  /\ Goto(t, "op_lock", "op_want")
  /\ ~ Refused(c)
  /\ \A i \in LowerDirs(c) : lowerLock[i] = NoTask
  /\ lowerLock' = [i \in Dirs |-> IF i \in LowerDirs(c) THEN t ELSE lowerLock[i]]
  /\ pathRef' = [x \in Dentries |-> pathRef[x] + CallRefs(t, x)]
  /\ UNCHANGED <<target, dirLock, parentRef, dent, opens, inode, icount,
                 lowerRef, mntWriters, cur, opsLeft, faultsLeft, attrVars>>

\* rename takes write access to the mount of each path.
WantNext(t) == IF cur[t].op = "rename" THEN "op_want2" ELSE "op_do"

\* Faulty form: the failure jumps to out instead of out_unlock.
OpWantWriteGotoOut(t) ==
  /\ \/ /\ Goto(t, "op_want", WantNext(t))
        /\ NoFailure
        /\ mntWriters' = mntWriters + 1
        /\ UNCHANGED cur
     \/ /\ Goto(t, "op_want", "op_out")
        /\ Fails("want_write")
        /\ cur' = [cur EXCEPT ![t].ok = FALSE]
        /\ UNCHANGED mntWriters
  /\ UNCHANGED <<target, lockVars, parentRef, dent, pathRef, opens, inode,
                 icount, lowerRef, opsLeft, attrVars>>

\* Faulty form: the failure returns at once.
OpWantWriteReturns(t) ==
  /\ \/ /\ Goto(t, "op_want", WantNext(t))
        /\ NoFailure
        /\ mntWriters' = mntWriters + 1
        /\ UNCHANGED cur
     \/ /\ Goto(t, "op_want", "op_return")
        /\ Fails("want_write")
        /\ cur' = [cur EXCEPT ![t].ok = FALSE]
        /\ UNCHANGED mntWriters
  /\ UNCHANGED <<target, lockVars, parentRef, dent, pathRef, opens, inode,
                 icount, lowerRef, opsLeft, attrVars>>

\* mnt_want_write; on failure goto out_unlock, in rename out.
OpWantWrite(t) ==
  /\ \/ /\ Goto(t, "op_want", WantNext(t))
        /\ NoFailure
        /\ mntWriters' = mntWriters + 1
        /\ UNCHANGED cur
     \/ /\ Goto(t, "op_want", "op_unlock")
        /\ Fails("want_write")
        /\ cur' = [cur EXCEPT ![t].ok = FALSE]
        /\ UNCHANGED mntWriters
  /\ UNCHANGED <<target, lockVars, parentRef, dent, pathRef, opens, inode,
                 icount, lowerRef, opsLeft, attrVars>>

\* The second mnt_want_write of rename; on failure goto out_drop_old_write.
OpWantNewWrite(t) ==
  /\ \/ /\ Goto(t, "op_want2", "op_do")
        /\ NoFailure
        /\ mntWriters' = mntWriters + 1
        /\ UNCHANGED cur
     \/ /\ Goto(t, "op_want2", "op_drop")
        /\ Fails("want_write")
        /\ cur' = [cur EXCEPT ![t].ok = FALSE]
        /\ UNCHANGED mntWriters
  /\ UNCHANGED <<target, lockVars, parentRef, dent, pathRef, opens, inode,
                 icount, lowerRef, opsLeft, attrVars>>

\* The lower inodes a call may give to a name: an unused one, or that of a
\* link's source unless its last name is gone.
NewTargets(c) ==
  IF c.op = "link" THEN {l \in {dent[c.e].l} : Links(target, l) > 0}
  ELSE {l \in LowerInodes : /\ l \in DirInodes <=> c.op = "mkdir"
                            /\ \A n \in Names : target[n] # l
                            /\ \A d \in Dentries : dent[d].l # l
                            /\ \A s \in Slots : inode[s].l # l}

\* The lower call makes the lower dentry positive.
OpMake(t) ==
  LET c == cur[t] IN
  /\ Goto(t, "op_do", "ig_find")
  /\ \E l \in NewTargets(c) :
       /\ target' = [target EXCEPT ![dent[c.d].ln] = l]
       /\ dent' = [dent EXCEPT ![c.d].l = l]
  /\ UNCHANGED <<lockVars, parentRef, pathRef, opens, inode, icount, lowerRef,
                 mntWriters, cur, opsLeft, faultsLeft, attrVars>>

OpCreate(t)  == cur[t].op = "create" /\ OpMake(t)
OpMknod(t)   == cur[t].op = "mknod" /\ OpMake(t)
OpSymlink(t) == cur[t].op = "symlink" /\ OpMake(t)
OpMkdir(t)   == cur[t].op = "mkdir" /\ OpMake(t)
OpLink(t)    == cur[t].op = "link" /\ OpMake(t)

\* The lower dentry has been unlinked through another wrapfs dentry.
LowerGone(d) == target[dent[d].ln] # dent[d].l

\* Faulty form: without the d_drop.
OpUnlinkKeepsHashed(t) ==
  LET c == cur[t]  s == dent[c.d].ino IN
  /\ Goto(t, "op_do", "op_out")
  /\ c.op = "unlink" /\ ~ LowerGone(c.d) /\ DirOf[dent[c.d].ln] = DirOf[c.n]
  /\ target' = [target EXCEPT ![dent[c.d].ln] = NULL]
  /\ nlink' = [nlink EXCEPT ![s] = Links(target', inode[s].l)]
  /\ behind' = behind \ {s}
  /\ UNCHANGED <<lockVars, parentRef, dent, pathRef, opens, inode, icount,
                 lowerRef, mntWriters, cur, opsLeft, faultsLeft, dirLinks, doubled>>

\* vfs_unlink, then the link count is copied and the wrapfs dentry dropped.
OpUnlink(t) ==
  LET c == cur[t]  s == dent[c.d].ino IN
  /\ Goto(t, "op_do", "op_out")
  /\ c.op = "unlink" /\ ~ LowerGone(c.d) /\ DirOf[dent[c.d].ln] = DirOf[c.n]
  /\ target' = [target EXCEPT ![dent[c.d].ln] = NULL]
  /\ dent' = [dent EXCEPT ![c.d].st = "unhashed"]
  /\ nlink' = [nlink EXCEPT ![s] = Links(target', inode[s].l)]
  /\ behind' = behind \ {s}
  /\ UNCHANGED <<lockVars, parentRef, pathRef, opens, inode, icount, lowerRef,
                 mntWriters, cur, opsLeft, faultsLeft, dirLinks, doubled>>

\* vfs_unlink is passed the lower directory of the wrapfs one; it stops with
\* a BUG_ON when the lower dentry is in another.
OpUnlinkBug(t) ==
  LET c == cur[t] IN
  /\ Goto(t, "op_do", "dead")
  /\ c.op = "unlink" /\ DirOf[dent[c.d].ln] # DirOf[c.n]
  /\ UNCHANGED <<target, lockVars, parentRef, dent, pathRef, opens, inode,
                 icount, lowerRef, mntWriters, cur, opsLeft, faultsLeft, attrVars>>

\* Faulty form: the link count of the directory is not copied.
OpRmdirKeepsCount(t) ==
  LET c == cur[t]  s == dent[c.d].ino IN
  /\ Goto(t, "op_do", "op_out")
  /\ c.op = "rmdir" /\ ~ LowerGone(c.d)
  /\ target' = [target EXCEPT ![dent[c.d].ln] = NULL]
  /\ dent' = [dent EXCEPT ![c.d].st = "unhashed"]
  /\ nlink' = [nlink EXCEPT ![s] = 0]
  /\ behind' = behind \ {s, DirOf[c.n]}
  /\ UNCHANGED <<lockVars, parentRef, pathRef, opens, inode, icount, lowerRef,
                 mntWriters, cur, opsLeft, faultsLeft, dirLinks, doubled>>

\* vfs_rmdir, then d_drop, clear_nlink, and the link count of the directory.
OpRmdir(t) ==
  LET c == cur[t]  s == dent[c.d].ino  i == DirOf[dent[c.d].ln] IN
  /\ Goto(t, "op_do", "op_out")
  /\ c.op = "rmdir" /\ ~ LowerGone(c.d)
  /\ target' = [target EXCEPT ![dent[c.d].ln] = NULL]
  /\ dent' = [dent EXCEPT ![c.d].st = "unhashed"]
  /\ nlink' = [nlink EXCEPT ![s] = 0]
  /\ dirLinks' = [dirLinks EXCEPT ![DirOf[c.n]] = DirLinks(target', i)]
  /\ behind' = behind \ {s, DirOf[c.n]}
  /\ UNCHANGED <<lockVars, parentRef, pathRef, opens, inode, icount, lowerRef,
                 mntWriters, cur, opsLeft, faultsLeft, doubled>>

\* vfs_rename, which does nothing between two names of one lower inode, else
\* moves the lower dentry; then the attributes of the directories are copied.
\* Those of an inode whose name has been replaced are not.
OpRename(t) ==
  LET c == cur[t]  d == dent[c.d]  e == dent[c.e] IN
  /\ Goto(t, "op_do", "op_out")
  /\ c.op = "rename" /\ ~ LowerGone(c.e) /\ ~ LowerGone(c.d)
  /\ IF d.l = e.l THEN UNCHANGED <<target, dent>>
     ELSE /\ target' = [target EXCEPT ![d.ln] = e.l, ![e.ln] = NULL]
          /\ dent' = [dent EXCEPT ![c.d].ln = e.ln, ![c.e].ln = d.ln]
  /\ dirLinks' = [i \in Dirs |-> IF i = DirOf[c.n] THEN DirLinks(target', DirOf[d.ln])
                                 ELSE IF i = DirOf[e.n] THEN DirLinks(target', DirOf[e.ln])
                                 ELSE dirLinks[i]]
  /\ behind' = (behind \ UpperDirs(c)) \cup ({d.ino} \ {NULL})
  /\ UNCHANGED <<lockVars, parentRef, pathRef, opens, inode, icount, lowerRef,
                 mntWriters, cur, opsLeft, faultsLeft, nlink, doubled>>

\* The lower call fails; goto out.
OpFails(t) ==
  LET c == cur[t] IN
  /\ Goto(t, "op_do", "op_out")
  /\ \/ Fails("lower_op")
     \/ c.op \in MakeOps /\ NewTargets(c) = {} /\ NoFailure
     \/ c.op \in RemoveOps \cup {"rename"} /\ NoFailure
        /\ \E x \in {c.d, c.e} \ {NULL} : LowerGone(x)
  /\ cur' = [cur EXCEPT ![t].ok = FALSE]
  /\ UNCHANGED <<target, lockVars, parentRef, dent, pathRef, opens, inode,
                 icount, lowerRef, mntWriters, opsLeft, attrVars>>

\* out: mnt_drop_write; in rename out_err, which falls through to the other.
OpDropWrite(t) ==
  /\ \/ Goto(t, "op_out", IF cur[t].op = "rename" THEN "op_drop" ELSE "op_unlock")
     \/ Goto(t, "op_drop", "op_unlock")
  /\ mntWriters' = mntWriters - 1
  /\ UNCHANGED <<target, lockVars, parentRef, dent, pathRef, opens, inode,
                 icount, lowerRef, cur, opsLeft, faultsLeft, attrVars>>

\* out_unlock: unlock_dir or unlock_rename, dput, wrapfs_put_lower_path.
OpUnlock(t) ==
  /\ Goto(t, "op_unlock", "op_return")
  /\ lowerLock' = [i \in Dirs |-> IF i \in LowerDirs(cur[t]) THEN NoTask
                                  ELSE lowerLock[i]]
  /\ pathRef' = [x \in Dentries |-> pathRef[x] - CallRefs(t, x)]
  /\ UNCHANGED <<target, dirLock, parentRef, dent, opens, inode, icount,
                 lowerRef, mntWriters, cur, opsLeft, faultsLeft, attrVars>>

\* Back in the VFS: after a rename d_move gives the name to the old dentry
\* and drops the new one; a dentry that is negative is freed (d_release).
OpReturn(t) ==
  LET c == cur[t]
      moved == IF c.op = "rename" /\ c.ok
               THEN [dent EXCEPT ![c.e].n = c.n, ![c.d].n = dent[c.e].n,
                                 ![c.d].st = "unhashed"]
               ELSE dent
  IN
  /\ pc[t] = "op_return"
  /\ IF dent[c.d].ino = NULL
     THEN /\ dent' = [moved EXCEPT ![c.d] = FreeDentry]
          /\ pathRef' = Bump(pathRef, c.d, -1)
     ELSE dent' = moved /\ UNCHANGED pathRef
  /\ Finish(t)
  /\ UNCHANGED <<target, lowerLock, parentRef, opens, inode, icount, lowerRef,
                 mntWriters, opsLeft, faultsLeft, attrVars>>

-----------------------------------------------------------------------------
(***************************************************************************)
(* wrapfs_open and wrapfs_file_release.                                    *)
(***************************************************************************)
OpenBegin(t) ==
  /\ \E d \in Dentries :
       /\ dent[d].st = "hashed"
       /\ Begin(t, [NoCall EXCEPT !.op = "open", !.d = d], "open_check")
  /\ UNCHANGED <<target, lockVars, parentRef, dent, pathRef, opens, inode,
                 icount, lowerRef, mntWriters, faultsLeft, attrVars>>

OpenReturn(t) == /\ pc' = [pc EXCEPT ![t] = "idle"]
                 /\ cur' = [cur EXCEPT ![t] = NoCall]

\* A file unlinked since the VFS found it is not opened; otherwise the file
\* info is allocated and a reference to the lower path taken.
OpenCheck(t) ==
  LET d == cur[t].d IN
  /\ pc[t] = "open_check"
  /\ \/ dent[d].st = "unhashed" /\ OpenReturn(t) /\ NoFailure
        /\ UNCHANGED pathRef
     \/ dent[d].st = "hashed" /\ OpenReturn(t) /\ Fails("file_info")
        /\ UNCHANGED pathRef
     \/ /\ dent[d].st = "hashed"
        /\ NoFailure
        /\ pc' = [pc EXCEPT ![t] = "open_lower"]
        /\ pathRef' = Bump(pathRef, d, 1)
        /\ UNCHANGED cur
  /\ UNCHANGED <<target, lockVars, parentRef, dent, opens, inode, icount,
                 lowerRef, mntWriters, opsLeft, attrVars>>

\* Faulty form: the reference is taken to survive a dentry_open that fails.
OpenLowerLeaks(t) ==
  LET d == cur[t].d IN
  /\ pc[t] = "open_lower"
  /\ \/ NoFailure /\ opens' = Bump(opens, d, 1)
     \/ Fails("lower_open") /\ UNCHANGED opens
  /\ OpenReturn(t)
  /\ UNCHANGED <<target, lockVars, parentRef, dent, pathRef, inode, icount,
                 lowerRef, mntWriters, opsLeft, attrVars>>

\* dentry_open hands the reference on to the lower file, or drops it.
OpenLower(t) ==
  LET d == cur[t].d IN
  /\ pc[t] = "open_lower"
  /\ \/ NoFailure /\ opens' = Bump(opens, d, 1) /\ UNCHANGED pathRef
     \/ Fails("lower_open") /\ pathRef' = Bump(pathRef, d, -1)
        /\ UNCHANGED opens
  /\ OpenReturn(t)
  /\ UNCHANGED <<target, lockVars, parentRef, dent, inode, icount, lowerRef,
                 mntWriters, opsLeft, attrVars>>

\* The last reference to the file goes: fput of the lower file.
FileRelease(d) ==
  /\ opens[d] > 0
  /\ opens' = Bump(opens, d, -1)
  /\ pathRef' = Bump(pathRef, d, -1)
  /\ UNCHANGED <<target, lockVars, parentRef, dent, inode, icount, lowerRef,
                 mntWriters, pc, cur, opsLeft, faultsLeft, attrVars>>

-----------------------------------------------------------------------------
(***************************************************************************)
(* The end of dentries and inodes.                                         *)
(***************************************************************************)
\* An unused dentry is killed; it gives up its inode.  drop_inode is
\* generic_delete_inode, so an inode without users is freed at once.
DentryKill(d) ==
  LET s == dent[d].ino IN
  /\ dent[d].st \in {"hashed", "unhashed"}
  /\ opens[d] = 0 /\ ~ Pinned(d)
  /\ dent' = [dent EXCEPT ![d].st = "dying"]
  /\ icount' = Bump(icount, s, -1)
  /\ inode' = IF icount[s] = 1 THEN [inode EXCEPT ![s].st = "freeing"]
              ELSE inode
  /\ UNCHANGED <<target, lockVars, parentRef, pathRef, opens, lowerRef,
                 mntWriters, pc, cur, opsLeft, faultsLeft, attrVars>>

\* Faulty form: lower_inode is reset before it is read, so nothing is put.
EvictInodeKeepsRef(s) ==
  /\ inode[s].st = "freeing"
  /\ inode' = [inode EXCEPT ![s] = [st |-> "clear", l |-> NULL]]
  /\ UNCHANGED <<target, lockVars, parentRef, dent, pathRef, opens, icount,
                 lowerRef, mntWriters, pc, cur, opsLeft, faultsLeft, attrVars>>

\* wrapfs_evict_inode.
EvictInode(s) ==
  /\ inode[s].st = "freeing"
  /\ inode' = [inode EXCEPT ![s] = [st |-> "clear", l |-> NULL]]
  /\ lowerRef' = Bump(lowerRef, inode[s].l, -1)
  /\ UNCHANGED <<target, lockVars, parentRef, dent, pathRef, opens, icount,
                 mntWriters, pc, cur, opsLeft, faultsLeft, attrVars>>

\* The VFS unhashes the inode and wrapfs_destroy_inode frees it.
DestroyInode(s) ==
  /\ inode[s].st = "clear"
  /\ inode' = [inode EXCEPT ![s] = FreeInode]
  /\ nlink' = [nlink EXCEPT ![s] = 0] /\ behind' = behind \ {s}
  /\ UNCHANGED <<target, lockVars, parentRef, dent, pathRef, opens, icount,
                 lowerRef, mntWriters, pc, cur, opsLeft, faultsLeft, dirLinks,
                 doubled>>

\* wrapfs_d_release.
DentryRelease(d) ==
  /\ dent[d].st = "dying"
  /\ inode[dent[d].ino].st \notin {"freeing", "clear"}
  /\ Release(d)
  /\ UNCHANGED <<target, lockVars, parentRef, opens, inode, icount, lowerRef,
                 mntWriters, pc, cur, opsLeft, faultsLeft, attrVars>>

-----------------------------------------------------------------------------
StartCall(t) == LookupBegin(t) \/ RemoveBegin(t) \/ RenameBegin(t) \/ OpenBegin(t)

Continue(t) ==
  \/ LookupInfo(t) \/ LookupPositive(t) \/ LookupNegative(t) \/ LookupError(t)
  \/ IgetFound(t) \/ IgetNew(t) \/ IgetNoMemory(t) \/ IgetInit(t)
  \/ Interpose(t) \/ InterposeFails(t)
  \/ RenameRefused(t) \/ OpLock(t) \/ OpWantWrite(t) \/ OpWantNewWrite(t)
  \/ OpCreate(t) \/ OpMknod(t) \/ OpSymlink(t) \/ OpMkdir(t) \/ OpLink(t)
  \/ OpUnlink(t) \/ OpUnlinkBug(t) \/ OpRmdir(t) \/ OpRename(t) \/ OpFails(t)
  \/ OpDropWrite(t) \/ OpUnlock(t) \/ OpReturn(t)
  \/ OpenCheck(t) \/ OpenLower(t)

Next ==
  \/ \E t \in Tasks : StartCall(t) \/ Continue(t)
  \/ \E d \in Dentries : FileRelease(d) \/ DentryKill(d) \/ DentryRelease(d)
  \/ \E s \in Slots : EvictInode(s) \/ DestroyInode(s)

Spec == Init /\ [][Next]_vars

\* Every task in a call goes on, and an inode that is being freed is freed by
\* the task that dropped the last reference.
FairSpec ==
  /\ Spec
  /\ \A t \in Tasks : WF_vars(Continue(t))
  /\ \A s \in Slots : WF_vars(EvictInode(s) \/ DestroyInode(s))

-----------------------------------------------------------------------------
(***************************************************************************)
(* Properties.                                                             *)
(***************************************************************************)

\* Every variable has its type; no reference count of a path, directory or
\* inode goes below zero.
TypeOK ==
  /\ target \in [Names -> LowerInodes \cup {NULL}]
  /\ dirLock \in [Dirs -> Tasks \cup {NoTask}]
  /\ lowerLock \in [Dirs -> Tasks \cup {NoTask}]
  /\ parentRef \in [Dirs -> Nat] /\ mntWriters \in Nat
  /\ dent \in [Dentries -> Dentry]
  /\ pathRef \in [Dentries -> Nat] /\ opens \in [Dentries -> Nat]
  /\ inode \in [Slots -> Inode]
  /\ icount \in [Slots -> Nat]
  /\ lowerRef \in [LowerInodes -> Int]
  /\ nlink \in [Slots -> Nat] /\ dirLinks \in [Dirs -> Nat]
  /\ behind \subseteq Slots \cup Dirs /\ doubled \subseteq LowerInodes
  /\ pc \in [Tasks -> PCs]
  /\ cur \in [Tasks -> Call]
  /\ opsLeft \in 0 .. MaxOps /\ faultsLeft \in 0 .. MaxFaults

\* "if found a cached inode, then just return it" (wrapfs_iget): a lower
\* inode has at most one wrapfs inode, so all names of a file share one page
\* cache and one i_mutex.
OneInodePerLower == \A l \in LowerInodes : Cardinality(Matches(l)) <= 1

\* wrapfs_evict_inode drops "a reference to a lower_inode, which was
\* incremented by our read_inode": wrapfs holds exactly one reference to a
\* lower inode for each wrapfs inode that points to it, and never puts one it
\* did not take.
LowerRefsBalanced ==
  \A l \in LowerInodes :
    lowerRef[l] = Cardinality({s \in Slots : inode[s].l = l})

\* A lower path stays referenced while its dentry or an open file uses it;
\* when no call is in progress there are no other references, locks or write
\* counts left over, and every inode is reachable from a dentry.
NothingLost ==
  LET used(d) == opens[d] + IF dent[d].path THEN 1 ELSE 0 IN
  /\ \A d \in Dentries : pathRef[d] >= used(d)
  /\ (\A t \in Tasks : pc[t] = "idle") =>
       /\ \A d \in Dentries : pathRef[d] = used(d)
       /\ \A i \in Dirs : /\ dirLock[i] = NoTask /\ lowerLock[i] = NoTask
                          /\ parentRef[i] = 0
       /\ mntWriters = 0
       /\ \A s \in Slots : inode[s].st = "live" =>
            \E d \in Dentries : dent[d].ino = s

\* What the dcache says is true: while a name can be found in it, the lower
\* name exists, and the dentry's path and inode are those of the lower file
\* it is linked to, even after calls that failed half-way.  The exceptions are
\* a name that is just being renamed, and everything once lookups in two
\* directories have made two inodes for a file: vfs_rename does nothing below
\* between two names of that file, the VFS moves the wrapfs dentry all the
\* same, and what is renamed over it later goes astray with it.
DcacheTruthful ==
  doubled = {} =>
    \A d \in Dentries :
      LET x == dent[d] IN
      /\ x.st = "hashed"
      /\ \A t \in Tasks : cur[t].op = "rename" => d \notin {cur[t].d, cur[t].e}
      => /\ x.path /\ x.ln = x.n
         /\ target[x.n] = x.l /\ x.l # NULL
         /\ inode[x.ino] = [st |-> "live", l |-> x.l]

\* When no call is in progress every wrapfs inode has the link count of the
\* lower one, whichever names of it were made and removed in whichever
\* directories, and so has every directory.  The exceptions: an inode whose
\* name a rename has replaced, which keeps a count too high, what a call did
\* not come to copy because wrapfs_interpose failed, and everything once a
\* file has had two inodes.
LinkCounts ==
  doubled = {} /\ (\A t \in Tasks : pc[t] = "idle") =>
    /\ \A s \in Slots \ behind :
         inode[s].st = "live" => nlink[s] = Links(target, inode[s].l)
    /\ \A i \in Dirs \ behind : dirLinks[i] = DirLinks(target, i)

\* Every call returns: nobody waits for ever for a directory or for an inode
\* that is being freed.
CallsReturn == \A t \in Tasks : pc[t] # "idle" ~> pc[t] = "idle"

=============================================================================
