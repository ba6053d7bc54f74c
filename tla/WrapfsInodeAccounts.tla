------------------------ MODULE WrapfsInodeAccounts -------------------------
(***************************************************************************)
(* References to lower inodes and lower paths, write access to the lower   *)
(* mount and locks are accounted for at every point of every call, for any *)
(* number of tasks, names, directories, dentries and inodes.               *)
(***************************************************************************)
EXTENDS WrapfsInodeProofs

-----------------------------------------------------------------------------
(***************************************************************************)
(* References to lower inodes.                                             *)
(***************************************************************************)
Users(l) == {s \in Slots : inode[s].l = l}

\* Only wrapfs_iget and wrapfs_evict_inode change lower_inode, and they count
\* the reference.
LEMMA UsersStep ==
  ASSUME OwnInv, [Next]_vars, "alloc_inode" \notin Faults
  PROVE  \/ \E t \in Tasks : IgetInit(t)
         \/ \E s \in Slots : EvictInode(s)
         \/ /\ UNCHANGED <<lowerRef, doubled>>
            /\ \A s \in Slots : inode'[s].l = inode[s].l
<1>0. inode \in [Slots -> Inode]
  BY DEF OwnInv, CoreType
<1>1. ASSUME NEW t \in Tasks, StartCall(t) \/ Continue(t), ~ IgetInit(t)
      PROVE  /\ UNCHANGED <<lowerRef, doubled>>
             /\ \A s \in Slots : inode'[s].l = inode[s].l
  <2>1. ~ IgetNoMemory(t)
    BY Zenon DEF IgetNoMemory, Fails
  <2>2. UNCHANGED <<lowerRef, doubled>>
    BY Zenon, <1>1, <2>1, OnlyIget
  <2>3. IgetFound(t) \/ IgetNew(t) \/ Interpose(t) \/ Steady(t)
    BY Zenon, <1>1, SteadyStep
  <2>4. \A s \in Slots : inode'[s].l = inode[s].l
    BY <1>0, <2>3 DEF IgetFound, IgetNew, Interpose, Steady, Inode
  <2> QED
    BY Zenon, <2>2, <2>4
<1>2. ASSUME NEW d \in Dentries, FileRelease(d) \/ DentryKill(d) \/ DentryRelease(d)
      PROVE  /\ UNCHANGED <<lowerRef, doubled>>
             /\ \A s \in Slots : inode'[s].l = inode[s].l
  BY <1>0, <1>2 DEF FileRelease, DentryKill, DentryRelease, attrVars, Inode
<1>3. ASSUME NEW r \in Slots, DestroyInode(r)
      PROVE  /\ UNCHANGED <<lowerRef, doubled>>
             /\ \A s \in Slots : inode'[s].l = inode[s].l
  BY Zenon, <1>0, <1>3 DEF DestroyInode, FreeInode, OwnInv, SlotOK
<1>4. CASE UNCHANGED vars
  BY <1>4 DEF vars, attrVars
<1> QED
  BY Zenon, <1>1, <1>2, <1>3, <1>4 DEF Next

RefInv == lowerRef \in [LowerInodes -> Int] /\ LowerRefsBalanced

\* One step keeps the references to lower inodes balanced.
LEMMA RefNext ==
  ASSUME OwnInv, RefInv, [Next]_vars, "alloc_inode" \notin Faults
  PROVE  RefInv'
<1>0. /\ inode \in [Slots -> Inode] /\ lowerRef \in [LowerInodes -> Int]
      /\ \A l \in LowerInodes : lowerRef[l] = Cardinality(Users(l))
  BY Zenon DEF OwnInv, CoreType, RefInv, LowerRefsBalanced, Users
<1>1. SUFFICES /\ lowerRef' \in [LowerInodes -> Int]
               /\ \A l \in LowerInodes : lowerRef'[l] = Cardinality(Users(l)')
  BY Zenon DEF RefInv, LowerRefsBalanced, Users
<1>2. \A l : IsFiniteSet(Users(l))
  <2>1. \A l : Users(l) \subseteq Slots
    BY Zenon DEF Users
  <2> QED
    BY Zenon, <2>1, InodeAssumption, FS_Subset
<1>3. ASSUME NEW t \in Tasks, IgetInit(t)
      PROVE  /\ lowerRef' \in [LowerInodes -> Int]
             /\ \A l \in LowerInodes : lowerRef'[l] = Cardinality(Users(l)')
  <2>1. pc[t] = "ig_init"
    BY Zenon, <1>3 DEF IgetInit, Goto
  <2>2. PICK k \in LowerInodes, s \in Slots : k = dent[cur[t].d].l /\ s = cur[t].s
    BY Zenon, <2>1 DEF OwnInv, StageOK, IgetPcs, IgetOK
  <2>3. /\ inode' = [inode EXCEPT ![s] = [st |-> "live", l |-> k]]
        /\ lowerRef' = [lowerRef EXCEPT ![k] = lowerRef[k] + 1]
    BY Zenon, <1>3, <2>2 DEF IgetInit, Bump
  <2>4. inode[s].l = NULL
    BY Zenon, <2>1, <2>2 DEF OwnInv, IgetOK, SlotOK
  <2>5. s \notin Users(k) /\ Users(k)' = Users(k) \cup {s}
    BY <1>0, <2>3, <2>4, InodeAssumption DEF Users
  <2>6. \A l \in LowerInodes \ {k} : Users(l)' = Users(l)
    BY Zenon, <1>0, <2>3, <2>4, InodeAssumption DEF Users
  <2>7. Cardinality(Users(k)') = Cardinality(Users(k)) + 1
    BY Zenon, <1>2, <2>5, FS_AddElement
  <2> QED
    BY <1>0, <2>3, <2>6, <2>7
<1>4. ASSUME NEW s \in Slots, EvictInode(s)
      PROVE  /\ lowerRef' \in [LowerInodes -> Int]
             /\ \A l \in LowerInodes : lowerRef'[l] = Cardinality(Users(l)')
  <2>1. PICK k \in LowerInodes : k = inode[s].l
    BY Zenon, <1>4 DEF EvictInode, OwnInv, SlotOK
  <2>2. /\ inode' = [inode EXCEPT ![s] = [st |-> "clear", l |-> NULL]]
        /\ lowerRef' = [lowerRef EXCEPT ![k] = lowerRef[k] - 1]
    BY Zenon, <1>0, <1>4, <2>1 DEF EvictInode, Bump
  <2>3. s \in Users(k) /\ Users(k)' = Users(k) \ {s}
    BY Zenon, <1>0, <2>1, <2>2, InodeAssumption DEF Users
  <2>4. \A l \in LowerInodes \ {k} : Users(l)' = Users(l)
    BY Zenon, <1>0, <2>1, <2>2, InodeAssumption DEF Users
  <2>5. Cardinality(Users(k)') = Cardinality(Users(k)) - 1
    BY Zenon, <1>2, <2>3, FS_RemoveElement
  <2> QED
    BY <1>0, <2>2, <2>4, <2>5
<1>5. ASSUME UNCHANGED lowerRef, \A s \in Slots : inode'[s].l = inode[s].l
      PROVE  /\ lowerRef' \in [LowerInodes -> Int]
             /\ \A l \in LowerInodes : lowerRef'[l] = Cardinality(Users(l)')
  <2>1. \A l \in LowerInodes : Users(l)' = Users(l)
    BY <1>5 DEF Users
  <2> QED
    BY Zenon, <1>0, <1>5, <2>1
<1> QED
  BY Zenon, <1>3, <1>4, <1>5, UsersStep

\* wrapfs_iget and wrapfs_evict_inode keep one reference to a lower inode for
\* each wrapfs inode that points to it, whatever fails and whichever tasks
\* look the file up, as long as the VFS can allocate inodes: wrapfs_iget puts
\* a reference it does not have when iget5_locked cannot.
THEOREM LowerReferencesBalanced ==
  ASSUME "alloc_inode" \notin Faults
  PROVE  Spec => []LowerRefsBalanced
<1>1. ASSUME Init PROVE RefInv
  <2>1. ASSUME NEW l \in LowerInodes
        PROVE  Cardinality({s \in Slots : inode[s].l = l}) = 0
    <3>1. {s \in Slots : inode[s].l = l} = {}
      BY <1>1, InodeAssumption DEF Init, FreeInode
    <3> QED
      BY Zenon, <3>1, FS_EmptySet
  <2>2. lowerRef \in [LowerInodes -> Int] /\ \A l \in LowerInodes : lowerRef[l] = 0
    BY <1>1 DEF Init
  <2> QED
    BY Zenon, <2>1, <2>2 DEF RefInv, LowerRefsBalanced
<1>2. OwnInv /\ RefInv /\ [Next]_vars => RefInv'
  BY RefNext
<1>3. RefInv => LowerRefsBalanced
  BY DEF RefInv
<1> QED
  BY <1>1, <1>2, <1>3, Ownership, PTL DEF Spec

-----------------------------------------------------------------------------
(***************************************************************************)
(* References to lower paths, write access to the lower mount, locks.      *)
(***************************************************************************)

\* The call has its references, from wrapfs_get_lower_path to
\* wrapfs_put_lower_path.
GotRefs(t) ==
  \/ pc[t] \in OpPcs \ {"op_lock", "op_return"}
  \/ pc[t] \in IgetPcs /\ cur[t].op \in MakeOps

\* wrapfs_lookup has a reference to the lower path of the parent.
InLookup(t) ==
  \/ pc[t] \in LookPcs
  \/ pc[t] \in IgetPcs /\ cur[t].op \notin MakeOps

\* Each reference a call has to the lower path of a dentry: of its own, for
\* unlink also to the lower dentry, of the source, and of the file to open.
RefKinds == {"own", "unlinked", "source", "opened"}
Refers(t, k, d) ==
  \/ k = "own" /\ GotRefs(t) /\ cur[t].d = d
  \/ k = "unlinked" /\ GotRefs(t) /\ cur[t].d = d /\ cur[t].op = "unlink"
  \/ k = "source" /\ GotRefs(t) /\ cur[t].e = d
  \/ k = "opened" /\ pc[t] = "open_lower" /\ cur[t].d = d
Refs(d) == {x \in Tasks \X RefKinds : Refers(x[1], x[2], d)}

PathSet(d) == IF dent[d].path THEN 1 ELSE 0
PathInv ==
  /\ opens \in [Dentries -> Nat] /\ pathRef \in [Dentries -> Nat]
  /\ \A d \in Dentries :
       /\ pathRef[d] = opens[d] + PathSet(d) + Cardinality(Refs(d))
       /\ opens[d] > 0 => dent[d].st \in InUse

\* Each mnt_want_write of a call that has not been dropped; rename has two.
Wants(t, k) ==
  \/ k = "old" /\ GotRefs(t) /\ pc[t] \notin {"op_want", "op_unlock"}
  \/ k = "new" /\ cur[t].op = "rename" /\ pc[t] \in {"op_do", "op_out"}
Writers == {x \in Tasks \X {"old", "new"} : Wants(x[1], x[2])}
MountInv == mntWriters = Cardinality(Writers)

\* Locks are held by calls that are to release them.
LockInv ==
  /\ parentRef \in [Dirs -> Nat]
  /\ \A i \in Dirs :
       /\ parentRef[i] = IF \E t \in Tasks : InLookup(t) /\ DirOf[cur[t].n] = i
                         THEN 1 ELSE 0
       /\ dirLock[i] # NoTask => /\ pc[dirLock[i]] \in DirPcs
                                 /\ i \in UpperDirs(cur[dirLock[i]])
       /\ lowerLock[i] # NoTask => /\ GotRefs(lowerLock[i])
                                   /\ i \in LowerDirs(cur[lowerLock[i]])

\* What most steps of a call keep.
SameRefs(t) ==
  /\ GotRefs(t)' <=> GotRefs(t)
  /\ pc[t] # "open_lower" /\ pc'[t] # "open_lower"
  /\ GotRefs(t) => /\ cur'[t].d = cur[t].d /\ cur'[t].e = cur[t].e
                   /\ cur'[t].op = cur[t].op
SameWants(t) == \A k \in {"old", "new"} : Wants(t, k)' <=> Wants(t, k)
SameLook(t) ==
  /\ InLookup(t)' <=> InLookup(t)
  /\ InLookup(t) => cur'[t].n = cur[t].n
Keeps(t) ==
  /\ OpLock(t) \/ OpUnlock(t) \/ OpenCheck(t) \/ OpenLower(t) \/ SameRefs(t)
  /\ OpWantWrite(t) \/ OpWantNewWrite(t) \/ OpDropWrite(t) \/ SameWants(t)
  /\ \/ LookupBegin(t) \/ LookupNegative(t) \/ Interpose(t)
     \/ LookupFails(t) /\ InLookup(t)
     \/ SameLook(t)

\* Every step of a call is such a step.
LEMMA KeepsStep ==
  ASSUME OwnInv, NEW t \in Tasks, StartCall(t) \/ Continue(t)
  PROVE  Keeps(t)
<1>0. /\ pc \in [Tasks -> PCs] /\ cur \in [Tasks -> Call] /\ cur[t] \in Call
  BY Zenon DEF OwnInv, CoreType
<1>s. StageOK(t)
  BY DEF OwnInv
<1> DEFINE Stay == SameRefs(t) /\ SameWants(t)
<1> USE DEF GotRefs, InLookup, Wants, SameRefs, SameWants, SameLook, OpPcs, IgetPcs,
        LookPcs, MakeOps
<1>f. ASSUME Finish(t) PROVE pc'[t] = "idle" /\ cur'[t] = NoCall
  BY Zenon, <1>0, <1>f DEF Finish
<1>1. ASSUME NEW c, NEW to \in {"lk_info", "op_lock", "open_check"}, Begin(t, c, to)
      PROVE  Stay /\ pc[t] = "idle" /\ pc'[t] = to
  BY <1>0, <1>1 DEF Begin, Goto
<1>2. CASE LookupBegin(t)
  <2>1. PICK op, n, d, e : LookupFor(t, op, n, d, e)
    BY <1>2 DEF LookupBegin
  <2>2. Stay
    BY Zenon, <1>1, <2>1 DEF LookupFor
  <2> QED
    BY Zenon, <1>2, <2>2 DEF Keeps
<1>3. CASE RemoveBegin(t) \/ RenameBegin(t) \/ OpenBegin(t)
  <2>1. Stay /\ SameLook(t)
    BY Zenon, <1>1, <1>3 DEF RemoveBegin, RenameBegin, OpenBegin
  <2> QED
    BY Zenon, <2>1 DEF Keeps
<1>4. ASSUME LookupFails(t), pc[t] \in LookPcs \/ (pc[t] = "ig_fail" /\ cur[t].op \notin MakeOps)
      PROVE  Keeps(t)
  <2>1. pc'[t] = "idle" /\ cur'[t] = NoCall
    BY Zenon, <1>4, <1>f DEF LookupFails
  <2>2. Stay /\ InLookup(t)
    BY Zenon, <1>4, <2>1 DEF NoCall
  <2> QED
    BY Zenon, <1>4, <2>2 DEF Keeps
<1>5. CASE LookupInfo(t) \/ LookupError(t)
  <2>1. CASE LookupFails(t)
    BY Zenon, <1>4, <1>5, <2>1 DEF LookupInfo, LookupError
  <2>2. CASE ~ LookupFails(t)
    <3>1. pc[t] = "lk_info" /\ pc'[t] = "lk_path" /\ cur' = cur
      BY Zenon, <1>0, <1>5, <2>2 DEF LookupInfo, LookupError
    <3>2. Stay /\ SameLook(t)
      BY Zenon, <3>1
    <3> QED
      BY Zenon, <3>2 DEF Keeps
  <2> QED
    BY Zenon, <2>1, <2>2
<1>6. CASE LookupPositive(t)
  <2>1. /\ pc[t] = "lk_path" /\ pc'[t] = "ig_find" /\ cur'[t].n = cur[t].n
        /\ cur'[t].op \in {"lookup", "rename"}
    BY Zenon, <1>0, <1>6 DEF LookupPositive, Goto, Call
  <2>2. Stay /\ SameLook(t)
    BY Zenon, <2>1
  <2> QED
    BY <2>2 DEF Keeps
<1>7. CASE LookupNegative(t)
  <2>1. CASE LookupFails(t)
    BY Zenon, <1>4, <1>7, <2>1 DEF LookupNegative
  <2>2. CASE ~ LookupFails(t)
    <3>1. pc[t] = "lk_path" /\ pc'[t] = "op_lock"
      BY Zenon, <1>0, <1>7, <2>2 DEF LookupNegative
    <3>2. Stay
      BY Zenon, <3>1
    <3> QED
      BY Zenon, <1>7, <3>2 DEF Keeps
  <2> QED
    BY <2>1, <2>2
<1>8. CASE IgetFound(t) \/ IgetNew(t) \/ IgetNoMemory(t) \/ IgetInit(t)
  <2>1. pc[t] \in IgetPcs /\ pc'[t] \in IgetPcs
    BY Zenon, <1>0, <1>8 DEF IgetFound, IgetNew, IgetNoMemory, IgetInit, Goto
  <2>2. /\ cur'[t].d = cur[t].d /\ cur'[t].e = cur[t].e /\ cur'[t].n = cur[t].n
        /\ cur'[t].op = cur[t].op
    BY <1>0, <1>8 DEF IgetFound, IgetNew, IgetNoMemory, IgetInit, Call
  <2>3. Stay /\ SameLook(t)
    BY <2>1, <2>2
  <2> QED
    BY <2>3 DEF Keeps
<1>9. CASE Interpose(t)
  <2>1. /\ pc[t] = "ig_add"
        /\ \/ cur[t].op = "lookup" /\ pc'[t] = "idle"
           \/ cur[t].op = "rename" /\ pc'[t] = "op_lock"
           \/ cur[t].op \in MakeOps /\ pc'[t] = "op_out" /\ cur' = cur
    BY Zenon, <1>0, <1>9, <1>f DEF Interpose
  <2>2. Stay
    BY Zenon, <2>1
  <2> QED
    BY Zenon, <1>9, <2>2 DEF Keeps
<1>10. CASE InterposeFails(t)
  <2>1. CASE cur[t].op \in {"lookup", "rename"}
    BY Zenon, <1>4, <1>10, <2>1 DEF InterposeFails
  <2>2. CASE cur[t].op \notin {"lookup", "rename"}
    <3>1. /\ pc[t] = "ig_fail" /\ cur[t].op \in MakeOps /\ pc'[t] = "op_out"
          /\ cur'[t].d = cur[t].d /\ cur'[t].e = cur[t].e
          /\ cur'[t].op = cur[t].op
      BY <1>0, <1>10, <2>2 DEF InterposeFails, Call
    <3>2. Stay /\ SameLook(t)
      BY <3>1
    <3> QED
      BY <3>2 DEF Keeps
  <2> QED
    BY Zenon, <2>1, <2>2
<1>11. CASE RenameRefused(t)
  <2>1. pc[t] = "op_lock" /\ pc'[t] = "op_return"
    BY Zenon, <1>0, <1>11 DEF RenameRefused, Goto
  <2>2. Stay /\ SameLook(t)
    BY <2>1
  <2> QED
    BY <2>2 DEF Keeps
<1>12. CASE OpLock(t) \/ OpUnlock(t)
  <2>1. /\ \/ pc[t] = "op_lock" /\ pc'[t] = "op_want"
           \/ pc[t] = "op_unlock" /\ pc'[t] = "op_return"
        /\ cur' = cur
    BY Zenon, <1>0, <1>12 DEF OpLock, OpUnlock, Goto
  <2>2. SameWants(t) /\ SameLook(t)
    BY <2>1
  <2> QED
    BY Zenon, <1>12, <2>2 DEF Keeps
<1>13. CASE OpWantWrite(t) \/ OpWantNewWrite(t) \/ OpDropWrite(t)
  <2>1. /\ pc[t] \in OpPcs \ {"op_lock", "op_return"}
        /\ pc'[t] \in OpPcs \ {"op_lock", "op_return"}
    BY Zenon, <1>0, <1>13 DEF OpWantWrite, OpWantNewWrite, OpDropWrite, Goto, WantNext
  <2>2. cur'[t].d = cur[t].d /\ cur'[t].e = cur[t].e /\ cur'[t].op = cur[t].op
    BY Zenon, <1>0, <1>13 DEF OpWantWrite, OpWantNewWrite, OpDropWrite, Call
  <2>3. SameRefs(t) /\ SameLook(t)
    BY <2>1, <2>2
  <2> QED
    BY Zenon, <1>13, <2>3 DEF Keeps
<1>14. CASE OpCreate(t) \/ OpMknod(t) \/ OpSymlink(t) \/ OpMkdir(t) \/ OpLink(t)
  <2>1. /\ pc[t] = "op_do" /\ pc'[t] = "ig_find" /\ cur' = cur /\ cur[t].op \in MakeOps
    BY Zenon, <1>0, <1>14 DEF OpCreate, OpMknod, OpSymlink, OpMkdir, OpLink, OpMake, Goto
  <2>2. Stay /\ SameLook(t)
    BY <2>1
  <2> QED
    BY <2>2 DEF Keeps
<1>15. CASE OpUnlink(t) \/ OpRmdir(t) \/ OpRename(t) \/ OpUnlinkBug(t) \/ OpFails(t)
  <2>1. /\ pc[t] = "op_do" /\ pc'[t] \in {"op_out", "dead"}
        /\ pc'[t] = "dead" => cur[t].op # "rename"
    BY Zenon, <1>0, <1>15 DEF OpUnlink, OpRmdir, OpRename, OpUnlinkBug, OpFails, Goto
  <2>2. cur'[t].d = cur[t].d /\ cur'[t].e = cur[t].e /\ cur'[t].op = cur[t].op
    BY Zenon, <1>0, <1>15 DEF OpUnlink, OpRmdir, OpRename, OpUnlinkBug, OpFails, Call
  <2>3. Stay /\ SameLook(t)
    BY <2>1, <2>2
  <2> QED
    BY <2>3 DEF Keeps
<1>16. CASE OpReturn(t)
  <2>1. pc[t] = "op_return" /\ pc'[t] = "idle"
    BY Zenon, <1>16, <1>f DEF OpReturn
  <2>2. Stay /\ SameLook(t)
    BY <2>1
  <2> QED
    BY <2>2 DEF Keeps
<1>17. CASE OpenCheck(t) \/ OpenLower(t)
  <2>1. pc[t] \in OpenPcs /\ pc'[t] \in OpenPcs \cup {"idle"}
    BY Zenon, <1>0, <1>17 DEF OpenCheck, OpenLower, OpenReturn, OpenPcs
  <2>2. SameWants(t) /\ SameLook(t)
    BY Zenon, <2>1 DEF OpenPcs
  <2> QED
    BY Zenon, <1>17, <2>2 DEF Keeps
<1> QED
  BY Zenon, <1>2, <1>3, <1>5, <1>6, <1>7, <1>8, <1>9, <1>10, <1>11, <1>12, <1>13, <1>14,
     <1>15, <1>16, <1>17 DEF StartCall, Continue

\* Only the step's own task changes what it has.
LEMMA OthersKeep ==
  ASSUME OwnInv, NEW t \in Tasks, StartCall(t) \/ Continue(t)
  PROVE  /\ \A u \in Tasks \ {t} : /\ GotRefs(u)' <=> GotRefs(u)
                                   /\ InLookup(u)' <=> InLookup(u)
                                   /\ cur'[u] = cur[u] /\ pc'[u] = pc[u]
         /\ \A u \in Tasks \ {t} : \A k, d : Refers(u, k, d)' <=> Refers(u, k, d)
         /\ \A u \in Tasks \ {t} : \A k : Wants(u, k)' <=> Wants(u, k)
<1>1. \A u \in Tasks \ {t} : pc'[u] = pc[u] /\ cur'[u] = cur[u]
  BY Zenon, LocalStep DEF Local
<1>2. \A u \in Tasks \ {t} : GotRefs(u)' <=> GotRefs(u)
  BY Zenon, <1>1 DEF GotRefs
<1>3. \A u \in Tasks \ {t} : InLookup(u)' <=> InLookup(u)
  BY Zenon, <1>1 DEF InLookup
<1>4. \A u \in Tasks \ {t} : \A k, d : Refers(u, k, d)' <=> Refers(u, k, d)
  BY <1>1, <1>2 DEF Refers
<1>5. \A u \in Tasks \ {t} : \A k : Wants(u, k)' <=> Wants(u, k)
  BY Zenon, <1>1, <1>2 DEF Wants
<1> QED
  BY Zenon, <1>1, <1>2, <1>3, <1>4, <1>5

\* The references and the write accesses of calls are finitely many.
LEMMA RefsFinite == IsFiniteSet(Writers) /\ \A d : IsFiniteSet(Refs(d))
<1>0. IsFiniteSet({"old", "new"}) /\ IsFiniteSet(RefKinds)
  <2>1. IsFiniteSet({"old"}) /\ IsFiniteSet({"own"})
    BY Zenon, FS_Singleton
  <2>2. IsFiniteSet({"old"} \cup {"new"}) /\ IsFiniteSet({"own"} \cup {"unlinked"})
    BY Zenon, <2>1, FS_AddElement
  <2>3. IsFiniteSet(({"own"} \cup {"unlinked"}) \cup {"source"})
    BY Zenon, <2>2, FS_AddElement
  <2>4. IsFiniteSet((({"own"} \cup {"unlinked"}) \cup {"source"}) \cup {"opened"})
    BY <2>3, FS_AddElement
  <2>5. {"old"} \cup {"new"} = {"old", "new"}
    OBVIOUS
  <2>6. (({"own"} \cup {"unlinked"}) \cup {"source"}) \cup {"opened"} = RefKinds
    BY DEF RefKinds
  <2> QED
    BY Zenon, <2>2, <2>4, <2>5, <2>6
<1>1. IsFiniteSet(Tasks \X {"old", "new"}) /\ IsFiniteSet(Tasks \X RefKinds)
  BY Zenon, <1>0, InodeAssumption, FS_Product
<1>2. Writers \subseteq Tasks \X {"old", "new"}
  BY DEF Writers
<1>3. \A d : Refs(d) \subseteq Tasks \X RefKinds
  BY Zenon DEF Refs
<1> QED
  BY Zenon, <1>1, <1>2, <1>3, FS_Subset

\* OpLock takes one reference, for unlink two, and for the source one;
\* OpUnlock puts them.
LEMMA RefsTaken ==
  ASSUME OwnInv, NEW t \in Tasks, OpLock(t), NEW x \in Dentries
  PROVE  /\ Cardinality(Refs(x)') = Cardinality(Refs(x)) + CallRefs(t, x)
         /\ CallRefs(t, x) \in Nat
<1>0. pc \in [Tasks -> PCs] /\ CallOK(t)
  BY Zenon DEF OwnInv, CoreType
<1>1. pc[t] = "op_lock" /\ pc'[t] = "op_want" /\ cur' = cur
  BY Zenon, <1>0 DEF OpLock, Goto
<1>2. /\ cur[t].d \in Dentries
      /\ cur[t].op \in {"link", "rename"} => cur[t].e \in Dentries \ {cur[t].d}
      /\ cur[t].op \notin {"link", "rename"} => cur[t].e = NULL
  BY <1>0, <1>1 DEF CallOK, DirPcs, OpPcs
<1>3. \A u \in Tasks \ {t} : \A k : Refers(u, k, x)' <=> Refers(u, k, x)
  BY Zenon, OthersKeep DEF Continue
<1>4. ~ GotRefs(t) /\ GotRefs(t)'
  BY Zenon, <1>1 DEF GotRefs, OpPcs, IgetPcs
<1>5. \A k : ~ Refers(t, k, x)
  BY Zenon, <1>1, <1>4 DEF Refers
<1>6. \A k \in RefKinds :
        Refers(t, k, x)' <=> \/ k = "own" /\ cur[t].d = x
                             \/ k = "unlinked" /\ cur[t].d = x /\ cur[t].op = "unlink"
                             \/ k = "source" /\ cur[t].e = x
  <2> SUFFICES ASSUME NEW k \in RefKinds
               PROVE  Refers(t, k, x)' <=>
                        \/ k = "own" /\ cur[t].d = x
                        \/ k = "unlinked" /\ cur[t].d = x /\ cur[t].op = "unlink"
                        \/ k = "source" /\ cur[t].e = x
    OBVIOUS
  <2>1. pc[t]' # "open_lower"
    BY <1>1
  <2> QED
    BY Zenon, <1>1, <1>4, <2>1 DEF Refers
<1>7. \A k : <<t, k>> \notin Refs(x)
  BY Zenon, <1>5 DEF Refs
<1>8. CASE x = cur[t].d /\ cur[t].op = "unlink"
  <2>0. \A k \in RefKinds : Refers(t, k, x)' <=> k \in {"own", "unlinked"}
    BY Zenon, <1>2, <1>6, <1>8, InodeAssumption
  <2>1. Refs(x)' = (Refs(x) \cup {<<t, "own">>}) \cup {<<t, "unlinked">>}
    BY <1>3, <1>5, <2>0 DEF Refs, RefKinds
  <2>2. PICK A : A = Refs(x) \cup {<<t, "own">>}
    BY Zenon
  <2>3. IsFiniteSet(A) /\ Cardinality(A) = Cardinality(Refs(x)) + 1
    BY Zenon, <1>7, <2>2, RefsFinite, FS_AddElement
  <2>4. <<t, "unlinked">> \notin A /\ Refs(x)' = A \cup {<<t, "unlinked">>}
    BY Zenon, <1>7, <2>1, <2>2
  <2>5. Cardinality(Refs(x)') = Cardinality(A) + 1
    BY Zenon, <2>3, <2>4, FS_AddElement
  <2>6. Cardinality(Refs(x)) \in Nat
    BY Zenon, RefsFinite, FS_CardinalityType
  <2> QED
    BY <1>8, <2>3, <2>5, <2>6 DEF CallRefs
<1>9. CASE x = cur[t].d /\ cur[t].op # "unlink"
  <2>0. \A k \in RefKinds : Refers(t, k, x)' <=> k = "own"
    BY Zenon, <1>2, <1>6, <1>9, InodeAssumption
  <2>1. Refs(x)' = Refs(x) \cup {<<t, "own">>}
    BY <1>3, <1>5, <2>0 DEF Refs, RefKinds
  <2> QED
    BY Zenon, <1>7, <1>9, <2>1, RefsFinite, FS_AddElement DEF CallRefs
<1>10. CASE x = cur[t].e /\ x # cur[t].d
  <2>1. Refs(x)' = Refs(x) \cup {<<t, "source">>}
    BY <1>3, <1>5, <1>6, <1>10 DEF Refs, RefKinds
  <2> QED
    BY Zenon, <1>7, <1>10, <2>1, RefsFinite, FS_AddElement DEF CallRefs
<1>11. CASE x # cur[t].e /\ x # cur[t].d
  <2>1. Refs(x)' = Refs(x)
    BY Zenon, <1>3, <1>5, <1>6, <1>11 DEF Refs
  <2> QED
    BY <1>11, <2>1, RefsFinite, FS_CardinalityType DEF CallRefs
<1> QED
  BY Zenon, <1>8, <1>9, <1>10, <1>11

\* A call that puts its lower paths has so many references less.
LEMMA RefsPut ==
  ASSUME OwnInv, NEW t \in Tasks, OpUnlock(t), NEW x \in Dentries
  PROVE  /\ Cardinality(Refs(x)) = Cardinality(Refs(x)') + CallRefs(t, x)
         /\ CallRefs(t, x) \in Nat
<1>0. pc \in [Tasks -> PCs] /\ CallOK(t)
  BY DEF OwnInv, CoreType
<1>1. pc[t] = "op_unlock" /\ pc'[t] = "op_return" /\ cur' = cur
  BY <1>0 DEF OpUnlock, Goto
<1>2. /\ cur[t].d \in Dentries
      /\ cur[t].op \in {"link", "rename"} => cur[t].e \in Dentries \ {cur[t].d}
      /\ cur[t].op \notin {"link", "rename"} => cur[t].e = NULL
  BY Zenon, <1>0, <1>1 DEF CallOK, DirPcs, OpPcs
<1>3. \A u \in Tasks \ {t} : \A k : Refers(u, k, x)' <=> Refers(u, k, x)
  BY Zenon, OthersKeep DEF Continue
<1>4. GotRefs(t) /\ ~ GotRefs(t)'
  BY Zenon, <1>1 DEF GotRefs, OpPcs, IgetPcs
<1>5. \A k : ~ Refers(t, k, x)'
  BY Zenon, <1>1, <1>4 DEF Refers
<1>6. \A k \in RefKinds :
        Refers(t, k, x) <=> \/ k = "own" /\ cur[t].d = x
                            \/ k = "unlinked" /\ cur[t].d = x /\ cur[t].op = "unlink"
                            \/ k = "source" /\ cur[t].e = x
  <2> SUFFICES ASSUME NEW k \in RefKinds
               PROVE  Refers(t, k, x) <=>
                        \/ k = "own" /\ cur[t].d = x
                        \/ k = "unlinked" /\ cur[t].d = x /\ cur[t].op = "unlink"
                        \/ k = "source" /\ cur[t].e = x
    BY Zenon
  <2>1. pc[t] # "open_lower"
    BY Zenon, <1>1
  <2> QED
    BY Zenon, <1>1, <1>4, <2>1 DEF Refers
<1>f. IsFiniteSet(Refs(x)')
  <2>1. Refs(x)' \subseteq Refs(x)
    BY Zenon, <1>3, <1>5 DEF Refs
  <2> QED
    BY Zenon, <2>1, RefsFinite, FS_Subset
<1>7. \A k : <<t, k>> \notin Refs(x)'
  BY Zenon, <1>5 DEF Refs
<1>8. CASE x = cur[t].d /\ cur[t].op = "unlink"
  <2>0. \A k \in RefKinds : Refers(t, k, x) <=> k \in {"own", "unlinked"}
    BY Zenon, <1>2, <1>6, <1>8, InodeAssumption
  <2>1. Refs(x) = (Refs(x)' \cup {<<t, "own">>}) \cup {<<t, "unlinked">>}
    BY <1>3, <1>5, <2>0 DEF Refs, RefKinds
  <2>2. PICK A : A = Refs(x)' \cup {<<t, "own">>}
    BY Zenon
  <2>3. IsFiniteSet(A) /\ Cardinality(A) = Cardinality(Refs(x)') + 1
    BY Zenon, <1>7, <2>2, <1>f, FS_AddElement
  <2>4. <<t, "unlinked">> \notin A /\ Refs(x) = A \cup {<<t, "unlinked">>}
    BY Zenon, <1>7, <2>1, <2>2
  <2>5. Cardinality(Refs(x)) = Cardinality(A) + 1
    BY Zenon, <2>3, <2>4, FS_AddElement
  <2>6. Cardinality(Refs(x)') \in Nat
    BY Zenon, <1>f, FS_CardinalityType
  <2> QED
    BY <1>8, <2>3, <2>5, <2>6 DEF CallRefs
<1>9. CASE x = cur[t].d /\ cur[t].op # "unlink"
  <2>0. \A k \in RefKinds : Refers(t, k, x) <=> k = "own"
    BY Zenon, <1>2, <1>6, <1>9, InodeAssumption
  <2>1. Refs(x) = Refs(x)' \cup {<<t, "own">>}
    BY <1>3, <1>5, <2>0 DEF Refs, RefKinds
  <2> QED
    BY Zenon, <1>7, <1>9, <1>f, <2>1, FS_AddElement DEF CallRefs
<1>10. CASE x = cur[t].e /\ x # cur[t].d
  <2>1. Refs(x) = Refs(x)' \cup {<<t, "source">>}
    BY <1>3, <1>5, <1>6, <1>10 DEF Refs, RefKinds
  <2> QED
    BY Zenon, <1>7, <1>10, <1>f, <2>1, FS_AddElement DEF CallRefs
<1>11. CASE x # cur[t].e /\ x # cur[t].d
  <2>1. Refs(x)' = Refs(x)
    BY Zenon, <1>3, <1>5, <1>6, <1>11 DEF Refs
  <2> QED
    BY <1>11, <1>f, <2>1, FS_CardinalityType DEF CallRefs
<1> QED
  BY Zenon, <1>8, <1>9, <1>10, <1>11

\* A call that keeps its references leaves those to every dentry as they are.
LEMMA RefsKept ==
  ASSUME OwnInv, NEW t \in Tasks, StartCall(t) \/ Continue(t), SameRefs(t), NEW x
  PROVE  Refs(x)' = Refs(x)
<1>1. \A k : Refers(t, k, x)' <=> Refers(t, k, x)
  BY DEF SameRefs, Refers
<1>2. \A u \in Tasks : \A k : Refers(u, k, x)' <=> Refers(u, k, x)
  BY Zenon, <1>1, OthersKeep
<1> QED
  BY Zenon, <1>2 DEF Refs

\* wrapfs_open takes a reference that the lower file gets, or loses.
LEMMA RefsOpened ==
  ASSUME OwnInv, NEW t \in Tasks, OpenCheck(t), NEW x \in Dentries
  PROVE  Cardinality(Refs(x)') =
           IF pc'[t] = "open_lower" /\ x = cur[t].d THEN Cardinality(Refs(x)) + 1
           ELSE Cardinality(Refs(x))
<1>0. pc \in [Tasks -> PCs]
  BY Zenon DEF OwnInv, CoreType
<1>1. /\ pc[t] = "open_check" /\ pc'[t] \in {"open_lower", "idle"}
      /\ pc'[t] = "open_lower" => cur' = cur
  BY Zenon, <1>0 DEF OpenCheck, OpenReturn
<1>2. ~ GotRefs(t) /\ ~ GotRefs(t)'
  BY <1>1 DEF GotRefs, OpPcs, IgetPcs
<1>3. \A u \in Tasks \ {t} : \A k : Refers(u, k, x)' <=> Refers(u, k, x)
  BY Zenon, OthersKeep DEF Continue
<1>4. \A k : ~ Refers(t, k, x)
  BY Zenon, <1>1, <1>2 DEF Refers
<1>5. CASE pc'[t] = "open_lower" /\ x = cur[t].d
  <2>1. \A k : Refers(t, k, x)' <=> k = "opened"
    BY Zenon, <1>1, <1>2, <1>5 DEF Refers
  <2>2. Refs(x)' = Refs(x) \cup {<<t, "opened">>} /\ <<t, "opened">> \notin Refs(x)
    BY <1>3, <1>4, <2>1 DEF Refs, RefKinds
  <2> QED
    BY Zenon, <1>5, <2>2, RefsFinite, FS_AddElement
<1>6. CASE ~ (pc'[t] = "open_lower" /\ x = cur[t].d)
  <2>1. \A k : ~ Refers(t, k, x)'
    BY Zenon, <1>1, <1>2, <1>6 DEF Refers
  <2>2. Refs(x)' = Refs(x)
    BY Zenon, <1>3, <1>4, <2>1 DEF Refs
  <2> QED
    BY Zenon, <1>6, <2>2
<1> QED
  BY Zenon, <1>5, <1>6

\* wrapfs_open hands its reference on to the file.
LEMMA RefsHandedOn ==
  ASSUME OwnInv, NEW t \in Tasks, OpenLower(t), NEW x \in Dentries
  PROVE  Cardinality(Refs(x)') =
           IF x = cur[t].d THEN Cardinality(Refs(x)) - 1 ELSE Cardinality(Refs(x))
<1>0. pc \in [Tasks -> PCs]
  BY DEF OwnInv, CoreType
<1>1. pc[t] = "open_lower" /\ pc'[t] = "idle"
  BY Zenon, <1>0 DEF OpenLower, OpenReturn
<1>2. ~ GotRefs(t) /\ ~ GotRefs(t)'
  BY <1>1 DEF GotRefs, OpPcs, IgetPcs
<1>3. \A u \in Tasks \ {t} : \A k : Refers(u, k, x)' <=> Refers(u, k, x)
  BY Zenon, OthersKeep DEF Continue
<1>4. \A k : ~ Refers(t, k, x)'
  BY Zenon, <1>1, <1>2 DEF Refers
<1>5. CASE x = cur[t].d
  <2>1. \A k : Refers(t, k, x) <=> k = "opened"
    BY Zenon, <1>1, <1>2, <1>5 DEF Refers
  <2>2. Refs(x)' = Refs(x) \ {<<t, "opened">>} /\ <<t, "opened">> \in Refs(x)
    BY <1>3, <1>4, <2>1 DEF Refs, RefKinds
  <2> QED
    BY Zenon, <1>5, <2>2, RefsFinite, FS_RemoveElement
<1>6. CASE x # cur[t].d
  <2>1. \A k : ~ Refers(t, k, x)
    BY Zenon, <1>1, <1>2, <1>6 DEF Refers
  <2>2. Refs(x)' = Refs(x)
    BY Zenon, <1>3, <1>4, <2>1 DEF Refs
  <2> QED
    BY Zenon, <1>6, <2>2
<1> QED
  BY Zenon, <1>5, <1>6

\* A lower path is referenced when it is set and put when it is reset.
PathMoves ==
  /\ pathRef' \in [Dentries -> Int]
  /\ \A x \in Dentries : pathRef'[x] - PathSet(x)' = pathRef[x] - PathSet(x)

\* It is so when neither the counts nor the paths change.
LEMMA PathKept ==
  ASSUME pathRef \in [Dentries -> Int], UNCHANGED pathRef,
         \A x \in Dentries : dent'[x].path <=> dent[x].path
  PROVE  PathMoves
BY Zenon DEF PathMoves, PathSet

\* It is so when a dentry is given a path, with a reference.
LEMMA PathGained ==
  ASSUME pathRef \in [Dentries -> Int], NEW d \in Dentries,
         pathRef' = Bump(pathRef, d, 1), ~ dent[d].path, dent'[d].path,
         \A x \in Dentries \ {d} : dent'[x].path = dent[x].path
  PROVE  PathMoves
BY DEF PathMoves, PathSet, Bump

\* A dentry loses its path, and the reference with it.
LEMMA PathLost ==
  ASSUME pathRef \in [Dentries -> Int], NEW d \in Dentries,
         pathRef' = (IF dent[d].path THEN Bump(pathRef, d, -1) ELSE pathRef),
         ~ dent'[d].path,
         \A x \in Dentries \ {d} : dent'[x].path = dent[x].path
  PROVE  PathMoves
BY DEF PathMoves, PathSet, Bump

\* d_release puts the lower path, if the dentry has one.
LEMMA PathReleased ==
  ASSUME OwnInv, pathRef \in [Dentries -> Int], NEW d \in Dentries, Release(d)
  PROVE  PathMoves
<1>0. dent \in [Dentries -> Dentry]
  BY Zenon DEF OwnInv, CoreType
<1>1. ~ dent'[d].path /\ \A x \in Dentries \ {d} : dent'[x].path = dent[x].path
  BY Zenon, <1>0 DEF Release, FreeDentry
<1>2. pathRef' = (IF dent[d].path THEN Bump(pathRef, d, -1) ELSE pathRef)
  BY DEF Release
<1> QED
  BY Zenon, <1>1, <1>2, PathLost

\* All other steps count a path exactly when a dentry gains or loses it.
LEMMA PathStep ==
  ASSUME OwnInv, pathRef \in [Dentries -> Int], NEW t \in Tasks,
         StartCall(t) \/ Continue(t),
         ~ (OpLock(t) \/ OpUnlock(t) \/ OpenCheck(t) \/ OpenLower(t))
  PROVE  PathMoves
<1>0. dent \in [Dentries -> Dentry] /\ pc \in [Tasks -> PCs]
  BY DEF OwnInv, CoreType
<1>a. pc[t] \in DirPcs => cur[t].d \in Dentries
  BY Zenon DEF OwnInv, CallOK
<1>b. UNCHANGED <<dent, pathRef>> => PathMoves
  BY PathKept
<1>1. CASE LookupBegin(t)
  <2>1. PICK op \in MakeOps \cup {"lookup", "rename"}, n \in Names,
             d \in Dentries, e \in Dentries \cup {NULL} :
               LookupFor(t, op, n, d, e)
    BY Zenon, <1>1 DEF LookupBegin
  <2>2. dent[d] = FreeDentry
    BY Zenon, <2>1 DEF LookupFor, OwnInv, DentOK
  <2>3. \A x \in Dentries : dent'[x].path = dent[x].path
    BY Zenon, <1>0, <2>1, <2>2 DEF LookupFor, FreeDentry
  <2> QED
    BY Zenon, <2>1, <2>3, PathKept DEF LookupFor
<1>2. CASE RemoveBegin(t) \/ RenameBegin(t) \/ OpenBegin(t)
  BY Zenon, <1>2, <1>b DEF RemoveBegin, RenameBegin, OpenBegin
<1>3. ASSUME LookupFails(t), pc[t] \in DirPcs PROVE PathMoves
  BY Zenon, <1>3, <1>a, PathReleased DEF LookupFails
<1>4. CASE LookupInfo(t) \/ LookupError(t)
  BY Zenon, <1>4, <1>3, <1>b DEF LookupInfo, LookupError, DirPcs, LookPcs
<1>5. CASE LookupPositive(t)
  <2>1. PICK d \in Dentries : d = cur[t].d
    BY Zenon, <1>5, <1>a DEF LookupPositive, Goto, DirPcs, LookPcs
  <2>2. ~ dent[d].path
    BY Zenon, <1>5, <2>1 DEF LookupPositive, Goto, OwnInv, StageOK, LookPcs
  <2>3. dent' = [dent EXCEPT ![d].l = target[cur[t].n], ![d].ln = cur[t].n,
                             ![d].path = TRUE]
    BY Zenon, <1>5, <2>1 DEF LookupPositive
  <2>4. dent'[d].path /\ \A x \in Dentries \ {d} : dent'[x].path = dent[x].path
    BY Zenon, <1>0, <2>3 DEF Dentry
  <2>5. pathRef' = Bump(pathRef, d, 1)
    BY Zenon, <1>5, <2>1 DEF LookupPositive
  <2> QED
    BY Zenon, <2>2, <2>4, <2>5, PathGained
<1>6. CASE LookupNegative(t)
  <2>1. CASE LookupFails(t)
    BY Zenon, <1>3, <1>6, <2>1 DEF LookupNegative, DirPcs, LookPcs
  <2>2. CASE ~ LookupFails(t)
    <3>1. PICK d \in Dentries : d = cur[t].d
      BY Zenon, <1>6, <1>a DEF LookupNegative, DirPcs, LookPcs
    <3>2. ~ dent[d].path
      BY Zenon, <1>6, <3>1 DEF LookupNegative, OwnInv, StageOK, LookPcs
    <3>3. dent' = [dent EXCEPT ![d].ln = cur[t].n, ![d].path = TRUE]
      BY Zenon, <1>6, <2>2, <3>1 DEF LookupNegative
    <3>4. dent'[d].path /\ \A x \in Dentries \ {d} : dent'[x].path = dent[x].path
      BY Zenon, <1>0, <3>3 DEF Dentry
    <3>5. pathRef' = Bump(pathRef, d, 1)
      BY Zenon, <1>6, <2>2, <3>1 DEF LookupNegative
    <3> QED
      BY Zenon, <3>2, <3>4, <3>5, PathGained
  <2> QED
    BY Zenon, <2>1, <2>2
<1>7. CASE IgetFound(t) \/ IgetNew(t) \/ IgetNoMemory(t) \/ IgetInit(t)
  BY Zenon, <1>7, <1>b DEF IgetFound, IgetNew, IgetNoMemory, IgetInit
<1>8. CASE Interpose(t)
  <2>1. \A x \in Dentries : dent'[x].path = dent[x].path
    BY <1>0, <1>8 DEF Interpose, Dentry
  <2> QED
    BY Zenon, <1>8, <2>1, PathKept DEF Interpose
<1>9. CASE InterposeFails(t)
  BY Zenon, <1>9, <1>3, <1>b DEF InterposeFails, DirPcs, IgetPcs
<1>10. CASE \/ RenameRefused(t) \/ OpWantWrite(t) \/ OpWantNewWrite(t)
            \/ OpUnlinkBug(t) \/ OpFails(t) \/ OpDropWrite(t)
  BY Zenon, <1>10, <1>b DEF RenameRefused, OpWantWrite, OpWantNewWrite, OpUnlinkBug,
     OpFails, OpDropWrite
<1>11. CASE OpMake(t)
  <2>1. \A x \in Dentries : dent'[x].path = dent[x].path
    <3>1. PICK l : dent' = [dent EXCEPT ![cur[t].d].l = l]
      BY Zenon, <1>11 DEF OpMake
    <3> QED
      BY Zenon, <1>0, <3>1 DEF Dentry
  <2> QED
    BY Zenon, <1>11, <2>1, PathKept DEF OpMake
<1>12. CASE OpUnlink(t) \/ OpRmdir(t)
  <2>1. dent' = [dent EXCEPT ![cur[t].d].st = "unhashed"] /\ UNCHANGED pathRef
    BY Zenon, <1>12 DEF OpUnlink, OpRmdir
  <2>2. \A x \in Dentries : dent'[x].path = dent[x].path
    BY Zenon, <1>0, <2>1 DEF Dentry
  <2> QED
    BY Zenon, <2>1, <2>2, PathKept
<1>13. CASE OpRename(t)
  <2>1. \A x \in Dentries : dent'[x].path = dent[x].path
    BY Zenon, <1>13, RenameEffect
  <2> QED
    BY Zenon, <1>13, <2>1, PathKept DEF OpRename
<1>14. CASE OpReturn(t)
  <2>1. PICK d \in Dentries :
          /\ dent[d].path
          /\ \A x \in Dentries \ {d} : dent'[x].path = dent[x].path
          /\ IF dent[d].ino = NULL
             THEN dent'[d] = FreeDentry /\ pathRef' = Bump(pathRef, d, -1)
             ELSE UNCHANGED pathRef /\ dent'[d].path
    BY <1>14, ReturnEffect
  <2>2. CASE dent[d].ino = NULL
    <3>1. ~ dent'[d].path /\ pathRef' = Bump(pathRef, d, -1)
      BY <2>1, <2>2 DEF FreeDentry
    <3> QED
      BY Zenon, <2>1, <3>1, PathLost
  <2>3. CASE dent[d].ino # NULL
    <3>1. UNCHANGED pathRef /\ \A x \in Dentries : dent'[x].path <=> dent[x].path
      BY Zenon, <2>1, <2>3
    <3> QED
      BY Zenon, <3>1, PathKept
  <2> QED
    BY Zenon, <2>2, <2>3
<1> QED
  BY Zenon, <1>1, <1>2, <1>4, <1>5, <1>6, <1>7, <1>8, <1>9, <1>10, <1>11, <1>12, <1>13,
     <1>14
  DEF StartCall, Continue, OpCreate, OpMknod, OpSymlink, OpMkdir, OpLink

\* Their numbers are natural numbers.
LEMMA RefsCounts ==
  /\ Cardinality(Writers) \in Nat /\ Cardinality(Writers') \in Nat
  /\ \A d : Cardinality(Refs(d)) \in Nat /\ Cardinality(Refs(d)') \in Nat
<1>1. \A S : S \subseteq Tasks \X {"old", "new"} => Cardinality(S) \in Nat
  <2>1. IsFiniteSet({"old"} \cup {"new"})
    BY Zenon, FS_Singleton, FS_AddElement
  <2>2. {"old"} \cup {"new"} = {"old", "new"}
    OBVIOUS
  <2>3. IsFiniteSet(Tasks \X {"old", "new"})
    BY Zenon, <2>1, <2>2, InodeAssumption, FS_Product
  <2> QED
    BY Zenon, <2>3, FS_Subset, FS_CardinalityType
<1>2. \A S : S \subseteq Tasks \X RefKinds => Cardinality(S) \in Nat
  <2>1. IsFiniteSet({"own"} \cup {"unlinked"})
    BY Zenon, FS_Singleton, FS_AddElement
  <2>2. IsFiniteSet(({"own"} \cup {"unlinked"}) \cup {"source"})
    BY Zenon, <2>1, FS_AddElement
  <2>3. IsFiniteSet((({"own"} \cup {"unlinked"}) \cup {"source"}) \cup {"opened"})
    BY <2>2, FS_AddElement
  <2>4. (({"own"} \cup {"unlinked"}) \cup {"source"}) \cup {"opened"} = RefKinds
    BY DEF RefKinds
  <2>5. IsFiniteSet(Tasks \X RefKinds)
    BY Zenon, <2>3, <2>4, InodeAssumption, FS_Product
  <2> QED
    BY Zenon, <2>5, FS_Subset, FS_CardinalityType
<1>3. Writers \subseteq Tasks \X {"old", "new"} /\ Writers' \subseteq Tasks \X {"old", "new"}
  BY DEF Writers
<1>4. \A d : Refs(d) \subseteq Tasks \X RefKinds /\ Refs(d)' \subseteq Tasks \X RefKinds
  BY Zenon DEF Refs
<1> QED
  BY Zenon, <1>1, <1>2, <1>3, <1>4

\* Every step keeps the reference counts of lower paths exact.
LEMMA PathNext ==
  ASSUME OwnInv, PathInv, [Next]_vars
  PROVE  PathInv'
<1>0. /\ opens \in [Dentries -> Nat] /\ pathRef \in [Dentries -> Nat]
      /\ pathRef \in [Dentries -> Int]
  BY DEF PathInv
<1>a. /\ dent \in [Dentries -> Dentry] /\ pc \in [Tasks -> PCs]
      /\ cur \in [Tasks -> Call]
  BY Zenon DEF OwnInv, CoreType
<1>b. \A x \in Dentries :
        /\ pathRef[x] = opens[x] + PathSet(x) + Cardinality(Refs(x))
        /\ PathSet(x) \in Nat /\ PathSet(x)' \in Nat
        /\ Cardinality(Refs(x)) \in Nat /\ Cardinality(Refs(x)') \in Nat
  BY Zenon, RefsCounts DEF PathInv, PathSet
<1>c. \A x \in Dentries : opens[x] > 0 => dent[x].st \in InUse
  BY Zenon DEF PathInv
<1>d. ASSUME opens' \in [Dentries -> Nat], pathRef' \in [Dentries -> Int],
             \A x \in Dentries :
               pathRef'[x] = opens'[x] + PathSet(x)' + Cardinality(Refs(x)'),
             \A x \in Dentries : opens'[x] > 0 => dent'[x].st \in InUse
      PROVE  PathInv'
  <2>1. pathRef' \in [Dentries -> Nat]
    BY <1>b, <1>d
  <2> QED
    BY Zenon, <1>d, <2>1 DEF PathInv
<1>1. ASSUME NEW t \in Tasks, StartCall(t) \/ Continue(t),
             ~ (OpLock(t) \/ OpUnlock(t) \/ OpenCheck(t) \/ OpenLower(t))
      PROVE  PathInv'
  <2>1. PathMoves
    BY Zenon, <1>0, <1>1, PathStep
  <2>2. \A x \in Dentries : Refs(x)' = Refs(x)
    BY Zenon, <1>1, KeepsStep, RefsKept DEF Keeps
  <2>3. opens' = opens
    BY Zenon, <1>1, FrameStep DEF Frame
  <2>4. \A x \in Dentries : dent[x].st \in InUse => dent'[x].st \in InUse
    BY Zenon, <1>1, LocalStep DEF Local
  <2>5. \A x \in Dentries :
          pathRef'[x] = opens'[x] + PathSet(x)' + Cardinality(Refs(x)')
    BY <1>0, <1>b, <2>1, <2>2, <2>3 DEF PathMoves
  <2> QED
    BY Zenon, <1>0, <1>c, <1>d, <2>1, <2>3, <2>4, <2>5 DEF PathMoves
<1>2. ASSUME NEW t \in Tasks, OpLock(t) PROVE PathInv'
  <2>1. /\ UNCHANGED <<dent, opens>>
        /\ pathRef' = [x \in Dentries |-> pathRef[x] + CallRefs(t, x)]
    BY Zenon, <1>2 DEF OpLock
  <2>2. \A x \in Dentries : PathSet(x)' = PathSet(x)
    BY Zenon, <2>1 DEF PathSet
  <2>3. \A x \in Dentries : /\ CallRefs(t, x) \in Nat
          /\ Cardinality(Refs(x)') = Cardinality(Refs(x)) + CallRefs(t, x)
    BY Zenon, <1>2, RefsTaken
  <2>4. pathRef' \in [Dentries -> Int]
    BY <1>0, <2>1, <2>3
  <2>5. \A x \in Dentries :
          pathRef'[x] = opens'[x] + PathSet(x)' + Cardinality(Refs(x)')
    BY <1>0, <1>b, <2>1, <2>2, <2>3
  <2> QED
    BY Zenon, <1>0, <1>c, <1>d, <2>1, <2>4, <2>5
<1>3. ASSUME NEW t \in Tasks, OpUnlock(t) PROVE PathInv'
  <2>1. /\ UNCHANGED <<dent, opens>>
        /\ pathRef' = [x \in Dentries |-> pathRef[x] - CallRefs(t, x)]
    BY Zenon, <1>3 DEF OpUnlock
  <2>2. \A x \in Dentries : PathSet(x)' = PathSet(x)
    BY Zenon, <2>1 DEF PathSet
  <2>3. \A x \in Dentries : /\ CallRefs(t, x) \in Nat
          /\ Cardinality(Refs(x)) = Cardinality(Refs(x)') + CallRefs(t, x)
    BY Zenon, <1>3, RefsPut
  <2>4. pathRef' \in [Dentries -> Int]
    BY <1>0, <2>1, <2>3
  <2>5. \A x \in Dentries :
          pathRef'[x] = opens'[x] + PathSet(x)' + Cardinality(Refs(x)')
    BY <1>0, <1>b, <2>1, <2>2, <2>3
  <2> QED
    BY Zenon, <1>0, <1>c, <1>d, <2>1, <2>4, <2>5
<1>4. ASSUME NEW t \in Tasks, OpenCheck(t) PROVE PathInv'
  <2>1. /\ UNCHANGED <<dent, opens>>
        /\ IF pc'[t] = "open_lower" THEN pathRef' = Bump(pathRef, cur[t].d, 1)
           ELSE UNCHANGED pathRef
    BY Zenon, <1>4, <1>a DEF OpenCheck, OpenReturn
  <2>2. \A x \in Dentries : PathSet(x)' = PathSet(x)
    BY Zenon, <2>1 DEF PathSet
  <2>3. \A x \in Dentries : Cardinality(Refs(x)') =
          IF pc'[t] = "open_lower" /\ x = cur[t].d THEN Cardinality(Refs(x)) + 1
          ELSE Cardinality(Refs(x))
    BY Zenon, <1>4, RefsOpened
  <2>4. pathRef' \in [Dentries -> Int]
    BY <1>0, <2>1 DEF Bump
  <2>5. \A x \in Dentries :
          pathRef'[x] = opens'[x] + PathSet(x)' + Cardinality(Refs(x)')
    BY <1>0, <1>b, <2>1, <2>2, <2>3 DEF Bump
  <2> QED
    BY Zenon, <1>0, <1>c, <1>d, <2>1, <2>4, <2>5
<1>5. ASSUME NEW t \in Tasks, OpenLower(t) PROVE PathInv'
  <2>1. PICK d : d = cur[t].d
    OBVIOUS
  <2>2. d \in Dentries /\ dent[d].st \in InUse
    BY Zenon, <1>5, <2>1 DEF OpenLower, OpenPcs, OwnInv, CallOK
  <2>3. /\ UNCHANGED dent
        /\ \/ opens' = Bump(opens, d, 1) /\ UNCHANGED pathRef
           \/ pathRef' = Bump(pathRef, d, -1) /\ UNCHANGED opens
    BY Zenon, <1>5, <2>1 DEF OpenLower
  <2>4. \A x \in Dentries : PathSet(x)' = PathSet(x)
    BY Zenon, <2>3 DEF PathSet
  <2>5. \A x \in Dentries : Cardinality(Refs(x)') =
          IF x = d THEN Cardinality(Refs(x)) - 1 ELSE Cardinality(Refs(x))
    BY Zenon, <1>5, <2>1, RefsHandedOn
  <2>6. pathRef' \in [Dentries -> Int] /\ opens' \in [Dentries -> Nat]
    BY <1>0, <2>2, <2>3 DEF Bump
  <2>7. \A x \in Dentries :
          pathRef'[x] = opens'[x] + PathSet(x)' + Cardinality(Refs(x)')
    BY <1>0, <1>b, <2>2, <2>3, <2>4, <2>5 DEF Bump
  <2>8. \A x \in Dentries : opens'[x] > 0 => dent'[x].st \in InUse
    BY Zenon, <1>0, <1>c, <2>2, <2>3 DEF Bump
  <2> QED
    BY Zenon, <1>d, <2>6, <2>7, <2>8
<1>6. ASSUME UNCHANGED <<pc, cur>> PROVE \A x \in Dentries : Refs(x)' = Refs(x)
  BY <1>6 DEF Refs, Refers, GotRefs
<1>7. ASSUME NEW d \in Dentries, FileRelease(d) PROVE PathInv'
  <2>1. /\ UNCHANGED <<dent, pc, cur>> /\ opens[d] > 0
        /\ opens' = Bump(opens, d, -1) /\ pathRef' = Bump(pathRef, d, -1)
    BY Zenon, <1>7 DEF FileRelease
  <2>2. \A x \in Dentries : PathSet(x)' = PathSet(x)
    BY Zenon, <2>1 DEF PathSet
  <2>3. pathRef' \in [Dentries -> Int] /\ opens' \in [Dentries -> Nat]
    BY <1>0, <2>1 DEF Bump
  <2>4. \A x \in Dentries :
          pathRef'[x] = opens'[x] + PathSet(x)' + Cardinality(Refs(x)')
    BY <1>0, <1>6, <1>b, <2>1, <2>2 DEF Bump
  <2>5. \A x \in Dentries : opens'[x] > 0 => dent'[x].st \in InUse
    BY Zenon, <1>0, <1>c, <2>1 DEF Bump
  <2> QED
    BY Zenon, <1>d, <2>3, <2>4, <2>5
<1>8. ASSUME NEW d \in Dentries, DentryKill(d) PROVE PathInv'
  <2>1. /\ UNCHANGED <<opens, pathRef, pc, cur>> /\ opens[d] = 0
        /\ dent' = [dent EXCEPT ![d].st = "dying"]
    BY Zenon, <1>8 DEF DentryKill
  <2>2. /\ \A x \in Dentries : dent'[x].path = dent[x].path
        /\ \A x \in Dentries \ {d} : dent'[x] = dent[x]
    BY Zenon, <1>a, <2>1 DEF Dentry
  <2>3. \A x \in Dentries : PathSet(x)' = PathSet(x)
    BY Zenon, <2>2 DEF PathSet
  <2>4. \A x \in Dentries :
          pathRef'[x] = opens'[x] + PathSet(x)' + Cardinality(Refs(x)')
    BY Zenon, <1>6, <1>b, <2>1, <2>3
  <2>5. \A x \in Dentries : opens'[x] > 0 => dent'[x].st \in InUse
    BY <1>c, <2>1, <2>2
  <2> QED
    BY Zenon, <1>0, <1>d, <2>1, <2>4, <2>5
<1>9. ASSUME NEW d \in Dentries, DentryRelease(d) PROVE PathInv'
  <2>1. /\ UNCHANGED <<opens, pc, cur>> /\ dent[d].st = "dying" /\ Release(d)
    BY Zenon, <1>9 DEF DentryRelease
  <2>2. PathMoves
    BY Zenon, <1>0, <2>1, PathReleased
  <2>3. \A x \in Dentries \ {d} : dent'[x] = dent[x]
    BY Zenon, <1>a, <2>1 DEF Release
  <2>4. \A x \in Dentries :
          pathRef'[x] = opens'[x] + PathSet(x)' + Cardinality(Refs(x)')
    <3>1. \A x \in Dentries : Refs(x)' = Refs(x)
      BY Zenon, <1>6, <2>1
    <3>2. opens' = opens
      BY Zenon, <2>1
    <3>3. ASSUME NEW x \in Dentries
          PROVE  /\ pathRef'[x] \in Int /\ pathRef[x] \in Int /\ opens[x] \in Nat
                 /\ pathRef'[x] - PathSet(x)' = pathRef[x] - PathSet(x)
      BY Zenon, <1>0, <2>2 DEF PathMoves
    <3>4. \A x \in Dentries : PathSet(x) \in Int /\ PathSet(x)' \in Int
      BY DEF PathSet
    <3>5. TAKE x \in Dentries
    <3>6. pathRef[x] = opens[x] + PathSet(x) + Cardinality(Refs(x))
          /\ Cardinality(Refs(x)) \in Nat
      BY Zenon, <1>b
    <3>7. pathRef'[x] = opens[x] + PathSet(x)' + Cardinality(Refs(x))
      <4>1. /\ pathRef'[x] \in Int /\ pathRef[x] \in Int /\ opens[x] \in Int
            /\ PathSet(x) \in Int /\ PathSet(x)' \in Int
            /\ Cardinality(Refs(x)) \in Int
            /\ pathRef'[x] - PathSet(x)' = pathRef[x] - PathSet(x)
        BY <3>3, <3>4, <3>6
      <4>2. PICK a \in Int, b \in Int, o \in Int, p \in Int, q \in Int, k \in Int :
              /\ a = pathRef'[x] /\ b = pathRef[x] /\ o = opens[x]
              /\ p = PathSet(x)' /\ q = PathSet(x) /\ k = Cardinality(Refs(x))
        BY Zenon, <4>1
      <4>3. a - p = b - q /\ b = o + q + k
        BY Zenon, <3>6, <4>1, <4>2
      <4>4. a = o + p + k
        BY <4>3
      <4> QED
        BY Zenon, <4>2, <4>4
    <3> QED
      BY Zenon, <3>1, <3>2, <3>7
  <2>5. \A x \in Dentries : opens'[x] > 0 => dent'[x].st \in InUse
    BY Zenon, <1>c, <2>1, <2>3 DEF InUse
  <2> QED
    BY Zenon, <1>0, <1>d, <2>1, <2>2, <2>4, <2>5 DEF PathMoves
<1>10. ASSUME UNCHANGED <<opens, pathRef, pc, cur, dent>> PROVE PathInv'
  BY <1>10 DEF PathInv, PathSet, Refs, Refers, GotRefs
<1>11. CASE \E s \in Slots : EvictInode(s) \/ DestroyInode(s)
  BY Zenon, <1>10, <1>11 DEF EvictInode, DestroyInode
<1> QED
  BY Zenon, <1>1, <1>2, <1>3, <1>4, <1>5, <1>7, <1>8, <1>9, <1>10, <1>11 DEF Next, vars

\* Every step keeps the number of writers exact.
LEMMA MountNext ==
  ASSUME OwnInv, MountInv, [Next]_vars
  PROVE  MountInv'
<1>0. pc \in [Tasks -> PCs] /\ cur \in [Tasks -> Call]
  BY Zenon DEF OwnInv, CoreType
<1>m. mntWriters = Cardinality(Writers) /\ IsFiniteSet(Writers)
  BY RefsFinite DEF MountInv
<1>1. ASSUME NEW t \in Tasks, StartCall(t) \/ Continue(t), NEW k \in {"old", "new"},
             ~ Wants(t, k), Wants(t, k)',
             \A j \in {"old", "new"} \ {k} : Wants(t, j)' <=> Wants(t, j),
             mntWriters' = mntWriters + 1
      PROVE  MountInv'
  <2>1. \A u \in Tasks \ {t} : \A j : Wants(u, j)' <=> Wants(u, j)
    BY Zenon, <1>1, OthersKeep
  <2>2. Writers' = Writers \cup {<<t, k>>} /\ <<t, k>> \notin Writers
    BY <1>1, <2>1 DEF Writers
  <2> QED
    BY Zenon, <1>1, <1>m, <2>2, FS_AddElement DEF MountInv
<1>2. ASSUME NEW t \in Tasks, StartCall(t) \/ Continue(t), NEW k \in {"old", "new"},
             Wants(t, k), ~ Wants(t, k)',
             \A j \in {"old", "new"} \ {k} : Wants(t, j)' <=> Wants(t, j),
             mntWriters' = mntWriters - 1
      PROVE  MountInv'
  <2>1. \A u \in Tasks \ {t} : \A j : Wants(u, j)' <=> Wants(u, j)
    BY Zenon, <1>2, OthersKeep
  <2>2. Writers' = Writers \ {<<t, k>>} /\ <<t, k>> \in Writers
    BY <1>2, <2>1 DEF Writers
  <2> QED
    BY Zenon, <1>2, <1>m, <2>2, FS_RemoveElement DEF MountInv
<1>3. ASSUME NEW t \in Tasks, StartCall(t) \/ Continue(t), SameWants(t),
             UNCHANGED mntWriters
      PROVE  MountInv'
  <2>1. \A u \in Tasks, j \in {"old", "new"} : Wants(u, j)' <=> Wants(u, j)
    BY Zenon, <1>3, OthersKeep DEF SameWants
  <2>2. Writers' = Writers
    BY Zenon, <2>1 DEF Writers
  <2> QED
    BY <1>3, <2>2 DEF MountInv
<1>4. ASSUME NEW t \in Tasks, OpWantWrite(t) PROVE MountInv'
  <2>1. /\ pc[t] = "op_want" /\ pc'[t] \in {"op_want2", "op_do", "op_unlock"}
        /\ pc'[t] = "op_do" => cur[t].op # "rename"
        /\ cur'[t].op = cur[t].op
        /\ IF pc'[t] = "op_unlock" THEN UNCHANGED mntWriters
           ELSE mntWriters' = mntWriters + 1
    BY Zenon, <1>0, <1>4 DEF OpWantWrite, WantNext, Goto, Call
  <2>2. StartCall(t) \/ Continue(t)
    BY <1>4 DEF Continue
  <2>3. /\ ~ Wants(t, "old") /\ ~ Wants(t, "new") /\ ~ Wants(t, "new")'
        /\ Wants(t, "old")' <=> pc'[t] # "op_unlock"
    BY Zenon, <2>1 DEF Wants, GotRefs, OpPcs, IgetPcs
  <2> QED
    BY Zenon, <1>1, <1>3, <2>1, <2>2, <2>3 DEF SameWants
<1>5. ASSUME NEW t \in Tasks, OpWantNewWrite(t) PROVE MountInv'
  <2>1. /\ pc[t] = "op_want2" /\ pc'[t] \in {"op_do", "op_drop"}
        /\ cur'[t].op = cur[t].op
        /\ IF pc'[t] = "op_drop" THEN UNCHANGED mntWriters
           ELSE mntWriters' = mntWriters + 1
    BY Zenon, <1>0, <1>5 DEF OpWantNewWrite, Goto, Call
  <2>2. StartCall(t) \/ Continue(t)
    BY <1>5 DEF Continue
  <2>3. cur[t].op = "rename"
    BY Zenon, <2>1 DEF OwnInv, StageOK
  <2>4. /\ Wants(t, "old") /\ Wants(t, "old")' /\ ~ Wants(t, "new")
        /\ Wants(t, "new")' <=> pc'[t] # "op_drop"
    BY Zenon, <2>1, <2>3 DEF Wants, GotRefs, OpPcs, IgetPcs
  <2> QED
    BY Zenon, <1>1, <1>3, <2>1, <2>2, <2>4 DEF SameWants
<1>6. ASSUME NEW t \in Tasks, OpDropWrite(t) PROVE MountInv'
  <2>1. /\ \/ pc[t] = "op_out" /\ pc'[t] = IF cur[t].op = "rename" THEN "op_drop"
                                          ELSE "op_unlock"
           \/ pc[t] = "op_drop" /\ pc'[t] = "op_unlock"
        /\ cur' = cur /\ mntWriters' = mntWriters - 1
    BY Zenon, <1>0, <1>6 DEF OpDropWrite, Goto
  <2>2. StartCall(t) \/ Continue(t)
    BY <1>6 DEF Continue
  <2>3. CASE pc[t] = "op_out" /\ cur[t].op = "rename"
    <3>1. /\ Wants(t, "old") /\ Wants(t, "old")' /\ Wants(t, "new")
          /\ ~ Wants(t, "new")'
      BY Zenon, <2>1, <2>3 DEF Wants, GotRefs, OpPcs, IgetPcs
    <3> QED
      BY Zenon, <1>2, <2>1, <2>2, <3>1
  <2>4. CASE ~ (pc[t] = "op_out" /\ cur[t].op = "rename")
    <3>1. /\ Wants(t, "old") /\ ~ Wants(t, "old")' /\ ~ Wants(t, "new")
          /\ ~ Wants(t, "new")'
      BY Zenon, <2>1, <2>4 DEF Wants, GotRefs, OpPcs, IgetPcs
    <3> QED
      BY Zenon, <1>2, <2>1, <2>2, <3>1
  <2> QED
    BY Zenon, <2>3, <2>4
<1>7. CASE \E t \in Tasks : StartCall(t) \/ Continue(t)
  BY Zenon, <1>3, <1>4, <1>5, <1>6, <1>7, KeepsStep, FrameStep DEF Keeps, Frame
<1>8. ASSUME UNCHANGED <<mntWriters, pc, cur>> PROVE MountInv'
  BY Zenon, <1>8 DEF MountInv, Writers, Wants, GotRefs
<1>9. CASE \E d \in Dentries : FileRelease(d) \/ DentryKill(d) \/ DentryRelease(d)
  BY Zenon, <1>8, <1>9 DEF FileRelease, DentryKill, DentryRelease
<1>10. CASE \E s \in Slots : EvictInode(s) \/ DestroyInode(s)
  BY Zenon, <1>8, <1>10 DEF EvictInode, DestroyInode
<1> QED
  BY Zenon, <1>7, <1>8, <1>9, <1>10 DEF Next, vars

\* How a call comes by the i_mutexes of its directories and loses them.
LocksMove(t) ==
  \/ /\ pc[t] = "idle" /\ pc'[t] \in DirPcs
     /\ \A i \in Dirs : dirLock'[i] = IF i \in UpperDirs(cur[t])' THEN t
                                      ELSE dirLock[i]
     /\ \A i \in Dirs : i \in UpperDirs(cur[t])' => dirLock[i] = NoTask
  \/ /\ pc[t] \in DirPcs /\ pc'[t] \notin DirPcs
     /\ \A i \in Dirs : dirLock'[i] = IF i \in UpperDirs(cur[t]) THEN NoTask
                                      ELSE dirLock[i]
  \/ /\ dirLock' = dirLock /\ (pc'[t] \in DirPcs <=> pc[t] \in DirPcs)
     /\ pc[t] \in DirPcs => UpperDirs(cur[t])' = UpperDirs(cur[t])

\* How a lookup comes by its reference to the parent's path and loses it.
LookMoves(t) ==
  \/ /\ ~ InLookup(t) /\ InLookup(t)' /\ cur'[t].n \in Names
     /\ parentRef' = Bump(parentRef, DirOf[cur'[t].n], 1)
     /\ dirLock[DirOf[cur'[t].n]] = NoTask
  \/ /\ InLookup(t) /\ ~ InLookup(t)'
     /\ parentRef' = Bump(parentRef, DirOf[cur[t].n], -1)
  \/ SameLook(t) /\ UNCHANGED parentRef

\* Every step of a call moves them so.
LEMMA LockStep ==
  ASSUME OwnInv, NEW t \in Tasks, StartCall(t) \/ Continue(t)
  PROVE  LocksMove(t) /\ LookMoves(t)
<1>0. /\ dent \in [Dentries -> Dentry] /\ pc \in [Tasks -> PCs]
      /\ cur \in [Tasks -> Call] /\ cur[t] \in Call
  BY DEF OwnInv, CoreType
<1>a. /\ pc[t] \in DirPcs => cur[t].d \in Dentries
      /\ pc[t] \in DirPcs /\ cur[t].op = "rename" => cur[t].e \in Dentries \ {cur[t].d}
  BY Zenon DEF OwnInv, CallOK
<1>u. ASSUME dirLock' = dirLock, pc'[t] \in DirPcs, pc[t] \in DirPcs,
             cur'[t].n = cur[t].n, cur'[t].op = "rename" <=> cur[t].op = "rename",
             cur[t].op = "rename" => cur'[t].e = cur[t].e
                                     /\ dent'[cur[t].e].n = dent[cur[t].e].n
      PROVE  LocksMove(t)
  BY Zenon, <1>u DEF LocksMove, UpperDirs
<1>f. ASSUME pc[t] \in DirPcs, Finish(t) PROVE LocksMove(t)
  <2>1. pc'[t] = "idle"
    BY Zenon, <1>0, <1>f DEF Finish
  <2>2. pc'[t] \notin DirPcs
    BY <2>1 DEF DirPcs, LookPcs, IgetPcs, OpPcs
  <2> QED
    BY Zenon, <1>f, <2>2 DEF Finish, LocksMove
<1>b. ASSUME NEW c, NEW to \in {"lk_info", "op_lock"}, Begin(t, c, to),
             LockDirs(t, c), UpperDirs(c)' = UpperDirs(c)
      PROVE  LocksMove(t) /\ cur'[t] = c /\ pc[t] = "idle" /\ pc'[t] = to
  <2>1. pc[t] = "idle" /\ pc'[t] = to /\ cur'[t] = c
    BY Zenon, <1>0, <1>b DEF Begin, Goto
  <2>2. UpperDirs(cur[t])' = UpperDirs(c)
    BY Zenon, <1>b, <2>1 DEF UpperDirs
  <2> QED
    BY Zenon, <1>b, <2>1, <2>2 DEF LockDirs, LocksMove, DirPcs, LookPcs, OpPcs
<1>1. CASE LookupBegin(t)
  <2>1. PICK op \in MakeOps \cup {"lookup", "rename"}, n \in Names,
             d \in Dentries, e \in Dentries \cup {NULL} :
               LookupFor(t, op, n, d, e)
    BY Zenon, <1>1 DEF LookupBegin
  <2>2. PICK c : c = [NoCall EXCEPT !.op = op, !.n = n, !.d = d, !.e = e]
    OBVIOUS
  <2>3. c.op = op /\ c.n = n /\ c.e = e
    BY Zenon, <2>2 DEF NoCall
  <2>4. Begin(t, c, "lk_info") /\ LockDirs(t, c)
    BY Zenon, <2>1, <2>2 DEF LookupFor
  <2>5. op = "rename" => e \in Dentries /\ e # d /\ dent'[e] = dent[e]
    BY Zenon, <1>0, <2>1 DEF LookupFor
  <2>6. UpperDirs(c)' = UpperDirs(c)
    BY Zenon, <2>3, <2>5 DEF UpperDirs
  <2>7. LocksMove(t) /\ cur'[t].n = n /\ pc[t] = "idle" /\ pc'[t] = "lk_info"
    BY Zenon, <1>b, <2>3, <2>4, <2>6
  <2>8. /\ parentRef' = Bump(parentRef, DirOf[n], 1) /\ dirLock[DirOf[n]] = NoTask
    BY Zenon, <2>1, <2>3, <2>4 DEF LookupFor, LockDirs, UpperDirs
  <2>9. ~ InLookup(t) /\ InLookup(t)'
    BY Zenon, <2>7 DEF InLookup, LookPcs, IgetPcs
  <2> QED
    BY Zenon, <2>7, <2>8, <2>9 DEF LookMoves
<1>2. CASE RemoveBegin(t) \/ RenameBegin(t)
  <2>1. PICK c : Begin(t, c, "op_lock") /\ LockDirs(t, c)
    BY Zenon, <1>2 DEF RemoveBegin, RenameBegin
  <2>2. UNCHANGED <<dent, parentRef>>
    BY Zenon, <1>2 DEF RemoveBegin, RenameBegin
  <2>3. UpperDirs(c)' = UpperDirs(c)
    BY <2>2 DEF UpperDirs
  <2>4. LocksMove(t) /\ pc[t] = "idle" /\ pc'[t] = "op_lock"
    BY Zenon, <1>b, <2>1, <2>3
  <2>5. SameLook(t)
    BY Zenon, <2>4 DEF SameLook, InLookup, LookPcs, IgetPcs
  <2> QED
    BY Zenon, <2>2, <2>4, <2>5 DEF LookMoves
<1>3. CASE OpenBegin(t) \/ OpenCheck(t) \/ OpenLower(t)
  <2>1. /\ pc[t] \in {"idle", "open_check", "open_lower"}
        /\ pc'[t] \in {"idle", "open_check", "open_lower"}
        /\ UNCHANGED <<dirLock, parentRef>>
    BY Zenon, <1>0, <1>3 DEF OpenBegin, Begin, Goto, OpenCheck, OpenLower, OpenReturn, lockVars
  <2>2. pc[t] \notin DirPcs /\ pc'[t] \notin DirPcs
    BY <2>1 DEF DirPcs, LookPcs, IgetPcs, OpPcs
  <2>3. SameLook(t)
    BY Zenon, <2>1 DEF SameLook, InLookup, LookPcs, IgetPcs
  <2> QED
    BY Zenon, <2>1, <2>2, <2>3 DEF LocksMove, LookMoves
<1>4. ASSUME LookupFails(t), InLookup(t), pc[t] \in DirPcs
      PROVE  LocksMove(t) /\ LookMoves(t)
  <2>1. /\ Finish(t) /\ parentRef' = Bump(parentRef, DirOf[cur[t].n], -1)
        /\ pc'[t] = "idle"
    BY Zenon, <1>0, <1>4 DEF LookupFails, Finish
  <2>2. ~ InLookup(t)'
    BY Zenon, <2>1 DEF InLookup, LookPcs, IgetPcs
  <2> QED
    BY Zenon, <1>4, <1>f, <2>1, <2>2 DEF LookMoves
<1>5. CASE LookupInfo(t) \/ LookupError(t)
  <2>1. pc[t] \in LookPcs /\ pc[t] \in DirPcs /\ InLookup(t)
    BY <1>5 DEF LookupInfo, LookupError, LookPcs, DirPcs, InLookup
  <2>2. CASE ~ LookupFails(t)
    <3>1. pc'[t] = "lk_path" /\ UNCHANGED <<cur, dirLock, parentRef, dent>>
      BY Zenon, <1>0, <1>5, <2>2 DEF LookupInfo, LookupError, lockVars
    <3>2. SameLook(t) /\ pc'[t] \in DirPcs
      BY Zenon, <2>1, <3>1 DEF SameLook, InLookup, LookPcs, IgetPcs, DirPcs
    <3> QED
      BY Zenon, <1>u, <2>1, <3>1, <3>2 DEF LookMoves
  <2> QED
    BY Zenon, <1>4, <2>1, <2>2
<1>6. CASE LookupPositive(t)
  <2>1. /\ pc[t] = "lk_path" /\ pc'[t] = "ig_find"
        /\ UNCHANGED <<dirLock, parentRef>>
        /\ dent' = [dent EXCEPT ![cur[t].d].l = target[cur[t].n],
                                ![cur[t].d].ln = cur[t].n, ![cur[t].d].path = TRUE]
    BY Zenon, <1>0, <1>6 DEF LookupPositive, Goto, lockVars
  <2>2. /\ cur'[t].n = cur[t].n /\ cur'[t].op \in {"lookup", "rename"}
        /\ cur'[t].op = "rename" <=> cur[t].op = "rename"
        /\ cur[t].op = "rename" => cur'[t].e = cur[t].e
    BY Zenon, <1>0, <1>6 DEF LookupPositive, Call
  <2>3. pc[t] \in DirPcs /\ pc'[t] \in DirPcs
    BY Zenon, <2>1 DEF DirPcs, LookPcs, IgetPcs
  <2>4. SameLook(t)
    BY Zenon, <2>1, <2>2 DEF SameLook, InLookup, LookPcs, IgetPcs, MakeOps
  <2>5. cur[t].op = "rename" => dent'[cur[t].e] = dent[cur[t].e]
    BY Zenon, <1>0, <1>a, <2>1, <2>3
  <2> QED
    BY Zenon, <1>u, <2>1, <2>2, <2>3, <2>4, <2>5 DEF LookMoves
<1>7. CASE LookupNegative(t)
  <2>1. pc[t] = "lk_path" /\ pc[t] \in DirPcs /\ InLookup(t)
    BY Zenon, <1>7 DEF LookupNegative, LookPcs, DirPcs, InLookup
  <2>2. CASE ~ LookupFails(t)
    <3>1. /\ pc'[t] = "op_lock" /\ UNCHANGED <<cur, dirLock>>
          /\ parentRef' = Bump(parentRef, DirOf[cur[t].n], -1)
          /\ dent' = [dent EXCEPT ![cur[t].d].ln = cur[t].n, ![cur[t].d].path = TRUE]
      BY Zenon, <1>0, <1>7, <2>2 DEF LookupNegative, lockVars
    <3>2. ~ InLookup(t)' /\ pc'[t] \in DirPcs
      BY Zenon, <3>1 DEF InLookup, LookPcs, IgetPcs, DirPcs, OpPcs
    <3>3. cur[t].op = "rename" => dent'[cur[t].e] = dent[cur[t].e]
      BY Zenon, <1>0, <1>a, <2>1, <3>1
    <3> QED
      BY Zenon, <1>u, <2>1, <3>1, <3>2, <3>3 DEF LookMoves
  <2> QED
    BY Zenon, <1>4, <2>1, <2>2
<1>8. CASE IgetFound(t) \/ IgetNew(t) \/ IgetNoMemory(t) \/ IgetInit(t)
  <2>1. /\ pc[t] \in IgetPcs /\ pc'[t] \in IgetPcs
        /\ UNCHANGED <<dent, dirLock, parentRef>>
    BY Zenon, <1>0, <1>8 DEF IgetFound, IgetNew, IgetNoMemory, IgetInit, Goto, IgetPcs,
       lockVars
  <2>2. cur'[t].e = cur[t].e /\ cur'[t].n = cur[t].n /\ cur'[t].op = cur[t].op
    BY <1>0, <1>8 DEF IgetFound, IgetNew, IgetNoMemory, IgetInit, Call
  <2>3. SameLook(t)
    BY Zenon, <2>1, <2>2 DEF SameLook, InLookup, LookPcs, IgetPcs
  <2> QED
    BY Zenon, <1>u, <2>1, <2>2, <2>3 DEF LookMoves, DirPcs
<1>9. CASE Interpose(t)
  <2>1. /\ pc[t] = "ig_add"
        /\ dent' = [dent EXCEPT ![cur[t].d].st = "hashed", ![cur[t].d].ino = cur[t].s]
    BY Zenon, <1>9 DEF Interpose
  <2>2. pc[t] \in DirPcs
    BY Zenon, <2>1 DEF DirPcs, IgetPcs
  <2>3. cur[t].op = "rename" => dent'[cur[t].e] = dent[cur[t].e]
    BY Zenon, <1>0, <1>a, <2>1, <2>2
  <2>4. CASE cur[t].op = "lookup"
    <3>1. Finish(t) /\ parentRef' = Bump(parentRef, DirOf[cur[t].n], -1)
      BY Zenon, <1>9, <2>4 DEF Interpose, MakeOps
    <3>2. InLookup(t) /\ ~ InLookup(t)'
      BY Zenon, <1>0, <2>1, <2>4, <3>1 DEF Finish, InLookup, LookPcs, IgetPcs, MakeOps
    <3> QED
      BY Zenon, <1>f, <2>2, <3>1, <3>2 DEF LookMoves
  <2>5. CASE cur[t].op = "rename"
    <3>1. /\ pc'[t] = "op_lock" /\ UNCHANGED <<dirLock, cur>>
          /\ parentRef' = Bump(parentRef, DirOf[cur[t].n], -1)
      BY Zenon, <1>0, <1>9, <2>5 DEF Interpose, MakeOps
    <3>2. InLookup(t) /\ ~ InLookup(t)' /\ pc'[t] \in DirPcs
      BY Zenon, <2>1, <2>5, <3>1 DEF InLookup, LookPcs, IgetPcs, MakeOps, DirPcs, OpPcs
    <3> QED
      BY Zenon, <1>u, <2>2, <2>3, <3>1, <3>2 DEF LookMoves
  <2>6. CASE cur[t].op \in MakeOps
    <3>1. pc'[t] = "op_out" /\ UNCHANGED <<dirLock, cur, parentRef>>
      BY Zenon, <1>0, <1>9, <2>6 DEF Interpose, MakeOps
    <3>2. SameLook(t) /\ pc'[t] \in DirPcs
      BY Zenon, <2>1, <2>6, <3>1 DEF SameLook, InLookup, LookPcs, IgetPcs, DirPcs, OpPcs
    <3> QED
      BY Zenon, <1>u, <2>2, <2>3, <3>1, <3>2 DEF LookMoves
  <2> QED
    BY Zenon, <1>9, <2>4, <2>5, <2>6 DEF Interpose
<1>10. CASE InterposeFails(t)
  <2>1. pc[t] = "ig_fail" /\ pc[t] \in DirPcs
    BY Zenon, <1>10 DEF InterposeFails, DirPcs, IgetPcs
  <2>2. CASE cur[t].op \in {"lookup", "rename"}
    <3>1. LookupFails(t) /\ InLookup(t)
      BY Zenon, <1>10, <2>1, <2>2 DEF InterposeFails, InLookup, IgetPcs, MakeOps
    <3> QED
      BY Zenon, <1>4, <2>1, <3>1
  <2>3. CASE cur[t].op \notin {"lookup", "rename"}
    <3>1. /\ cur[t].op \in MakeOps /\ pc'[t] = "op_out"
          /\ UNCHANGED <<dent, dirLock, parentRef>>
          /\ cur'[t].e = cur[t].e /\ cur'[t].n = cur[t].n /\ cur'[t].op = cur[t].op
      BY <1>0, <1>10, <2>3 DEF InterposeFails, Call, lockVars
    <3>2. SameLook(t) /\ pc'[t] \in DirPcs
      BY Zenon, <2>1, <3>1 DEF SameLook, InLookup, LookPcs, IgetPcs, DirPcs, OpPcs
    <3> QED
      BY Zenon, <1>u, <2>1, <3>1, <3>2 DEF LookMoves
  <2> QED
    BY Zenon, <2>2, <2>3
<1>11. ASSUME pc[t] \in OpPcs, pc'[t] \in OpPcs, UNCHANGED <<dirLock, parentRef>>,
              cur'[t].n = cur[t].n, cur'[t].op = cur[t].op, cur'[t].e = cur[t].e,
              cur[t].op = "rename" => dent'[cur[t].e].n = dent[cur[t].e].n
       PROVE  LocksMove(t) /\ LookMoves(t)
  <2>1. SameLook(t)
    BY Zenon, <1>11 DEF SameLook, InLookup, LookPcs, IgetPcs, OpPcs
  <2> QED
    BY Zenon, <1>11, <1>u, <2>1 DEF LookMoves, DirPcs
<1>12. CASE \/ RenameRefused(t) \/ OpLock(t) \/ OpUnlock(t) \/ OpWantWrite(t)
            \/ OpWantNewWrite(t) \/ OpDropWrite(t) \/ OpUnlinkBug(t) \/ OpFails(t)
  <2>1. pc[t] \in OpPcs /\ pc'[t] \in OpPcs
    BY Zenon, <1>0, <1>12 DEF RenameRefused, OpLock, OpUnlock, OpWantWrite, WantNext,
       OpWantNewWrite, OpDropWrite, OpUnlinkBug, OpFails, Goto, OpPcs
  <2>2. /\ cur'[t].n = cur[t].n /\ cur'[t].op = cur[t].op /\ cur'[t].e = cur[t].e
    BY Zenon, <1>0, <1>12 DEF RenameRefused, OpLock, OpUnlock, OpWantWrite,
       OpWantNewWrite, OpDropWrite, OpUnlinkBug, OpFails, Call
  <2>3. UNCHANGED <<dirLock, parentRef, dent>>
    BY Zenon, <1>12 DEF RenameRefused, OpLock, OpUnlock, OpWantWrite,
       OpWantNewWrite, OpDropWrite, OpUnlinkBug, OpFails, lockVars
  <2> QED
    BY Zenon, <1>11, <2>1, <2>2, <2>3
<1>13. CASE OpCreate(t) \/ OpMknod(t) \/ OpSymlink(t) \/ OpMkdir(t) \/ OpLink(t)
  <2>1. cur[t].op \in MakeOps /\ OpMake(t)
    BY Zenon, <1>13 DEF OpCreate, OpMknod, OpSymlink, OpMkdir, OpLink, MakeOps
  <2>2. pc[t] = "op_do" /\ pc'[t] = "ig_find" /\ UNCHANGED <<dirLock, parentRef, cur>>
    BY Zenon, <1>0, <2>1 DEF OpMake, Goto, lockVars
  <2>3. /\ SameLook(t) /\ pc[t] \in DirPcs /\ pc'[t] \in DirPcs
        /\ cur[t].op # "rename"
    BY Zenon, <2>1, <2>2 DEF SameLook, InLookup, LookPcs, IgetPcs, DirPcs, OpPcs, MakeOps
  <2> QED
    BY Zenon, <1>u, <2>2, <2>3 DEF LookMoves
<1>14. CASE OpUnlink(t) \/ OpRmdir(t) \/ OpRename(t)
  <2>1. /\ pc[t] = "op_do" /\ pc'[t] = "op_out"
        /\ UNCHANGED <<dirLock, parentRef, cur>>
    BY Zenon, <1>0, <1>14 DEF OpUnlink, OpRmdir, OpRename, Goto, lockVars
  <2>2. cur[t].op = "rename" => dent'[cur[t].e].n = dent[cur[t].e].n
    BY <1>14, RenameEffect DEF OpUnlink, OpRmdir
  <2> QED
    BY Zenon, <1>11, <2>1, <2>2 DEF OpPcs
<1>15. CASE OpReturn(t)
  <2>1. /\ pc[t] = "op_return" /\ Finish(t) /\ pc'[t] = "idle"
        /\ UNCHANGED parentRef
    BY Zenon, <1>0, <1>15 DEF OpReturn, Finish
  <2>2. SameLook(t) /\ pc[t] \in DirPcs
    BY <2>1 DEF SameLook, InLookup, LookPcs, IgetPcs, DirPcs, OpPcs
  <2> QED
    BY Zenon, <1>f, <2>1, <2>2 DEF LookMoves
<1> QED
  BY Zenon, <1>1, <1>2, <1>3, <1>5, <1>6, <1>7, <1>8, <1>9, <1>10, <1>12, <1>13, <1>14,
     <1>15 DEF StartCall, Continue

\* The directories of the other calls stay the same.
LEMMA OtherDirs ==
  ASSUME OwnInv, NEW t \in Tasks, StartCall(t) \/ Continue(t),
         NEW u \in Tasks \ {t}, pc[u] \in DirPcs
  PROVE  /\ UpperDirs(cur[u])' = UpperDirs(cur[u])
         /\ LowerDirs(cur[u])' = LowerDirs(cur[u])
<1>1. Local(t)
  BY LocalStep
<1>2. cur'[u] = cur[u] /\ cur[u].d \in Dentries
      /\ (cur[u].op = "rename" => cur[u].e \in Dentries)
  BY Zenon, <1>1 DEF Local, OwnInv, CallOK
<1>3. ~ Mine(t, cur[u].d) /\ (cur[u].op = "rename" => ~ Mine(t, cur[u].e))
  BY Zenon, <1>2, Apart
<1>4. /\ dent'[cur[u].d] = dent[cur[u].d]
      /\ cur[u].op = "rename" => dent'[cur[u].e] = dent[cur[u].e]
  BY Zenon, <1>1, <1>2, <1>3 DEF Local
<1> QED
  BY Zenon, <1>2, <1>4 DEF UpperDirs, LowerDirs

\* So do the lower directories of a call while it has them locked: vfs_rename
\* only swaps them.
LEMMA OwnLowerDirs ==
  ASSUME OwnInv, NEW t \in Tasks, StartCall(t) \/ Continue(t), SameRefs(t), GotRefs(t)
  PROVE  LowerDirs(cur[t])' = LowerDirs(cur[t])
<1>0. dent \in [Dentries -> Dentry] /\ pc[t] \in DirPcs
  BY Zenon DEF OwnInv, CoreType, GotRefs, DirPcs
<1>1. /\ cur'[t].d = cur[t].d /\ cur'[t].e = cur[t].e /\ cur'[t].op = cur[t].op
  BY DEF SameRefs
<1>2. /\ cur[t].d \in Dentries
      /\ cur[t].op = "rename" => cur[t].e \in Dentries
  BY Zenon, <1>0 DEF OwnInv, CallOK
<1>3. ASSUME \A x \in Dentries : dent'[x].ln = dent[x].ln
      PROVE  LowerDirs(cur[t])' = LowerDirs(cur[t])
  BY Zenon, <1>1, <1>2, <1>3 DEF LowerDirs
<1>4. CASE OpRename(t)
  <2>1. PICK d, e \in Dentries :
          /\ d = cur[t].d /\ e = cur[t].e
          /\ IF dent[d].l = dent[e].l
             THEN dent' = dent /\ target' = target
             ELSE dent'[d].ln = dent[e].ln /\ dent'[e].ln = dent[d].ln
    BY <1>4, RenameEffect
  <2>2. cur[t].op = "rename"
    BY Zenon, <1>4 DEF OpRename
  <2> QED
    BY Zenon, <1>1, <2>1, <2>2 DEF LowerDirs
<1>5. pc[t] \notin {"idle", "lk_info", "lk_path", "op_lock", "op_return",
                    "open_check", "open_lower"}
  BY Zenon DEF GotRefs, OpPcs, IgetPcs
<1>6. pc[t] \in IgetPcs => cur[t].op \in MakeOps
  BY DEF GotRefs, OpPcs, IgetPcs
<1>7. CASE \/ IgetFound(t) \/ IgetNew(t) \/ IgetNoMemory(t) \/ IgetInit(t)
           \/ OpWantWrite(t) \/ OpWantNewWrite(t) \/ OpUnlinkBug(t) \/ OpFails(t)
           \/ OpDropWrite(t) \/ OpUnlock(t)
  BY Zenon, <1>3, <1>7 DEF IgetFound, IgetNew, IgetNoMemory, IgetInit, OpWantWrite,
     OpWantNewWrite, OpUnlinkBug, OpFails, OpDropWrite, OpUnlock
<1>8. CASE InterposeFails(t)
  <2>1. dent' = dent
    BY Zenon, <1>6, <1>8 DEF InterposeFails, IgetPcs, MakeOps
  <2> QED
    BY Zenon, <1>3, <2>1
<1>9. CASE Interpose(t)
  <2>1. \A x \in Dentries : dent'[x].ln = dent[x].ln
    BY <1>0, <1>9 DEF Interpose, Dentry
  <2> QED
    BY Zenon, <1>3, <2>1
<1>10. CASE OpMake(t)
  <2>1. PICK l : dent' = [dent EXCEPT ![cur[t].d].l = l]
    BY Zenon, <1>10 DEF OpMake
  <2>2. \A x \in Dentries : dent'[x].ln = dent[x].ln
    BY Zenon, <1>0, <2>1 DEF Dentry
  <2> QED
    BY Zenon, <1>3, <2>2
<1>11. CASE OpUnlink(t) \/ OpRmdir(t)
  <2>1. dent' = [dent EXCEPT ![cur[t].d].st = "unhashed"]
    BY Zenon, <1>11 DEF OpUnlink, OpRmdir
  <2>2. \A x \in Dentries : dent'[x].ln = dent[x].ln
    BY Zenon, <1>0, <2>1 DEF Dentry
  <2> QED
    BY Zenon, <1>3, <2>2
<1>12. ~ StartCall(t)
  <2>1. pc[t] # "idle"
    BY Zenon, <1>5
  <2>2. ~ LookupBegin(t)
    <3>1. ASSUME LookupBegin(t) PROVE FALSE
      <4>1. PICK op, n, d, e : LookupFor(t, op, n, d, e)
        BY <3>1 DEF LookupBegin
      <4> QED
        BY Zenon, <2>1, <4>1 DEF LookupFor, Begin, Goto
    <3> QED
      BY Zenon, <3>1
  <2>3. ~ RemoveBegin(t) /\ ~ RenameBegin(t) /\ ~ OpenBegin(t)
    BY Zenon, <2>1 DEF RemoveBegin, RenameBegin, OpenBegin, Begin, Goto
  <2> QED
    BY Zenon, <2>2, <2>3 DEF StartCall
<1>13. /\ ~ LookupInfo(t) /\ ~ LookupPositive(t) /\ ~ LookupNegative(t)
       /\ ~ LookupError(t) /\ ~ RenameRefused(t) /\ ~ OpLock(t) /\ ~ OpReturn(t)
       /\ ~ OpenCheck(t) /\ ~ OpenLower(t)
  BY Zenon, <1>5 DEF LookupInfo, LookupPositive, LookupNegative, LookupError, RenameRefused,
     OpLock, OpReturn, OpenCheck, OpenLower, Goto
<1> QED
  BY Zenon, <1>4, <1>7, <1>8, <1>9, <1>10, <1>11, <1>12, <1>13
  DEF Continue, OpCreate, OpMknod, OpSymlink, OpMkdir, OpLink

\* Every step keeps locks with calls that release them.
LEMMA LockNext ==
  ASSUME OwnInv, RestType, LockInv, [Next]_vars
  PROVE  LockInv'
<1>0. /\ parentRef \in [Dirs -> Nat]
      /\ dirLock \in [Dirs -> Tasks \cup {NoTask}]
      /\ lowerLock \in [Dirs -> Tasks \cup {NoTask}]
      /\ pc \in [Tasks -> PCs]
  BY Zenon DEF OwnInv, CoreType, RestType, LockInv
<1>a. \A t \in Tasks : pc[t] \in DirPcs =>
        /\ cur[t].n \in Names /\ dirLock[DirOf[cur[t].n]] = t
        /\ DirOf[cur[t].n] \in Dirs
  BY Zenon, InodeAssumption DEF OwnInv, CallOK
<1>b. \A t \in Tasks : (InLookup(t) \/ GotRefs(t)) => pc[t] \in DirPcs
  BY Zenon DEF InLookup, GotRefs, DirPcs
<1>1. ASSUME NEW t \in Tasks, StartCall(t) \/ Continue(t) PROVE LockInv'
  <2>l. LocksMove(t) /\ LookMoves(t) /\ Keeps(t) /\ Frame(t)
    BY Zenon, <1>1, LockStep, KeepsStep, FrameStep
  <2>o. \A u \in Tasks \ {t} : /\ pc'[u] = pc[u] /\ cur'[u] = cur[u]
                               /\ InLookup(u)' <=> InLookup(u)
                               /\ GotRefs(u)' <=> GotRefs(u)
    BY Zenon, <1>1, OthersKeep
  <2>d. \A u \in Tasks \ {t} : pc[u] \in DirPcs =>
          /\ UpperDirs(cur[u])' = UpperDirs(cur[u])
          /\ LowerDirs(cur[u])' = LowerDirs(cur[u])
    BY Zenon, <1>1, OtherDirs
  <2>1. /\ parentRef' \in [Dirs -> Nat]
        /\ \A i \in Dirs :
             parentRef'[i] = IF \E u \in Tasks : InLookup(u)' /\ DirOf[cur'[u].n] = i
                             THEN 1 ELSE 0
    <3>0. \A i \in Dirs :
            parentRef[i] = IF \E u \in Tasks : InLookup(u) /\ DirOf[cur[u].n] = i
                           THEN 1 ELSE 0
      BY Zenon DEF LockInv
    <3>1. CASE SameLook(t) /\ UNCHANGED parentRef
      <4>1. \A u \in Tasks : /\ InLookup(u)' <=> InLookup(u)
                             /\ InLookup(u) => cur'[u].n = cur[u].n
        BY Zenon, <2>o, <3>1 DEF SameLook
      <4> QED
        BY <1>0, <3>0, <3>1, <4>1
    <3>2. CASE /\ ~ InLookup(t) /\ InLookup(t)' /\ cur'[t].n \in Names
               /\ parentRef' = Bump(parentRef, DirOf[cur'[t].n], 1)
               /\ dirLock[DirOf[cur'[t].n]] = NoTask
      <4>1. PICK j \in Dirs : j = DirOf[cur'[t].n]
        BY Zenon, <3>2, InodeAssumption
      <4>2. \A u \in Tasks : InLookup(u) => DirOf[cur[u].n] # j
        BY <1>a, <1>b, <3>2, <4>1, InodeAssumption
      <4>3. parentRef[j] = 0
        BY Zenon, <3>0, <4>2
      <4>4. parentRef' = [parentRef EXCEPT ![j] = 1]
        BY <1>0, <3>2, <4>1, <4>3 DEF Bump
      <4>5. \A i \in Dirs \ {j} :
              (\E u \in Tasks : InLookup(u)' /\ DirOf[cur'[u].n] = i) <=>
              (\E u \in Tasks : InLookup(u) /\ DirOf[cur[u].n] = i)
        BY Zenon, <2>o, <3>2, <4>1
      <4>6. \E u \in Tasks : InLookup(u)' /\ DirOf[cur'[u].n] = j
        BY Zenon, <3>2, <4>1
      <4> QED
        BY Zenon, <1>0, <3>0, <4>4, <4>5, <4>6
    <3>3. CASE /\ InLookup(t) /\ ~ InLookup(t)'
               /\ parentRef' = Bump(parentRef, DirOf[cur[t].n], -1)
      <4>1. PICK j \in Dirs : j = DirOf[cur[t].n]
        BY Zenon, <1>a, <1>b, <3>3
      <4>2. \A u \in Tasks \ {t} : InLookup(u) => DirOf[cur[u].n] # j
        BY Zenon, <1>a, <1>b, <3>3, <4>1
      <4>3. parentRef[j] = 1
        BY Zenon, <3>0, <3>3, <4>1
      <4>4. parentRef' = [parentRef EXCEPT ![j] = 0]
        BY <1>0, <3>3, <4>1, <4>3 DEF Bump
      <4>5. \A i \in Dirs \ {j} :
              (\E u \in Tasks : InLookup(u)' /\ DirOf[cur'[u].n] = i) <=>
              (\E u \in Tasks : InLookup(u) /\ DirOf[cur[u].n] = i)
        BY Zenon, <2>o, <3>3, <4>1
      <4>6. ~ \E u \in Tasks : InLookup(u)' /\ DirOf[cur'[u].n] = j
        BY Zenon, <2>o, <3>3, <4>2
      <4> QED
        BY Zenon, <1>0, <3>0, <4>4, <4>5, <4>6
    <3> QED
      BY Zenon, <2>l, <3>1, <3>2, <3>3 DEF LookMoves
  <2>2. ASSUME NEW i \in Dirs, dirLock'[i] # NoTask
        PROVE  pc'[dirLock'[i]] \in DirPcs /\ i \in UpperDirs(cur[dirLock[i]])'
    <3>0. dirLock[i] \in Tasks \cup {NoTask}
      BY <1>0
    <3>h. dirLock[i] # NoTask => /\ pc[dirLock[i]] \in DirPcs
                                 /\ i \in UpperDirs(cur[dirLock[i]])
      BY Zenon DEF LockInv
    <3>n. "idle" \notin DirPcs
      BY Zenon DEF DirPcs, LookPcs, IgetPcs, OpPcs
    <3>1. CASE dirLock'[i] = t
      <4>1. pc'[t] \in DirPcs /\ i \in UpperDirs(cur[t])'
        <5>1. t # NoTask
          BY Zenon, InodeAssumption
        <5>2. dirLock[i] = t => pc[t] \in DirPcs /\ i \in UpperDirs(cur[t])
          BY Zenon, <3>h, <5>1
        <5> QED
          BY Zenon, <2>l, <3>1, <3>n, <5>1, <5>2 DEF LocksMove
      <4>2. PICK u \in Tasks : u = t
        OBVIOUS
      <4> QED
        BY Zenon, <3>1, <4>1 DEF UpperDirs
    <3>2. CASE dirLock'[i] # t
      <4>1. PICK u \in Tasks \ {t} : dirLock'[i] = u /\ dirLock[i] = u
        BY Zenon, <2>2, <2>l, <3>0, <3>2 DEF LocksMove
      <4>2. pc'[u] \in DirPcs /\ i \in UpperDirs(cur[u])'
        BY Zenon, <2>d, <2>o, <3>h, <4>1, InodeAssumption
      <4> QED
        BY Zenon, <4>1, <4>2 DEF UpperDirs
    <3> QED
      BY Zenon, <3>1, <3>2
  <2>3. ASSUME NEW i \in Dirs, lowerLock'[i] # NoTask
        PROVE  GotRefs(lowerLock[i])' /\ i \in LowerDirs(cur[lowerLock[i]])'
    <3>0. lowerLock[i] \in Tasks \cup {NoTask}
      BY <1>0
    <3>h. lowerLock[i] # NoTask => /\ GotRefs(lowerLock[i])
                                   /\ i \in LowerDirs(cur[lowerLock[i]])
      BY Zenon DEF LockInv
    <3>1. CASE OpLock(t)
      <4>1. /\ lowerLock'[i] = IF i \in LowerDirs(cur[t]) THEN t ELSE lowerLock[i]
            /\ pc[t] = "op_lock" /\ pc'[t] = "op_want" /\ UNCHANGED <<dent, cur>>
        BY Zenon, <1>0, <3>1 DEF OpLock, Goto
      <4>2. ~ GotRefs(t) /\ GotRefs(t)' /\ LowerDirs(cur[t])' = LowerDirs(cur[t])
        BY Zenon, <4>1 DEF GotRefs, OpPcs, IgetPcs, LowerDirs
      <4>3. CASE i \in LowerDirs(cur[t])
        BY Zenon, <4>1, <4>2, <4>3 DEF GotRefs, LowerDirs
      <4>4. CASE i \notin LowerDirs(cur[t])
        <5>1. PICK u \in Tasks \ {t} : lowerLock'[i] = u /\ lowerLock[i] = u
          BY Zenon, <2>3, <3>0, <3>h, <4>1, <4>2, <4>4
        <5>2. GotRefs(u)' /\ i \in LowerDirs(cur[u])'
          BY Zenon, <1>b, <2>d, <2>o, <3>h, <5>1, InodeAssumption
        <5> QED
          BY Zenon, <5>1, <5>2 DEF GotRefs, LowerDirs
      <4> QED
        BY Zenon, <4>3, <4>4
    <3>2. CASE OpUnlock(t)
      <4>1. /\ lowerLock'[i] = IF i \in LowerDirs(cur[t]) THEN NoTask
                               ELSE lowerLock[i]
        BY Zenon, <3>2 DEF OpUnlock
      <4>2. PICK u \in Tasks \ {t} : lowerLock'[i] = u /\ lowerLock[i] = u
        BY Zenon, <2>3, <3>0, <3>h, <4>1
      <4>3. GotRefs(u)' /\ i \in LowerDirs(cur[u])'
        BY Zenon, <1>b, <2>d, <2>o, <3>h, <4>2, InodeAssumption
      <4> QED
        BY Zenon, <4>2, <4>3 DEF GotRefs, LowerDirs
    <3>3. CASE ~ OpLock(t) /\ ~ OpUnlock(t)
      <4>1. lowerLock' = lowerLock
        BY Zenon, <2>l, <3>3 DEF Frame
      <4>2. PICK u \in Tasks : lowerLock'[i] = u /\ lowerLock[i] = u
        BY Zenon, <2>3, <3>0, <4>1
      <4>3. GotRefs(u) /\ i \in LowerDirs(cur[u]) /\ pc[u] \in DirPcs
        BY Zenon, <1>b, <3>h, <4>2, InodeAssumption
      <4>4. CASE u = t
        <5>1. ~ OpenCheck(t) /\ ~ OpenLower(t)
          BY Zenon, <4>3, <4>4 DEF OpenCheck, OpenLower, GotRefs, OpPcs, IgetPcs
        <5>2. SameRefs(t)
          BY Zenon, <2>l, <3>3, <5>1 DEF Keeps
        <5>3. GotRefs(u)' /\ LowerDirs(cur[u])' = LowerDirs(cur[u])
          BY Zenon, <1>1, <4>3, <4>4, <5>2, OwnLowerDirs DEF SameRefs
        <5> QED
          BY Zenon, <4>2, <4>3, <5>3 DEF GotRefs, LowerDirs
      <4>5. CASE u # t
        <5>1. GotRefs(u)' /\ i \in LowerDirs(cur[u])'
          BY Zenon, <2>d, <2>o, <4>3, <4>5
        <5> QED
          BY Zenon, <4>2, <5>1 DEF GotRefs, LowerDirs
      <4> QED
        BY Zenon, <4>4, <4>5
    <3> QED
      BY Zenon, <3>1, <3>2, <3>3
  <2> QED
    BY Zenon, <2>1, <2>2, <2>3 DEF LockInv
<1>2. ASSUME UNCHANGED <<parentRef, dirLock, lowerLock, pc, cur>>,
             \A t \in Tasks : pc[t] \in DirPcs =>
               /\ dent'[cur[t].d] = dent[cur[t].d]
               /\ cur[t].op = "rename" => dent'[cur[t].e] = dent[cur[t].e]
      PROVE  LockInv'
  <2>1. \A t \in Tasks : /\ InLookup(t)' <=> InLookup(t)
                         /\ GotRefs(t)' <=> GotRefs(t)
    BY <1>2 DEF InLookup, GotRefs
  <2>2. \A t \in Tasks : pc[t] \in DirPcs =>
                         /\ UpperDirs(cur[t])' = UpperDirs(cur[t])
                         /\ LowerDirs(cur[t])' = LowerDirs(cur[t])
    BY Zenon, <1>2 DEF UpperDirs, LowerDirs
  <2>3. ASSUME NEW i \in Dirs, dirLock'[i] # NoTask
        PROVE  pc'[dirLock'[i]] \in DirPcs /\ i \in UpperDirs(cur[dirLock[i]])'
    <3>1. PICK u \in Tasks : dirLock'[i] = u /\ dirLock[i] = u
      BY Zenon, <1>0, <1>2, <2>3
    <3>2. pc[u] \in DirPcs /\ i \in UpperDirs(cur[u])
      BY Zenon, <3>1, InodeAssumption DEF LockInv
    <3>3. i \in UpperDirs(cur[u])'
      BY Zenon, <2>2, <3>2
    <3> QED
      BY Zenon, <1>2, <3>1, <3>2, <3>3 DEF UpperDirs
  <2>4. ASSUME NEW i \in Dirs, lowerLock'[i] # NoTask
        PROVE  GotRefs(lowerLock[i])' /\ i \in LowerDirs(cur[lowerLock[i]])'
    <3>1. PICK u \in Tasks : lowerLock'[i] = u /\ lowerLock[i] = u
      BY Zenon, <1>0, <1>2, <2>4
    <3>2. GotRefs(u) /\ i \in LowerDirs(cur[u])
      BY Zenon, <3>1, InodeAssumption DEF LockInv
    <3>3. GotRefs(u)' /\ i \in LowerDirs(cur[u])'
      BY Zenon, <1>b, <2>1, <2>2, <3>2
    <3> QED
      BY Zenon, <3>1, <3>3 DEF GotRefs, LowerDirs
  <2>5. /\ parentRef' \in [Dirs -> Nat]
        /\ \A i \in Dirs :
             parentRef'[i] = IF \E u \in Tasks : InLookup(u)' /\ DirOf[cur'[u].n] = i
                             THEN 1 ELSE 0
    BY Zenon, <1>2, <2>1 DEF LockInv
  <2> QED
    BY Zenon, <2>3, <2>4, <2>5 DEF LockInv
<1>3. ASSUME NEW d \in Dentries, FileRelease(d) \/ DentryKill(d) \/ DentryRelease(d)
      PROVE  LockInv'
  <2>1. UNCHANGED <<parentRef, dirLock, lowerLock, pc, cur>>
    BY Zenon, <1>3 DEF FileRelease, DentryKill, DentryRelease, lockVars
  <2>2. \/ dent' = dent
        \/ /\ \A x \in Dentries \ {d} : dent'[x] = dent[x]
           /\ dent[d].st = "dying" \/ ~ Pinned(d)
    BY <1>3 DEF FileRelease, DentryKill, DentryRelease, Release, OwnInv, CoreType
  <2>3. ASSUME NEW t \in Tasks, pc[t] \in DirPcs
        PROVE  /\ dent'[cur[t].d] = dent[cur[t].d]
               /\ cur[t].op = "rename" => dent'[cur[t].e] = dent[cur[t].e]
    <3>1. /\ cur[t].d \in Dentries /\ dent[cur[t].d].st # "dying"
          /\ cur[t].op = "rename" => /\ cur[t].e \in Dentries
                                     /\ dent[cur[t].e].st # "dying"
      BY Zenon, <2>3 DEF OwnInv, CallOK, InUse
    <3> QED
      BY Zenon, <2>2, <3>1 DEF Pinned
  <2> QED
    BY Zenon, <1>2, <2>1, <2>3
<1>4. CASE \E s \in Slots : EvictInode(s) \/ DestroyInode(s)
  BY Zenon, <1>2, <1>4 DEF EvictInode, DestroyInode, lockVars
<1> QED
  BY Zenon, <1>1, <1>2, <1>3, <1>4 DEF Next, vars, lockVars

RestInv == RestType /\ PathInv /\ MountInv /\ LockInv

\* In the first state nothing is held.
LEMMA RestInvInit == Init => RestInv
<1> SUFFICES ASSUME Init PROVE RestInv
  BY Zenon
<1>1. RestType
  BY Zenon, RestTypeInit
<1>2. \A t \in Tasks : ~ GotRefs(t) /\ ~ InLookup(t) /\ pc[t] = "idle"
  BY Zenon DEF Init, GotRefs, InLookup, OpPcs, IgetPcs, LookPcs
<1>3. PathInv
  <2>1. ASSUME NEW d \in Dentries PROVE Refs(d) = {}
    BY Zenon, <1>2 DEF Refs, Refers
  <2>2. \A d \in Dentries : Cardinality(Refs(d)) = 0
    BY Zenon, <2>1, FS_EmptySet
  <2>3. \A d \in Dentries : pathRef[d] = 0 /\ opens[d] = 0 /\ PathSet(d) = 0
    BY Zenon DEF Init, PathSet, FreeDentry
  <2>4. opens \in [Dentries -> Nat] /\ pathRef \in [Dentries -> Nat]
    BY Zenon DEF Init
  <2> QED
    BY <2>2, <2>3, <2>4 DEF PathInv
<1>4. MountInv
  <2>1. Writers = {}
    BY <1>2 DEF Writers, Wants
  <2> QED
    BY Zenon, <2>1, FS_EmptySet DEF MountInv, Init
<1>5. LockInv
  BY Zenon, <1>2 DEF LockInv, Init
<1> QED
  BY Zenon, <1>1, <1>3, <1>4, <1>5 DEF RestInv

\* One step keeps the accounts.
LEMMA RestInvNext == OwnInv /\ RestInv /\ [Next]_vars => RestInv'
BY Zenon, RestTypeNext, PathNext, MountNext, LockNext DEF RestInv

\* Every variable of the interposition layer keeps its type: no count of the
\* references to a lower path, a lower directory or an inode, and no count of
\* writers, ever goes below zero.
THEOREM TypeInvariant == Spec => []TypeOK
<1>1. ASSUME OwnInv, RestInv PROVE TypeOK
  <2>1. mntWriters \in Nat
    BY Zenon, <1>1, RefsCounts DEF RestInv, MountInv
  <2> QED
    BY Zenon, <1>1, <2>1
    DEF OwnInv, CoreType, HoldInv, RestInv, RestType, PathInv, LockInv, TypeOK
<1> QED
  BY <1>1, RestInvInit, RestInvNext, Ownership, PTL DEF Spec

\* Every call puts what it took, along each of its error paths: a lower path
\* stays referenced while its dentry or an open file uses it, and once all
\* calls have returned no other reference, lock or write count is left and
\* every inode belongs to a dentry.
THEOREM NothingIsLost == Spec => []NothingLost
<1>1. ASSUME OwnInv, RestInv PROVE NothingLost
  <2>0. \A d \in Dentries :
          /\ pathRef[d] = opens[d] + PathSet(d) + Cardinality(Refs(d))
          /\ opens[d] \in Nat /\ PathSet(d) \in Nat
          /\ Cardinality(Refs(d)) \in Nat
    BY Zenon, <1>1, RefsCounts DEF RestInv, PathInv, PathSet
  <2>1. \A d \in Dentries : pathRef[d] >= opens[d] + PathSet(d)
    BY <2>0
  <2>2. ASSUME \A t \in Tasks : pc[t] = "idle"
        PROVE  /\ \A d \in Dentries : pathRef[d] = opens[d] + PathSet(d)
               /\ \A i \in Dirs : /\ dirLock[i] = NoTask /\ lowerLock[i] = NoTask
                                  /\ parentRef[i] = 0
               /\ mntWriters = 0
               /\ \A s \in Slots : inode[s].st = "live" =>
                    \E d \in Dentries : dent[d].ino = s
    <3>1. \A t \in Tasks : /\ ~ GotRefs(t) /\ ~ InLookup(t)
                           /\ pc[t] = "idle" /\ pc[t] \notin DirPcs
      BY Zenon, <2>2 DEF GotRefs, InLookup, DirPcs, OpPcs, IgetPcs, LookPcs
    <3>2. \A d \in Dentries : pathRef[d] = opens[d] + PathSet(d)
      <4>1. ASSUME NEW d \in Dentries PROVE Cardinality(Refs(d)) = 0
        <5>1. Refs(d) = {}
          BY Zenon, <3>1 DEF Refs, Refers
        <5> QED
          BY Zenon, <5>1, FS_EmptySet
      <4> QED
        BY <2>0, <4>1
    <3>3. \A i \in Dirs : /\ dirLock[i] = NoTask /\ lowerLock[i] = NoTask
                          /\ parentRef[i] = 0
      <4>1. dirLock \in [Dirs -> Tasks \cup {NoTask}]
            /\ lowerLock \in [Dirs -> Tasks \cup {NoTask}]
        BY <1>1 DEF OwnInv, CoreType, RestInv, RestType
      <4> QED
        BY <1>1, <3>1, <4>1 DEF RestInv, LockInv
    <3>4. mntWriters = 0
      <4>1. Writers = {}
        BY Zenon, <3>1 DEF Writers, Wants
      <4> QED
        BY Zenon, <1>1, <4>1, FS_EmptySet DEF RestInv, MountInv
    <3>5. ASSUME NEW s \in Slots, inode[s].st = "live"
          PROVE  \E d \in Dentries : dent[d].ino = s
      <4>1. PICK d \in Dentries : Holds(d, s)
        BY Zenon, <1>1, <3>5 DEF OwnInv, HoldInv, Holders
      <4> QED
        BY Zenon, <3>1, <4>1 DEF Holds
    <3> QED
      BY Zenon, <3>2, <3>3, <3>4, <3>5
  <2> QED
    BY Zenon, <2>1, <2>2 DEF NothingLost, PathSet
<1> QED
  BY <1>1, RestInvInit, RestInvNext, Ownership, PTL DEF Spec

=============================================================================
