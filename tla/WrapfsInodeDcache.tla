-------------------------- MODULE WrapfsInodeDcache -------------------------
(***************************************************************************)
(* What the dcache and the inodes say of the lower file system, proved for *)
(* any number of tasks, names, directories, dentries and inodes: one inode *)
(* for each lower inode, names and links as in the lower directories.      *)
(***************************************************************************)
EXTENDS WrapfsInodeProofs

-----------------------------------------------------------------------------
(***************************************************************************)
(* One inode for each lower inode.                                         *)
(***************************************************************************)

\* Unless it has been recorded otherwise, no two inodes have one lower inode.
UniqueInv ==
  doubled = {} =>
    \A r, s \in Slots : inode[r].l # NULL /\ inode[r].l = inode[s].l => r = s

\* What a task changes of the inodes, but for wrapfs_iget giving a new one its
\* lower inode, never gives an inode another lower inode.
LEMMA LowerInodeStep ==
  ASSUME OwnInv, [Next]_vars, \A t \in Tasks : ~ IgetInit(t)
  PROVE  doubled' = doubled /\ \A s \in Slots : inode'[s].l \in {NULL, inode[s].l}
<1>0. inode \in [Slots -> Inode]
  BY Zenon DEF OwnInv, CoreType
<1>1. ASSUME NEW t \in Tasks, StartCall(t) \/ Continue(t)
      PROVE  doubled' = doubled /\ \A s \in Slots : inode'[s].l = inode[s].l
  <2>1. doubled' = doubled
    BY Zenon, <1>1, OnlyIget DEF IgetNoMemory, attrVars
  <2>2. IgetFound(t) \/ IgetNew(t) \/ Interpose(t) \/ Steady(t)
    BY Zenon, <1>1, SteadyStep
  <2>3. \A s \in Slots : inode'[s].l = inode[s].l
    BY <1>0, <2>2 DEF IgetFound, IgetNew, Interpose, Steady, Inode
  <2> QED
    BY <2>1, <2>3
<1>2. ASSUME NEW d \in Dentries, FileRelease(d) \/ DentryKill(d) \/ DentryRelease(d)
      PROVE  doubled' = doubled /\ \A s \in Slots : inode'[s].l = inode[s].l
  BY <1>0, <1>2 DEF FileRelease, DentryKill, DentryRelease, attrVars, Inode
<1>3. ASSUME NEW r \in Slots, EvictInode(r) \/ DestroyInode(r)
      PROVE  doubled' = doubled /\ \A s \in Slots : inode'[s].l \in {NULL, inode[s].l}
  BY <1>0, <1>3 DEF EvictInode, DestroyInode, FreeInode, attrVars
<1>4. CASE UNCHANGED vars
  BY Zenon, <1>4 DEF vars, attrVars
<1> QED
  BY Zenon, <1>1, <1>2, <1>3, <1>4 DEF Next

\* iget5_locked compares a lower inode with all the inodes that have one.
LEMMA MatchesAll ==
  ASSUME OwnInv, NEW l \in LowerInodes
  PROVE  Matches(l) = {s \in Slots : inode[s].l = l}
<1>1. \A s \in Slots : inode[s].l = l => inode[s].st \in {"live", "freeing"}
  <2>1. ASSUME NEW s \in Slots PROVE SlotOK(s) /\ inode[s] \in Inode
    BY DEF OwnInv, CoreType
  <2> QED
    BY Zenon, <2>1, InodeAssumption DEF SlotOK, Inode
<1> QED
  BY <1>1 DEF Matches

\* Every step of wrapfs_iget either keeps lower inodes apart or is recorded.
LEMMA UniqueNext ==
  ASSUME OwnInv, UniqueInv, [Next]_vars
  PROVE  UniqueInv'
<1>0. inode \in [Slots -> Inode]
  BY Zenon DEF OwnInv, CoreType
<1>1. ASSUME NEW t \in Tasks, IgetInit(t) PROVE UniqueInv'
  <2>1. pc[t] = "ig_init"
    BY Zenon, <1>1 DEF IgetInit, Goto
  <2>2. PICK k \in LowerInodes, s \in Slots : k = dent[cur[t].d].l /\ s = cur[t].s
    BY Zenon, <2>1 DEF OwnInv, StageOK, IgetPcs, IgetOK
  <2>3. /\ inode' = [inode EXCEPT ![s] = [st |-> "live", l |-> k]]
        /\ doubled' = IF Matches(k) = {} THEN doubled ELSE doubled \cup {k}
    BY Zenon, <1>1, <2>2 DEF IgetInit
  <2>4. doubled' = {} => doubled = {} /\ \A r \in Slots : inode[r].l # k
    BY Zenon, <2>3, MatchesAll
  <2>5. inode'[s].l = k /\ \A r \in Slots \ {s} : inode'[r] = inode[r]
    BY Zenon, <1>0, <2>3
  <2> QED
    BY <2>4, <2>5 DEF UniqueInv
<1>2. ASSUME \A t \in Tasks : ~ IgetInit(t) PROVE UniqueInv'
  BY Zenon, <1>2, LowerInodeStep DEF UniqueInv
<1> QED
  BY Zenon, <1>1, <1>2

\* A lookup of the only directory that made a new inode found none with its
\* lower inode, and while it holds the directory nobody makes one.
NoRace ==
  /\ doubled = {}
  /\ \A t \in Tasks : pc[t] = "ig_init" => Matches(dent[cur[t].d].l) = {}

\* One step keeps lookups of the only directory apart.
LEMMA NoRaceNext ==
  ASSUME OwnInv, NoRace, [Next]_vars, \A m, n \in Names : DirOf[m] = DirOf[n]
  PROVE  NoRace'
<1>0. /\ inode \in [Slots -> Inode] /\ pc \in [Tasks -> PCs]
      /\ dent \in [Dentries -> Dentry] /\ cur \in [Tasks -> Call]
  BY DEF OwnInv, CoreType
<1>a. \A t \in Tasks : pc[t] = "ig_init" =>
        cur[t].d \in Dentries /\ dent[cur[t].d].l \in LowerInodes
  BY Zenon DEF OwnInv, CallOK, StageOK, DirPcs, IgetPcs
<1>1. ASSUME NEW t \in Tasks, IgetInit(t) PROVE NoRace'
  <2>1. /\ pc[t] = "ig_init" /\ pc' = [pc EXCEPT ![t] = "ig_add"]
        /\ doubled' = doubled
    BY Zenon, <1>1 DEF IgetInit, Goto, NoRace
  <2>2. ASSUME NEW u \in Tasks \ {t}, pc[u] = "ig_init" PROVE FALSE
    <3>1. /\ cur[t].n \in Names /\ dirLock[DirOf[cur[t].n]] = t
          /\ cur[u].n \in Names /\ dirLock[DirOf[cur[u].n]] = u
      BY Zenon, <2>1, <2>2 DEF OwnInv, CallOK, DirPcs, IgetPcs
    <3> QED
      BY <2>2, <3>1
  <2> QED
    BY Zenon, <1>0, <2>1, <2>2 DEF NoRace
<1>2. ASSUME \A t \in Tasks : ~ IgetInit(t), NEW u \in Tasks, pc'[u] = "ig_init"
      PROVE  (Matches(dent[cur[u].d].l) = {})'
  <2>1. PICK k \in LowerInodes : /\ dent'[cur'[u].d].l = k
                                 /\ Matches(k) = {}
    <3>1. CASE \E t \in Tasks : StartCall(t) \/ Continue(t)
      <4>1. PICK t \in Tasks : StartCall(t) \/ Continue(t)
        BY Zenon, <3>1
      <4>2. CASE t = u
        <5>1. IgetNew(u)
          BY Zenon, <1>2, <4>1, <4>2, IgetAt
        <5>2. pc[u] = "ig_find" /\ dent' = dent /\ cur'[u].d = cur[u].d
          BY <1>0, <5>1 DEF IgetNew, Goto, Call
        <5>3. dent[cur[u].d].l \in LowerInodes
          BY Zenon, <5>2 DEF OwnInv, StageOK, IgetPcs
        <5> QED
          BY Zenon, <5>1, <5>2, <5>3 DEF IgetNew
      <4>3. CASE t # u
        <5>1. pc'[u] = pc[u] /\ cur'[u] = cur[u] /\ Local(t)
          BY <4>1, <4>3, LocalStep DEF Local
        <5>2. cur[u].d \in Dentries /\ dent[cur[u].d].st = "fresh" /\ pc[u] \in DirPcs
          BY Zenon, <1>2, <5>1 DEF OwnInv, CallOK, StageOK, DirPcs, IgetPcs
        <5>3. ~ Mine(t, cur[u].d)
          BY Zenon, <4>3, <5>2, Apart
        <5>4. dent'[cur[u].d] = dent[cur[u].d]
          BY Zenon, <5>1, <5>2, <5>3 DEF Local
        <5> QED
          BY Zenon, <1>2, <1>a, <5>1, <5>4 DEF NoRace
      <4> QED
        BY Zenon, <4>2, <4>3
    <3>2. CASE ~ \E t \in Tasks : StartCall(t) \/ Continue(t)
      <4>1. pc' = pc /\ cur' = cur /\ pc[u] = "ig_init"
        BY Zenon, <1>2, <3>2 DEF Next, vars, FileRelease, DentryKill, DentryRelease,
           EvictInode, DestroyInode
      <4>2. cur[u].d \in Dentries /\ dent[cur[u].d].st = "fresh"
        BY Zenon, <4>1 DEF OwnInv, CallOK, StageOK, DirPcs, IgetPcs
      <4>3. dent'[cur[u].d] = dent[cur[u].d]
        BY Zenon, <1>0, <3>2, <4>2 DEF Next, vars, FileRelease, DentryKill, DentryRelease,
           EvictInode, DestroyInode, Release
      <4> QED
        BY Zenon, <1>a, <4>1, <4>3 DEF NoRace
    <3> QED
      BY Zenon, <3>1, <3>2
  <2>2. \A s \in Slots : inode[s].l # k
    BY <2>1, MatchesAll
  <2>3. \A s \in Slots : inode'[s].l # k
    BY Zenon, <1>2, <2>2, LowerInodeStep, InodeAssumption
  <2> QED
    BY Zenon, <2>1, <2>3 DEF Matches
<1>3. ASSUME \A t \in Tasks : ~ IgetInit(t) PROVE NoRace'
  BY Zenon, <1>2, <1>3, LowerInodeStep DEF NoRace
<1> QED
  BY Zenon, <1>1, <1>3

\* "if found a cached inode, then just return it": as long as all names are in
\* one directory, whose i_mutex keeps lookups apart, wrapfs_iget gives a lower
\* inode at most one wrapfs inode, whatever is linked, renamed, dropped and
\* looked up again.
THEOREM OneInodeInOneDirectory ==
  ASSUME \A m, n \in Names : DirOf[m] = DirOf[n]
  PROVE  Spec => []OneInodePerLower
<1>1. ASSUME Init PROVE UniqueInv /\ NoRace
  <2>1. \A s \in Slots : inode[s].l = NULL
    BY Zenon, <1>1 DEF Init, FreeInode
  <2>2. NULL \notin LowerInodes
    BY InodeAssumption
  <2> QED
    BY Zenon, <1>1, <2>1, <2>2 DEF Init, UniqueInv, NoRace
<1>2. OwnInv /\ UniqueInv /\ [Next]_vars => UniqueInv'
  BY Zenon, UniqueNext
<1>3. OwnInv /\ NoRace /\ [Next]_vars => NoRace'
  BY Zenon, NoRaceNext
<1>4. ASSUME OwnInv, UniqueInv, NoRace PROVE OneInodePerLower
  <2>1. ASSUME NEW l \in LowerInodes PROVE Cardinality(Matches(l)) <= 1
    <3>1. \A r, s \in Matches(l) : r = s
      BY <1>4, MatchesAll, InodeAssumption DEF UniqueInv, NoRace
    <3>2. CASE Matches(l) = {}
      BY <3>2, FS_EmptySet
    <3>3. CASE Matches(l) # {}
      <4>1. PICK s \in Matches(l) : TRUE
        BY Zenon, <3>3
      <4>2. Matches(l) = {s}
        BY Zenon, <3>1, <4>1
      <4> QED
        BY <4>2, FS_Singleton
    <3> QED
      BY Zenon, <3>2, <3>3
  <2> QED
    BY <2>1 DEF OneInodePerLower
<1> QED
  BY <1>1, <1>2, <1>3, <1>4, Ownership, PTL DEF Spec

-----------------------------------------------------------------------------
(***************************************************************************)
(* Names in the dcache are unique.                                         *)
(***************************************************************************)
LatePcs == {"op_out", "op_drop", "op_unlock", "op_return"}

\* A call for a name that is not in the dcache keeps it out until it hashes
\* its own dentry.  A rename is between two inodes, and is not marked failed
\* before it has failed.
NameOK(t) ==
  LET c == cur[t] IN
  /\ pc[t] \in DirPcs =>
       /\ dent[c.d].st = "fresh" =>
            \A x \in Dentries : dent[x].st = "hashed" => dent[x].n # c.n
       /\ c.op = "rename" => dent[c.d].st # "unhashed"
  /\ pc[t] \in OpPcs \ {"op_lock", "op_return"} /\ c.op = "rename" =>
       dent[c.d].ino # dent[c.e].ino
  /\ pc[t] \notin LatePcs => c.ok

NameInv ==
  /\ \A d, e \in Dentries :
       dent[d].st = "hashed" /\ dent[e].st = "hashed" /\ dent[d].n = dent[e].n
         => d = e
  /\ \A t \in Tasks : NameOK(t)

\* A step of a call gives a name to at most one dentry, which has it alone.
HashStep(t) ==
  \/ \A x \in Dentries : dent'[x].st = "hashed" =>
       dent[x].st = "hashed" /\ dent'[x].n = dent[x].n
  \/ /\ pc[t] \in DirPcs /\ ~ (dent'[cur[t].d].st = "fresh")
     /\ \E z \in Dentries :
          /\ dent'[z].n = cur[t].n
          /\ \A x \in Dentries \ {z} : dent'[x].st = "hashed" =>
               /\ dent[x].st = "hashed" /\ dent'[x].n = dent[x].n
               /\ dent[x].n # cur[t].n

\* The steps that change dentries or lower names.
Touches(t) ==
  \/ LookupBegin(t) \/ LookupPositive(t) \/ LookupNegative(t)
  \/ LookupFails(t) /\ pc[t] \in LookPcs \cup IgetPcs
  \/ OpMake(t) /\ cur[t].op \in MakeOps
  \/ Interpose(t) \/ OpUnlink(t) \/ OpRmdir(t) \/ OpRename(t) \/ OpReturn(t)

\* All others leave them alone.
LEMMA TouchStep ==
  ASSUME NEW t \in Tasks, StartCall(t) \/ Continue(t)
  PROVE  Touches(t) \/ UNCHANGED <<dent, target>>
<1>1. CASE RemoveBegin(t) \/ RenameBegin(t) \/ OpenBegin(t)
  BY Zenon, <1>1 DEF RemoveBegin, RenameBegin, OpenBegin
<1>2. CASE LookupInfo(t) \/ LookupError(t) \/ InterposeFails(t)
  BY <1>2 DEF LookupInfo, LookupError, InterposeFails, Touches, LookPcs, IgetPcs
<1>3. CASE \/ IgetFound(t) \/ IgetNew(t) \/ IgetNoMemory(t) \/ IgetInit(t)
           \/ RenameRefused(t) \/ OpLock(t) \/ OpWantWrite(t) \/ OpWantNewWrite(t)
           \/ OpUnlinkBug(t) \/ OpFails(t) \/ OpDropWrite(t) \/ OpUnlock(t)
           \/ OpenCheck(t) \/ OpenLower(t)
  BY Zenon, <1>3 DEF IgetFound, IgetNew, IgetNoMemory, IgetInit, RenameRefused, OpLock,
     OpWantWrite, OpWantNewWrite, OpUnlinkBug, OpFails, OpDropWrite, OpUnlock,
     OpenCheck, OpenLower
<1> QED
  BY Zenon, <1>1, <1>2, <1>3
  DEF StartCall, Continue, OpCreate, OpMknod, OpSymlink, OpMkdir, OpLink, Touches,
      MakeOps

\* The dentry of a directory operation, and where it is.
LEMMA OwnDentry ==
  ASSUME OwnInv, NEW t \in Tasks, pc[t] \in DirPcs
  PROVE  /\ cur[t].d \in Dentries /\ cur[t].n \in Names
         /\ dent[cur[t].d].n = cur[t].n
         /\ dent[cur[t].d].st \in InUse \cup {"fresh"}
         /\ dirLock[DirOf[cur[t].n]] = t /\ DirOf[cur[t].n] \in Dirs
         /\ cur[t].op = "rename" => /\ cur[t].e \in Dentries /\ cur[t].e # cur[t].d
                                    /\ dent[cur[t].e].st = "hashed"
                                    /\ dent[cur[t].e].n \in Names
                                    /\ dirLock[DirOf[dent[cur[t].e].n]] = t
<1>1. CallOK(t) /\ \A d \in Dentries : DentOK(d)
  BY Zenon DEF OwnInv
<1>2. /\ cur[t].d \in Dentries /\ cur[t].n \in Names
      /\ dent[cur[t].d].n = cur[t].n
      /\ dent[cur[t].d].st \in InUse \cup {"fresh"}
      /\ dirLock[DirOf[cur[t].n]] = t
  BY Zenon, <1>1 DEF CallOK
<1>3. cur[t].op = "rename" => /\ cur[t].e \in Dentries /\ cur[t].e # cur[t].d
                              /\ dent[cur[t].e].st = "hashed"
                              /\ dirLock[DirOf[dent[cur[t].e].n]] = t
  BY Zenon, <1>1 DEF CallOK
<1>4. cur[t].op = "rename" => dent[cur[t].e].n \in Names
  BY Zenon, <1>1, <1>3 DEF DentOK, InUse
<1> QED
  BY Zenon, <1>2, <1>3, <1>4, InodeAssumption

\* The places at which a call changes dentries are all in directory operations.
LEMMA TouchAt ==
  ASSUME NEW t \in Tasks, Touches(t), ~ LookupBegin(t)
  PROVE  pc[t] \in DirPcs
<1>1. CASE LookupPositive(t) \/ LookupNegative(t) \/ Interpose(t) \/ OpMake(t)
           \/ OpUnlink(t) \/ OpRmdir(t) \/ OpRename(t) \/ OpReturn(t)
  BY Zenon, <1>1 DEF LookupPositive, LookupNegative, Interpose, OpMake, OpUnlink, OpRmdir,
     OpRename, OpReturn, Goto, DirPcs, LookPcs, IgetPcs, OpPcs
<1> QED
  BY <1>1 DEF Touches, DirPcs

\* Hashing, d_move and d_drop keep names unique.
LEMMA HashStepOK ==
  ASSUME OwnInv, NameInv, NEW t \in Tasks, StartCall(t) \/ Continue(t)
  PROVE  HashStep(t)
<1>0. /\ dent \in [Dentries -> Dentry] /\ NameOK(t)
      /\ \A d, e \in Dentries :
           dent[d].st = "hashed" /\ dent[e].st = "hashed" /\ dent[d].n = dent[e].n
             => d = e
  BY DEF OwnInv, CoreType, NameInv
<1>1. CASE UNCHANGED dent
  BY Zenon, <1>1 DEF HashStep
<1>2. CASE LookupBegin(t)
  <2>1. PICK op, n, d, e : LookupFor(t, op, n, d, e) /\ d \in Dentries
    BY Zenon, <1>2 DEF LookupBegin
  <2>2. dent' = [dent EXCEPT ![d] = [FreeDentry EXCEPT !.st = "fresh", !.n = n]]
    BY <2>1 DEF LookupFor
  <2>3. dent'[d].st = "fresh" /\ \A x \in Dentries \ {d} : dent'[x] = dent[x]
    BY Zenon, <1>0, <2>1, <2>2 DEF FreeDentry
  <2> QED
    BY Zenon, <2>3 DEF HashStep
<1>3. ASSUME ~ LookupBegin(t), Touches(t) PROVE HashStep(t)
  <2>0. pc[t] \in DirPcs
    BY Zenon, <1>3, TouchAt
  <2>1. PICK d \in Dentries : d = cur[t].d
    BY Zenon, <2>0, OwnDentry
  <2>2. /\ dent[d].n = cur[t].n /\ dent[d].st \in InUse \cup {"fresh"}
        /\ cur[t].op = "rename" => cur[t].e \in Dentries /\ cur[t].e # d
    BY Zenon, <2>0, <2>1, OwnDentry
  <2>3. CASE LookupFails(t) \/ LookupPositive(t) \/ LookupNegative(t) \/ OpMake(t)
    <3>1. \A x \in Dentries \ {d} : dent'[x] = dent[x]
      BY Zenon, <1>0, <2>1, <2>3
      DEF LookupFails, Release, LookupPositive, LookupNegative, OpMake
    <3>2. CASE dent' = [dent EXCEPT ![d] = FreeDentry]
      <4>1. dent'[d].st = "free"
        BY Zenon, <1>0, <3>2 DEF FreeDentry
      <4> QED
        BY Zenon, <3>1, <4>1 DEF HashStep
    <3>3. CASE LookupPositive(t)
      <4>1. PICK l : dent' = [dent EXCEPT ![d].l = l, ![d].ln = cur[t].n,
                                          ![d].path = TRUE]
        BY Zenon, <2>1, <3>3 DEF LookupPositive
      <4>2. dent'[d].st = dent[d].st /\ dent'[d].n = dent[d].n
        BY <1>0, <4>1 DEF Dentry
      <4> QED
        BY Zenon, <3>1, <4>2 DEF HashStep
    <3>4. CASE dent' = [dent EXCEPT ![d].ln = cur[t].n, ![d].path = TRUE]
      <4>1. dent'[d].st = dent[d].st /\ dent'[d].n = dent[d].n
        BY Zenon, <1>0, <3>4 DEF Dentry
      <4> QED
        BY Zenon, <3>1, <4>1 DEF HashStep
    <3>5. CASE OpMake(t)
      <4>1. PICK l : dent' = [dent EXCEPT ![d].l = l]
        BY Zenon, <2>1, <3>5 DEF OpMake
      <4>2. dent'[d].st = dent[d].st /\ dent'[d].n = dent[d].n
        BY Zenon, <1>0, <4>1 DEF Dentry
      <4> QED
        BY Zenon, <3>1, <4>2 DEF HashStep
    <3> QED
      BY Zenon, <2>1, <2>3, <3>2, <3>3, <3>4, <3>5 DEF LookupFails, LookupNegative, Release
  <2>4. CASE OpUnlink(t) \/ OpRmdir(t)
    <3>1. dent' = [dent EXCEPT ![d].st = "unhashed"]
      BY Zenon, <2>1, <2>4 DEF OpUnlink, OpRmdir
    <3>2. dent'[d].st = "unhashed" /\ \A x \in Dentries \ {d} : dent'[x] = dent[x]
      BY Zenon, <1>0, <3>1 DEF Dentry
    <3> QED
      BY <3>2 DEF HashStep
  <2>5. CASE OpRename(t)
    <3>1. \A x \in Dentries : dent'[x].st = dent[x].st /\ dent'[x].n = dent[x].n
      BY Zenon, <2>5, RenameEffect
    <3> QED
      BY Zenon, <3>1 DEF HashStep
  <2>6. CASE Interpose(t)
    <3>1. pc[t] = "ig_add" /\ dent[d].st = "fresh"
      BY Zenon, <2>1, <2>6 DEF Interpose, OwnInv, StageOK, IgetPcs
    <3>2. dent' = [dent EXCEPT ![d].st = "hashed", ![d].ino = cur[t].s]
      BY Zenon, <2>1, <2>6 DEF Interpose
    <3>3. /\ dent'[d].st = "hashed" /\ dent'[d].n = dent[d].n
          /\ \A x \in Dentries \ {d} : dent'[x] = dent[x]
      BY Zenon, <1>0, <3>2 DEF Dentry
    <3>4. \A x \in Dentries : dent[x].st = "hashed" => dent[x].n # cur[t].n
      BY Zenon, <1>0, <2>0, <2>1, <3>1 DEF NameOK
    <3> QED
      BY <2>0, <2>1, <2>2, <3>3, <3>4 DEF HashStep
  <2>7. CASE OpReturn(t)
    <3>1. PICK r \in Dentries :
            /\ r = cur[t].d
            /\ \A x \in Dentries \ {r} :
                 /\ dent'[x].st = dent[x].st
                 /\ IF cur[t].op = "rename" /\ cur[t].ok /\ x = cur[t].e
                    THEN dent'[x].n = cur[t].n ELSE dent'[x] = dent[x]
            /\ IF dent[r].ino = NULL
               THEN dent[r].st = "fresh" /\ dent'[r] = FreeDentry
               ELSE /\ dent[r].st \in InUse
                    /\ IF cur[t].op = "rename" /\ cur[t].ok
                       THEN dent'[r].st = "unhashed" ELSE dent'[r] = dent[r]
      BY <2>7, ReturnEffect
    <3>2. r = d
      BY Zenon, <2>1, <3>1
    <3>3. CASE ~ (cur[t].op = "rename" /\ cur[t].ok)
      <4>1. \A x \in Dentries : dent'[x] = dent[x] \/ dent'[x] = FreeDentry
        BY Zenon, <3>1, <3>3
      <4> QED
        BY <4>1 DEF HashStep, FreeDentry
    <3>4. CASE cur[t].op = "rename" /\ cur[t].ok
      <4>1. PICK e \in Dentries : e = cur[t].e /\ e # d
        BY Zenon, <2>2, <3>4
      <4>2. dent[d].st # "unhashed"
        BY Zenon, <1>0, <2>0, <2>1, <3>4 DEF NameOK
      <4>3. dent'[d].st \in {"unhashed", "free"}
        BY <3>1, <3>2, <3>4 DEF FreeDentry
      <4>4. dent'[e].n = cur[t].n
        BY Zenon, <3>1, <3>2, <3>4, <4>1
      <4>5. ASSUME NEW x \in Dentries \ {e}, dent'[x].st = "hashed"
            PROVE  /\ dent[x].st = "hashed" /\ dent'[x].n = dent[x].n
                   /\ dent[x].n # cur[t].n
        <5>1. x # d
          BY Zenon, <4>3, <4>5
        <5>2. dent'[x] = dent[x] /\ dent[x].st = "hashed"
          BY Zenon, <3>1, <3>2, <4>1, <4>5, <5>1
        <5>3. dent[x].n # cur[t].n
          BY Zenon, <1>0, <2>0, <2>1, <2>2, <4>2, <5>1, <5>2 DEF NameOK, InUse
        <5> QED
          BY Zenon, <5>2, <5>3
      <4> QED
        BY Zenon, <2>0, <2>1, <4>3, <4>4, <4>5 DEF HashStep
    <3> QED
      BY Zenon, <3>3, <3>4
  <2> QED
    BY Zenon, <1>3, <2>3, <2>4, <2>5, <2>6, <2>7 DEF Touches
<1> QED
  BY Zenon, <1>1, <1>2, <1>3, TouchStep

\* What a directory operation that goes on keeps of its call.
Going(t) ==
  /\ pc[t] \in DirPcs /\ pc'[t] \in DirPcs
  /\ cur'[t].d = cur[t].d /\ cur'[t].n = cur[t].n
  /\ cur'[t].op = "rename" <=> cur[t].op = "rename"
  /\ cur[t].op = "rename" => cur'[t].e = cur[t].e
  /\ \/ cur'[t].op = cur[t].op /\ cur'[t].e = cur[t].e
     \/ pc[t] \in LookPcs /\ cur'[t].op = "lookup"
  /\ pc'[t] \notin LatePcs => pc[t] \notin LatePcs /\ cur'[t].ok = cur[t].ok

\* A call begins, ends, opens a file or goes on.
LEMMA CallSteps ==
  ASSUME OwnInv, NEW t \in Tasks, StartCall(t) \/ Continue(t)
  PROVE  \/ StartCall(t)
         \/ cur'[t] = NoCall /\ pc'[t] = "idle"
         \/ OpenCheck(t) /\ UNCHANGED cur /\ pc'[t] = "open_lower"
         \/ Going(t)
<1>0. pc \in [Tasks -> PCs] /\ cur \in [Tasks -> Call] /\ cur[t] \in Call
  BY Zenon DEF OwnInv, CoreType
<1>1. ASSUME Finish(t) \/ OpenReturn(t) PROVE cur'[t] = NoCall /\ pc'[t] = "idle"
  BY Zenon, <1>0, <1>1 DEF Finish, OpenReturn
<1>2. ASSUME LookupFails(t) PROVE cur'[t] = NoCall /\ pc'[t] = "idle"
  BY Zenon, <1>1, <1>2 DEF LookupFails
<1>3. ASSUME UNCHANGED cur, pc[t] \in DirPcs, pc'[t] \in DirPcs,
             pc'[t] \notin LatePcs => pc[t] \notin LatePcs
      PROVE  Going(t)
  BY Zenon, <1>3 DEF Going
<1>4. CASE LookupInfo(t) \/ LookupError(t) \/ LookupNegative(t)
  <2>1. CASE LookupFails(t)
    BY Zenon, <1>2, <2>1
  <2>2. CASE /\ pc[t] \in LookPcs /\ UNCHANGED cur
             /\ pc' = [pc EXCEPT ![t] = "lk_path"] \/ pc' = [pc EXCEPT ![t] = "op_lock"]
    <3>1. pc'[t] \in {"lk_path", "op_lock"}
      BY Zenon, <1>0, <2>2
    <3> QED
      BY Zenon, <1>3, <2>2, <3>1 DEF DirPcs, LookPcs, OpPcs, LatePcs
  <2> QED
    BY Zenon, <1>4, <2>1, <2>2 DEF LookupInfo, LookupError, LookupNegative, LookPcs
<1>5. CASE LookupPositive(t)
  <2>1. /\ pc[t] = "lk_path" /\ pc'[t] = "ig_find"
        /\ cur' = IF cur[t].op = "rename" THEN cur
                  ELSE [cur EXCEPT ![t].op = "lookup", ![t].e = NULL]
    BY Zenon, <1>0, <1>5 DEF LookupPositive, Goto
  <2>2. /\ cur'[t].d = cur[t].d /\ cur'[t].n = cur[t].n /\ cur'[t].ok = cur[t].ok
        /\ cur'[t].op = "rename" <=> cur[t].op = "rename"
        /\ cur[t].op = "rename" => cur'[t].e = cur[t].e
        /\ cur'[t].op = "lookup" \/ cur' = cur
    BY Zenon, <1>0, <2>1 DEF Call
  <2> QED
    BY Zenon, <2>1, <2>2 DEF Going, DirPcs, LookPcs, IgetPcs, LatePcs
<1>6. CASE IgetFound(t) \/ IgetNew(t)
  <2>1. PICK s : cur' = [cur EXCEPT ![t].s = s]
    BY Zenon, <1>6 DEF IgetFound, IgetNew
  <2>2. pc[t] = "ig_find" /\ pc'[t] \in {"ig_add", "ig_init"}
    BY Zenon, <1>0, <1>6 DEF IgetFound, IgetNew, Goto
  <2>3. /\ cur'[t].d = cur[t].d /\ cur'[t].n = cur[t].n /\ cur'[t].ok = cur[t].ok
        /\ cur'[t].op = cur[t].op /\ cur'[t].e = cur[t].e
    BY Zenon, <1>0, <2>1 DEF Call
  <2> QED
    BY Zenon, <2>2, <2>3 DEF Going, DirPcs, IgetPcs, LatePcs
<1>7. CASE IgetNoMemory(t) \/ IgetInit(t)
  <2>1. UNCHANGED cur /\ pc[t] \in IgetPcs /\ pc'[t] \in IgetPcs
    BY Zenon, <1>0, <1>7 DEF IgetNoMemory, IgetInit, Goto, IgetPcs
  <2> QED
    BY Zenon, <1>3, <2>1 DEF DirPcs, IgetPcs, LatePcs
<1>8. CASE Interpose(t)
  <2>1. \/ Finish(t)
        \/ UNCHANGED cur /\ pc[t] = "ig_add" /\ pc'[t] \in {"op_lock", "op_out"}
    BY Zenon, <1>0, <1>8 DEF Interpose
  <2> QED
    BY Zenon, <1>1, <1>3, <2>1 DEF DirPcs, IgetPcs, OpPcs, LatePcs
<1>9. CASE \/ InterposeFails(t) \/ RenameRefused(t) \/ OpFails(t)
  <2>1. CASE LookupFails(t)
    BY Zenon, <1>2, <2>1
  <2>2. CASE ~ LookupFails(t)
    <3>1. /\ cur' = [cur EXCEPT ![t].ok = FALSE]
          /\ pc[t] \in {"ig_fail", "op_lock", "op_do"}
          /\ pc'[t] \in {"op_out", "op_return"}
      BY Zenon, <1>0, <1>9, <2>2 DEF InterposeFails, RenameRefused, OpFails, Goto
    <3>2. /\ cur'[t].d = cur[t].d /\ cur'[t].n = cur[t].n
          /\ cur'[t].op = cur[t].op /\ cur'[t].e = cur[t].e
      BY Zenon, <1>0, <3>1 DEF Call
    <3> QED
      BY Zenon, <3>1, <3>2 DEF Going, DirPcs, IgetPcs, OpPcs, LatePcs
  <2> QED
    BY Zenon, <2>1, <2>2
<1>10. CASE OpWantWrite(t) \/ OpWantNewWrite(t)
  <2>1. /\ \/ UNCHANGED cur /\ pc'[t] \in {"op_want2", "op_do"}
           \/ /\ cur' = [cur EXCEPT ![t].ok = FALSE]
              /\ pc'[t] \in {"op_unlock", "op_drop"}
        /\ pc[t] \in {"op_want", "op_want2"}
    BY Zenon, <1>0, <1>10 DEF OpWantWrite, OpWantNewWrite, WantNext, Goto
  <2>2. /\ cur'[t].d = cur[t].d /\ cur'[t].n = cur[t].n
        /\ cur'[t].op = cur[t].op /\ cur'[t].e = cur[t].e
        /\ pc'[t] \in {"op_want2", "op_do"} => cur'[t].ok = cur[t].ok
    BY <1>0, <2>1 DEF Call
  <2> QED
    BY Zenon, <2>1, <2>2 DEF Going, DirPcs, OpPcs, LatePcs
<1>11. CASE \/ OpLock(t) \/ OpMake(t) \/ OpUnlink(t) \/ OpUnlinkBug(t) \/ OpRmdir(t)
            \/ OpRename(t) \/ OpDropWrite(t) \/ OpUnlock(t)
  <2>1. /\ UNCHANGED cur
        /\ pc[t] \in {"op_lock", "op_do"} \/ pc'[t] \in LatePcs
        /\ pc[t] \in OpPcs /\ pc'[t] \in OpPcs \cup {"ig_find"}
    BY Zenon, <1>0, <1>11 DEF OpLock, OpMake, OpUnlink, OpUnlinkBug, OpRmdir, OpRename,
       OpDropWrite, OpUnlock, Goto, OpPcs, LatePcs
  <2> QED
    BY Zenon, <1>3, <2>1 DEF DirPcs, IgetPcs, OpPcs, LatePcs
<1>12. CASE OpReturn(t) \/ OpenLower(t)
  BY Zenon, <1>1, <1>12 DEF OpReturn, OpenLower
<1>13. CASE OpenCheck(t)
  <2>1. \/ OpenReturn(t)
        \/ UNCHANGED cur /\ pc'[t] = "open_lower"
    BY Zenon, <1>0, <1>13 DEF OpenCheck
  <2> QED
    BY Zenon, <1>1, <1>13, <2>1
<1> QED
  BY Zenon, <1>4, <1>5, <1>6, <1>7, <1>8, <1>9, <1>10, <1>11, <1>12, <1>13
  DEF Continue, OpCreate, OpMknod, OpSymlink, OpMkdir, OpLink

\* What a step of a directory operation that goes on does to its dentries.
LEMMA OwnFields ==
  ASSUME OwnInv, NEW t \in Tasks, StartCall(t) \/ Continue(t), Going(t)
  PROVE  /\ dent'[cur[t].d].st = "fresh" => dent[cur[t].d].st = "fresh"
         /\ cur[t].op = "rename" =>
              /\ dent'[cur[t].d].st \in {dent[cur[t].d].st, "hashed"}
              /\ dent'[cur[t].e].ino = dent[cur[t].e].ino
         /\ pc[t] \in OpPcs => dent'[cur[t].d].ino = dent[cur[t].d].ino
<1>0. dent \in [Dentries -> Dentry] /\ pc \in [Tasks -> PCs] /\ pc[t] \in DirPcs
  BY Zenon DEF OwnInv, CoreType, Going
<1>1. PICK d \in Dentries : d = cur[t].d
  BY Zenon, <1>0, OwnDentry
<1>2. cur[t].op = "rename" => cur[t].e \in Dentries \ {d}
  BY Zenon, <1>0, <1>1, OwnDentry
<1>a. "idle" \notin DirPcs
  BY DEF DirPcs, LookPcs, IgetPcs, OpPcs
<1>3. ~ LookupBegin(t)
  <2>1. ASSUME LookupBegin(t) PROVE FALSE
    <3>1. PICK op, n, x, e : LookupFor(t, op, n, x, e)
      BY <2>1 DEF LookupBegin
    <3> QED
      BY Zenon, <1>0, <1>a, <3>1 DEF LookupFor, Begin, Goto
  <2> QED
    BY Zenon, <2>1
<1>4. ~ LookupFails(t) /\ ~ OpReturn(t)
  BY Zenon, <1>0, <1>a DEF LookupFails, OpReturn, Finish, Going
<1>5. CASE UNCHANGED dent
  BY Zenon, <1>5
<1>6. ASSUME \A x \in Dentries \ {d} : dent'[x] = dent[x],
             dent'[d].st = dent[d].st, dent'[d].ino = dent[d].ino
      PROVE  /\ dent'[d].st = "fresh" => dent[d].st = "fresh"
             /\ cur[t].op = "rename" =>
                  /\ dent'[d].st \in {dent[d].st, "hashed"}
                  /\ dent'[cur[t].e].ino = dent[cur[t].e].ino
             /\ pc[t] \in OpPcs => dent'[d].ino = dent[d].ino
  BY Zenon, <1>2, <1>6
<1>7. CASE LookupPositive(t)
  <2>1. PICK l : dent' = [dent EXCEPT ![d].l = l, ![d].ln = cur[t].n,
                                      ![d].path = TRUE]
    BY Zenon, <1>1, <1>7 DEF LookupPositive
  <2>2. /\ \A x \in Dentries \ {d} : dent'[x] = dent[x]
        /\ dent'[d].st = dent[d].st /\ dent'[d].ino = dent[d].ino
    BY <1>0, <2>1 DEF Dentry
  <2> QED
    BY Zenon, <1>1, <1>6, <2>2
<1>8. CASE LookupNegative(t)
  <2>1. dent' = [dent EXCEPT ![d].ln = cur[t].n, ![d].path = TRUE]
    BY Zenon, <1>1, <1>4, <1>8 DEF LookupNegative
  <2>2. /\ \A x \in Dentries \ {d} : dent'[x] = dent[x]
        /\ dent'[d].st = dent[d].st /\ dent'[d].ino = dent[d].ino
    BY Zenon, <1>0, <2>1 DEF Dentry
  <2> QED
    BY Zenon, <1>1, <1>6, <2>2
<1>9. CASE OpMake(t)
  <2>1. PICK l : dent' = [dent EXCEPT ![d].l = l]
    BY Zenon, <1>1, <1>9 DEF OpMake
  <2>2. /\ \A x \in Dentries \ {d} : dent'[x] = dent[x]
        /\ dent'[d].st = dent[d].st /\ dent'[d].ino = dent[d].ino
    BY Zenon, <1>0, <2>1 DEF Dentry
  <2> QED
    BY Zenon, <1>1, <1>6, <2>2
<1>10. CASE Interpose(t)
  <2>1. /\ dent' = [dent EXCEPT ![d].st = "hashed", ![d].ino = cur[t].s]
        /\ pc[t] \notin OpPcs
    BY Zenon, <1>1, <1>10 DEF Interpose, OpPcs
  <2>2. /\ \A x \in Dentries \ {d} : dent'[x] = dent[x]
        /\ dent'[d].st = "hashed"
    BY Zenon, <1>0, <2>1 DEF Dentry
  <2> QED
    BY Zenon, <1>1, <1>2, <2>1, <2>2
<1>11. CASE OpUnlink(t) \/ OpRmdir(t)
  <2>1. /\ dent' = [dent EXCEPT ![d].st = "unhashed"] /\ cur[t].op # "rename"
    BY Zenon, <1>1, <1>11 DEF OpUnlink, OpRmdir
  <2>2. dent'[d].st = "unhashed" /\ dent'[d].ino = dent[d].ino
    BY Zenon, <1>0, <2>1 DEF Dentry
  <2> QED
    BY Zenon, <1>1, <2>1, <2>2
<1>12. CASE OpRename(t)
  <2>1. \A x \in Dentries : dent'[x].st = dent[x].st /\ dent'[x].ino = dent[x].ino
    BY Zenon, <1>12, RenameEffect
  <2> QED
    BY Zenon, <1>1, <1>2, <2>1
<1> QED
  BY Zenon, <1>3, <1>4, <1>5, <1>7, <1>8, <1>9, <1>10, <1>11, <1>12, TouchStep DEF Touches

\* Removals and renames begin with a dentry in the dcache.
LEMMA RemoveBegins ==
  ASSUME OwnInv, NEW t \in Tasks, RemoveBegin(t)
  PROVE  \E d \in Dentries :
           /\ dent[d].st = "hashed" /\ UNCHANGED dent
           /\ pc'[t] = "op_lock" /\ cur'[t].d = d /\ cur'[t].ok
           /\ cur'[t].op \in RemoveOps
           /\ cur'[t].op = "rmdir" <=> dent[d].l \in DirInodes
<1>1. PICK d \in Dentries, op \in RemoveOps :
        LET c == [NoCall EXCEPT !.op = op, !.n = dent[d].n, !.d = d] IN
        /\ dent[d].st = "hashed" /\ Begin(t, c, "op_lock") /\ UNCHANGED dent
        /\ op = "rmdir" <=> dent[d].l \in DirInodes
  BY Zenon DEF RemoveBegin
<1>2. /\ pc'[t] = "op_lock" /\ cur'[t].d = d /\ cur'[t].ok /\ cur'[t].op = op
  BY Zenon, <1>1 DEF OwnInv, CoreType, Begin, Goto, NoCall
<1> QED
  BY <1>1, <1>2

\* A rename begins with a hashed dentry.
LEMMA RenameBegins ==
  ASSUME OwnInv, NEW t \in Tasks, RenameBegin(t)
  PROVE  \E d \in Dentries :
           /\ dent[d].st = "hashed" /\ UNCHANGED dent
           /\ pc'[t] = "op_lock" /\ cur'[t].d = d /\ cur'[t].ok
           /\ cur'[t].op = "rename"
<1>1. PICK e \in Dentries, d \in Dentries :
        LET c == [NoCall EXCEPT !.op = "rename", !.n = dent[d].n, !.d = d, !.e = e] IN
        dent[d].st = "hashed" /\ Begin(t, c, "op_lock") /\ UNCHANGED dent
  BY Zenon DEF RenameBegin
<1>2. /\ pc'[t] = "op_lock" /\ cur'[t].d = d /\ cur'[t].ok /\ cur'[t].op = "rename"
  BY Zenon, <1>1 DEF OwnInv, CoreType, Begin, Goto, NoCall
<1> QED
  BY <1>1, <1>2

\* The call of the task that moves.
\* A rename gets to its lower call by way of OpLock.
LEMMA OperationStep ==
  ASSUME OwnInv, NEW t \in Tasks, StartCall(t) \/ Continue(t), pc[t] \in DirPcs,
         cur[t].op = "rename", pc'[t] \in OpPcs \ {"op_lock", "op_return"}
  PROVE  pc[t] \in OpPcs \ {"op_lock", "op_return"} \/ OpLock(t)
<1>0. pc \in [Tasks -> PCs] /\ cur[t].op \notin MakeOps
  BY Zenon DEF OwnInv, CoreType, MakeOps
<1>1. pc'[t] \notin {"idle", "lk_path", "ig_find", "ig_init", "ig_add", "ig_fail",
                     "op_lock", "op_return"}
  BY Zenon DEF OpPcs
<1>2. ~ Finish(t) /\ ~ OpenReturn(t) /\ ~ LookupFails(t)
  BY Zenon, <1>0, <1>1 DEF Finish, OpenReturn, LookupFails
<1>3. CASE StartCall(t)
  BY Zenon, <1>3, CallStarts DEF DirPcs, LookPcs, IgetPcs, OpPcs
<1>4. CASE \/ LookupInfo(t) \/ LookupPositive(t) \/ LookupNegative(t) \/ LookupError(t)
           \/ IgetFound(t) \/ IgetNew(t) \/ IgetNoMemory(t) \/ IgetInit(t)
  BY Zenon, <1>0, <1>1, <1>2, <1>4 DEF LookupInfo, LookupPositive, LookupNegative,
     LookupError, IgetFound, IgetNew, IgetNoMemory, IgetInit, Goto
<1>5. CASE Interpose(t) \/ InterposeFails(t) \/ RenameRefused(t) \/ OpReturn(t)
  <2>1. ~ Interpose(t)
    BY Zenon, <1>0, <1>1, <1>2 DEF Interpose
  <2>2. ~ InterposeFails(t)
    BY Zenon, <1>0, <1>1, <1>2 DEF InterposeFails
  <2>3. ~ RenameRefused(t)
    BY Zenon, <1>0, <1>1, <1>2 DEF RenameRefused, Goto
  <2>4. ~ OpReturn(t)
    BY Zenon, <1>0, <1>1, <1>2 DEF OpReturn
  <2> QED
    BY Zenon, <1>5, <2>1, <2>2, <2>3, <2>4
<1>6. CASE \/ OpWantWrite(t) \/ OpWantNewWrite(t) \/ OpDropWrite(t) \/ OpUnlock(t)
           \/ OpUnlinkBug(t) \/ OpUnlink(t) \/ OpRmdir(t) \/ OpRename(t) \/ OpFails(t)
  BY Zenon, <1>6 DEF OpWantWrite, OpWantNewWrite, OpDropWrite, OpUnlock, OpUnlinkBug,
     OpUnlink, OpRmdir, OpRename, OpFails, Goto, OpPcs
<1>7. CASE \/ OpCreate(t) \/ OpMknod(t) \/ OpSymlink(t) \/ OpMkdir(t) \/ OpLink(t)
           \/ OpenCheck(t) \/ OpenLower(t)
  BY Zenon, <1>0, <1>7 DEF OpCreate, OpMknod, OpSymlink, OpMkdir, OpLink, OpMake,
     OpenCheck, OpenLower, Goto, DirPcs, LookPcs, IgetPcs, OpPcs
<1> QED
  BY Zenon, <1>3, <1>4, <1>5, <1>6, <1>7 DEF Continue

\* A step of a call keeps what it knows of the dcache.
LEMMA OwnName ==
  ASSUME OwnInv, NameInv, NEW t \in Tasks, StartCall(t) \/ Continue(t)
  PROVE  NameOK(t)'
<1>0. /\ dent \in [Dentries -> Dentry] /\ pc \in [Tasks -> PCs]
      /\ cur \in [Tasks -> Call] /\ NameOK(t)
  BY Zenon DEF OwnInv, CoreType, NameInv
<1>1. ASSUME cur'[t].ok, pc'[t] \notin DirPcs PROVE NameOK(t)'
  BY Zenon, <1>1 DEF NameOK, DirPcs
<1>2. CASE LookupBegin(t)
  <2>1. PICK op, n, d, e : LookupFor(t, op, n, d, e) /\ d \in Dentries
    BY <1>2 DEF LookupBegin
  <2>2. /\ dent' = [dent EXCEPT ![d] = [FreeDentry EXCEPT !.st = "fresh", !.n = n]]
        /\ Hashed(n) = {} /\ pc'[t] = "lk_info"
        /\ cur'[t].d = d /\ cur'[t].n = n /\ cur'[t].ok
    BY Zenon, <1>0, <2>1 DEF LookupFor, Begin, Goto, NoCall
  <2>3. dent'[d].st = "fresh" /\ \A x \in Dentries \ {d} : dent'[x] = dent[x]
    BY Zenon, <1>0, <2>1, <2>2 DEF FreeDentry
  <2>4. \A x \in Dentries : dent'[x].st = "hashed" => dent'[x].n # n
    BY <2>2, <2>3 DEF Hashed
  <2> QED
    BY Zenon, <2>2, <2>3, <2>4 DEF NameOK, OpPcs, LatePcs
<1>3. CASE RemoveBegin(t) \/ RenameBegin(t)
  <2>1. PICK d \in Dentries : /\ dent[d].st = "hashed" /\ UNCHANGED dent
                              /\ pc'[t] = "op_lock" /\ cur'[t].d = d /\ cur'[t].ok
    BY <1>3, RemoveBegins, RenameBegins
  <2> QED
    BY Zenon, <2>1 DEF NameOK, OpPcs, LatePcs
<1>4. CASE OpenBegin(t)
  <2>1. pc'[t] = "open_check" /\ cur'[t].ok
    BY Zenon, <1>0, <1>4 DEF OpenBegin, Begin, Goto, NoCall
  <2> QED
    BY Zenon, <1>1, <2>1 DEF DirPcs, LookPcs, IgetPcs, OpPcs
<1>5. CASE cur'[t] = NoCall /\ pc'[t] = "idle"
  BY <1>1, <1>5 DEF NoCall, DirPcs, LookPcs, IgetPcs, OpPcs
<1>6. CASE OpenCheck(t) /\ UNCHANGED cur /\ pc'[t] = "open_lower"
  <2>1. cur'[t].ok
    BY Zenon, <1>0, <1>6 DEF OpenCheck, NameOK, LatePcs
  <2> QED
    BY Zenon, <1>1, <1>6, <2>1 DEF DirPcs, LookPcs, IgetPcs, OpPcs
<1>7. CASE Going(t)
  <2>0. /\ pc[t] \in DirPcs /\ pc'[t] \in DirPcs
        /\ cur'[t].d = cur[t].d /\ cur'[t].n = cur[t].n
        /\ cur'[t].op = "rename" <=> cur[t].op = "rename"
        /\ cur[t].op = "rename" => cur'[t].e = cur[t].e
        /\ pc'[t] \notin LatePcs => pc[t] \notin LatePcs /\ cur'[t].ok = cur[t].ok
    BY Zenon, <1>7 DEF Going
  <2>1. pc'[t] \notin LatePcs => cur'[t].ok
    BY Zenon, <1>0, <2>0 DEF NameOK
  <2>2. dent'[cur[t].d].st = "fresh" =>
          \A x \in Dentries : dent'[x].st = "hashed" => dent'[x].n # cur[t].n
    <3>1. ASSUME dent'[cur[t].d].st = "fresh"
          PROVE  \A x \in Dentries : dent[x].st = "hashed" => dent[x].n # cur[t].n
      BY Zenon, <1>0, <1>7, <2>0, <3>1, OwnFields DEF NameOK
    <3> QED
      BY Zenon, <3>1, HashStepOK DEF HashStep
  <2>3. cur[t].op = "rename" => dent'[cur[t].d].st # "unhashed"
    BY Zenon, <1>0, <1>7, <2>0, OwnFields DEF NameOK
  <2>4. ASSUME pc'[t] \in OpPcs \ {"op_lock", "op_return"}, cur[t].op = "rename"
        PROVE  dent'[cur[t].d].ino # dent'[cur[t].e].ino
    <3>1. pc[t] \in OpPcs \ {"op_lock", "op_return"} \/ OpLock(t)
      BY Zenon, <2>0, <2>4, OperationStep
    <3>2. dent[cur[t].d].ino # dent[cur[t].e].ino
      <4>1. CASE pc[t] \in OpPcs \ {"op_lock", "op_return"}
        BY Zenon, <1>0, <2>4, <4>1 DEF NameOK
      <4>2. CASE OpLock(t)
        <5>1. ~ Refused(cur[t])
          BY Zenon, <4>2 DEF OpLock
        <5>2. cur[t].e \in Dentries /\ dent[cur[t].e].st = "hashed"
          BY Zenon, <2>0, <2>4, OwnDentry
        <5>3. dent[cur[t].e].ino \in Slots
          BY Zenon, <5>2 DEF OwnInv, DentOK, InUse
        <5> QED
          BY Zenon, <2>4, <5>1, <5>3, InodeAssumption DEF Refused
      <4> QED
        BY Zenon, <3>1, <4>1, <4>2
    <3>3. pc[t] \in OpPcs
      BY Zenon, <3>1 DEF OpLock, Goto, OpPcs
    <3> QED
      BY Zenon, <1>7, <2>4, <3>2, <3>3, OwnFields
  <2> QED
    BY Zenon, <2>0, <2>1, <2>2, <2>3, <2>4 DEF NameOK
<1> QED
  BY Zenon, <1>2, <1>3, <1>4, <1>5, <1>6, <1>7, CallSteps DEF StartCall

\* d_kill and wrapfs_d_release change the one dentry they take away, and no
\* call holds it: it is unpinned when killed and dying when released.
LEMMA DentryGoes ==
  ASSUME dent \in [Dentries -> Dentry], NEW d \in Dentries,
         DentryKill(d) \/ DentryRelease(d)
  PROVE  /\ \A x \in Dentries \ {d} : dent'[x] = dent[x]
         /\ dent'[d].st \in {"dying", "free"}
         /\ dent[d].st = "dying" \/ ~ Pinned(d)
<1>1. CASE DentryKill(d)
  <2>1. dent' = [dent EXCEPT ![d].st = "dying"] /\ ~ Pinned(d)
    BY Zenon, <1>1 DEF DentryKill
  <2>2. dent[d] \in Dentry
    OBVIOUS
  <2>3. dent'[d] = [dent[d] EXCEPT !.st = "dying"]
    BY Zenon, <2>1
  <2>4. dent'[d].st = "dying"
    BY <2>2, <2>3 DEF Dentry
  <2> QED
    BY Zenon, <2>1, <2>4
<1>2. CASE DentryRelease(d)
  <2>1. dent' = [dent EXCEPT ![d] = FreeDentry] /\ dent[d].st = "dying"
    BY Zenon, <1>2 DEF DentryRelease, Release
  <2>2. dent'[d].st = "free"
    BY Zenon, <2>1 DEF FreeDentry
  <2> QED
    BY Zenon, <2>1, <2>2
<1> QED
  BY Zenon, <1>1, <1>2

\* Every step keeps names unique.
LEMMA NameNext ==
  ASSUME OwnInv, NameInv, [Next]_vars
  PROVE  NameInv'
<1>0. dent \in [Dentries -> Dentry]
  BY Zenon DEF OwnInv, CoreType
<1>a. \A d, e \in Dentries :
        dent[d].st = "hashed" /\ dent[e].st = "hashed" /\ dent[d].n = dent[e].n
          => d = e
  BY DEF NameInv
<1>1. ASSUME NEW u \in Tasks, pc'[u] = pc[u], cur'[u] = cur[u],
             pc[u] \in DirPcs =>
               /\ dent'[cur[u].d] = dent[cur[u].d]
               /\ cur[u].op = "rename" => dent'[cur[u].e] = dent[cur[u].e]
               /\ \A x \in Dentries : dent'[x].st = "hashed" =>
                    \/ dent[x].st = "hashed" /\ dent'[x].n = dent[x].n
                    \/ dent'[x].n # cur[u].n
      PROVE  NameOK(u)'
  <2>1. NameOK(u)
    BY Zenon DEF NameInv
  <2> QED
    BY Zenon, <1>1, <2>1 DEF NameOK, DirPcs
<1>2. ASSUME NEW t \in Tasks, StartCall(t) \/ Continue(t) PROVE NameInv'
  <2>1. HashStep(t) /\ Local(t)
    BY Zenon, <1>2, HashStepOK, LocalStep
  <2>2. ASSUME NEW u \in Tasks \ {t} PROVE NameOK(u)'
    <3>1. pc'[u] = pc[u] /\ cur'[u] = cur[u]
      BY Zenon, <2>1 DEF Local
    <3>2. ASSUME pc[u] \in DirPcs
          PROVE  /\ dent'[cur[u].d] = dent[cur[u].d]
                 /\ cur[u].op = "rename" => dent'[cur[u].e] = dent[cur[u].e]
      BY <2>1, <3>2, Apart, OwnDentry DEF Local
    <3>3. ASSUME pc[u] \in DirPcs, NEW x \in Dentries, dent'[x].st = "hashed"
          PROVE  \/ dent[x].st = "hashed" /\ dent'[x].n = dent[x].n
                 \/ dent'[x].n # cur[u].n
      <4>1. pc[t] \in DirPcs => cur[t].n # cur[u].n
        BY <3>3, OwnDentry
      <4> QED
        BY Zenon, <2>1, <3>3, <4>1 DEF HashStep
    <3> QED
      BY Zenon, <1>1, <3>1, <3>2, <3>3
  <2>3. ASSUME NEW d \in Dentries, NEW e \in Dentries, dent'[d].st = "hashed",
               dent'[e].st = "hashed", dent'[d].n = dent'[e].n
        PROVE  d = e
    BY Zenon, <1>a, <2>1, <2>3 DEF HashStep
  <2> QED
    BY Zenon, <1>2, <2>2, <2>3, OwnName DEF NameInv
<1>3. ASSUME UNCHANGED <<pc, cur>>,
             \A x \in Dentries : dent'[x].st = "hashed" =>
               dent[x].st = "hashed" /\ dent'[x].n = dent[x].n,
             \A u \in Tasks : pc[u] \in DirPcs =>
               /\ dent'[cur[u].d] = dent[cur[u].d]
               /\ cur[u].op = "rename" => dent'[cur[u].e] = dent[cur[u].e]
      PROVE  NameInv'
  <2>1. \A u \in Tasks : NameOK(u)'
    BY Zenon, <1>1, <1>3
  <2> QED
    BY <1>a, <1>3, <2>1 DEF NameInv
<1>4. ASSUME NEW d \in Dentries, DentryKill(d) \/ DentryRelease(d)
      PROVE  NameInv'
  <2>1. UNCHANGED <<pc, cur>>
    BY Zenon, <1>4 DEF DentryKill, DentryRelease
  <2>2. /\ \A x \in Dentries \ {d} : dent'[x] = dent[x]
        /\ dent'[d].st \in {"dying", "free"}
        /\ dent[d].st = "dying" \/ ~ Pinned(d)
    BY Zenon, <1>0, <1>4, DentryGoes
  <2>3. ASSUME NEW u \in Tasks, pc[u] \in DirPcs
        PROVE  /\ dent'[cur[u].d] = dent[cur[u].d]
               /\ cur[u].op = "rename" => dent'[cur[u].e] = dent[cur[u].e]
    BY <2>2, <2>3, OwnDentry DEF Pinned, InUse
  <2> QED
    BY Zenon, <1>3, <2>1, <2>2, <2>3
<1>5. CASE UNCHANGED <<pc, cur, dent>>
  BY Zenon, <1>3, <1>5
<1> QED
  BY Zenon, <1>2, <1>4, <1>5 DEF Next, vars, FileRelease, EvictInode, DestroyInode

-----------------------------------------------------------------------------
(***************************************************************************)
(* What the dcache says is true.                                           *)
(***************************************************************************)
EarlyPcs == {"op_lock", "op_want", "op_want2", "op_do"}

\* vfs_rename has moved the lower name and d_move has not yet followed.
Renamed(t) == cur[t].op = "rename" /\ cur[t].ok /\ pc[t] \in LatePcs
Moving(d) == \E t \in Tasks : Renamed(t) /\ d \in {cur[t].d, cur[t].e}

Accurate(d) == dent[d].ln = dent[d].n /\ target[dent[d].n] = dent[d].l

\* What a call knows of the name it has locked: after a rename, that it is the
\* source's; in wrapfs_iget, what it found there; before the lower call, that
\* the name it is to make does not exist.
CallTruth(t) ==
  LET c == cur[t] IN
  /\ Renamed(t) => dent[c.e].ln = c.n /\ target[c.n] = dent[c.e].l
  /\ pc[t] \in IgetPcs => target[c.n] = dent[c.d].l
  /\ pc[t] \in EarlyPcs /\ dent[c.d].st = "fresh" => target[c.n] = NULL

TruthInv ==
  doubled = {} =>
    /\ \A d \in Dentries : dent[d].st = "hashed" /\ ~ Moving(d) => Accurate(d)
    /\ \A t \in Tasks : CallTruth(t)

\* A step of one call leaves what the others know of their names alone, as it
\* changes lower names only in directories it has locked.
LEMMA TruthLocal ==
  ASSUME OwnInv, TruthInv, doubled = {}, NEW t \in Tasks, Local(t),
         \A n \in Names : target'[n] = target[n] \/ dirLock[DirOf[n]] = t,
         CallTruth(t)',
         \A x \in Dentries :
           /\ dent'[x].st = "hashed"
           /\ ~ (Renamed(t)' /\ x \in {cur'[t].d, cur'[t].e})
           => \/ Accurate(x)'
              \/ /\ dent[x].st = "hashed" /\ dent'[x] = dent[x]
                 /\ target'[dent[x].n] = target[dent[x].n]
                 /\ ~ (Renamed(t) /\ x \in {cur[t].d, cur[t].e})
  PROVE  TruthInv'
<1>1. ASSUME NEW u \in Tasks \ {t}
      PROVE  CallTruth(u)' /\ (Renamed(u)' <=> Renamed(u)) /\ cur'[u] = cur[u]
  <2>1. pc'[u] = pc[u] /\ cur'[u] = cur[u] /\ CallTruth(u)
    BY Zenon DEF Local, TruthInv
  <2>2. Renamed(u)' <=> Renamed(u)
    BY Zenon, <2>1 DEF Renamed
  <2>3. ASSUME pc[u] \in DirPcs
        PROVE  /\ dent'[cur[u].d] = dent[cur[u].d]
               /\ cur[u].op = "rename" => dent'[cur[u].e] = dent[cur[u].e]
               /\ target'[cur[u].n] = target[cur[u].n]
    <3>1. /\ dent'[cur[u].d] = dent[cur[u].d]
          /\ cur[u].op = "rename" => dent'[cur[u].e] = dent[cur[u].e]
      BY <2>3, Apart, OwnDentry DEF Local
    <3>2. cur[u].n \in Names /\ dirLock[DirOf[cur[u].n]] = u
      BY Zenon, <2>3, OwnDentry
    <3> QED
      BY Zenon, <3>1, <3>2
  <2>4. pc[u] \in IgetPcs \cup EarlyPcs \cup LatePcs => pc[u] \in DirPcs
    BY Zenon DEF DirPcs, OpPcs, EarlyPcs, LatePcs
  <2>5. Renamed(u) => pc[u] \in LatePcs /\ cur[u].op = "rename"
    BY Zenon DEF Renamed
  <2>6. CallTruth(u)'
    BY <2>1, <2>2, <2>3, <2>4, <2>5 DEF CallTruth
  <2> QED
    BY Zenon, <2>1, <2>2, <2>6
<1>2. ASSUME NEW x \in Dentries, dent'[x].st = "hashed", ~ Moving(x)'
      PROVE  Accurate(x)'
  <2>1. ~ (Renamed(t)' /\ x \in {cur'[t].d, cur'[t].e})
    BY Zenon, <1>2 DEF Moving
  <2>2. SUFFICES ASSUME /\ dent[x].st = "hashed" /\ dent'[x] = dent[x]
                        /\ target'[dent[x].n] = target[dent[x].n]
                        /\ ~ (Renamed(t) /\ x \in {cur[t].d, cur[t].e})
                 PROVE  Accurate(x)'
    BY Zenon, <1>2, <2>1
  <2>3. ~ Moving(x)
    BY Zenon, <1>1, <1>2, <2>2 DEF Moving
  <2>4. Accurate(x)
    BY Zenon, <2>2, <2>3 DEF TruthInv
  <2> QED
    BY Zenon, <2>2, <2>4 DEF Accurate
<1> QED
  BY Zenon, <1>1, <1>2 DEF TruthInv

\* A step that changes neither dentries nor lower names keeps what the call
\* knows.
Still(t) ==
  /\ pc'[t] \in IgetPcs => pc[t] \in IgetPcs
  /\ pc'[t] \in EarlyPcs =>
       pc[t] \in EarlyPcs \/ dent'[cur'[t].d].st = "hashed"
  /\ Renamed(t)' <=> Renamed(t)
  /\ pc[t] \in DirPcs =>
       cur'[t].d = cur[t].d /\ cur'[t].n = cur[t].n /\ cur'[t].e = cur[t].e

\* Every step of a call that touches neither is such a step.
LEMMA StillStep ==
  ASSUME OwnInv, NEW t \in Tasks, StartCall(t) \/ Continue(t), ~ Touches(t)
  PROVE  Still(t)
<1>0. pc \in [Tasks -> PCs] /\ cur \in [Tasks -> Call] /\ cur[t] \in Call
  BY Zenon DEF OwnInv, CoreType
<1>1. ASSUME pc[t] \notin DirPcs, pc'[t] \notin DirPcs PROVE Still(t)
  BY Zenon, <1>1 DEF Still, Renamed, DirPcs, IgetPcs, OpPcs, EarlyPcs, LatePcs
<1>2. CASE RemoveBegin(t) \/ RenameBegin(t)
  <2>1. PICK d \in Dentries : /\ dent[d].st = "hashed" /\ UNCHANGED dent
                              /\ pc'[t] = "op_lock" /\ cur'[t].d = d
    BY <1>2, RemoveBegins, RenameBegins
  <2>2. pc[t] = "idle"
    BY Zenon, <1>2 DEF RemoveBegin, RenameBegin, Begin, Goto
  <2> QED
    BY Zenon, <2>1, <2>2 DEF Still, Renamed, DirPcs, LookPcs, IgetPcs, OpPcs, LatePcs
<1>3. CASE OpenBegin(t) \/ OpenCheck(t) \/ OpenLower(t)
  <2>1. /\ pc[t] \in {"idle", "open_check", "open_lower"}
        /\ pc'[t] \in {"idle", "open_check", "open_lower"}
    BY Zenon, <1>0, <1>3 DEF OpenBegin, OpenCheck, OpenLower, OpenReturn, Begin, Goto
  <2> QED
    BY Zenon, <1>1, <2>1 DEF DirPcs, LookPcs, IgetPcs, OpPcs
<1>4. CASE LookupInfo(t) \/ LookupError(t)
  <2>1. pc[t] = "lk_info" /\ pc'[t] = "lk_path" /\ UNCHANGED cur
    BY Zenon, <1>0, <1>4 DEF LookupInfo, LookupError, Touches, LookPcs
  <2> QED
    BY Zenon, <2>1 DEF Still, Renamed, IgetPcs, EarlyPcs, LatePcs
<1>5. CASE IgetFound(t) \/ IgetNew(t)
  <2>1. PICK s : cur' = [cur EXCEPT ![t].s = s]
    BY Zenon, <1>5 DEF IgetFound, IgetNew
  <2>2. pc[t] = "ig_find" /\ pc'[t] \in {"ig_add", "ig_init"}
    BY Zenon, <1>0, <1>5 DEF IgetFound, IgetNew, Goto
  <2>3. cur'[t].d = cur[t].d /\ cur'[t].n = cur[t].n /\ cur'[t].e = cur[t].e
    BY Zenon, <1>0, <2>1 DEF Call
  <2> QED
    BY Zenon, <2>2, <2>3 DEF Still, Renamed, IgetPcs, EarlyPcs, LatePcs
<1>6. CASE IgetNoMemory(t) \/ IgetInit(t)
  <2>1. UNCHANGED cur /\ pc[t] \in IgetPcs /\ pc'[t] \in IgetPcs
    BY Zenon, <1>0, <1>6 DEF IgetNoMemory, IgetInit, Goto, IgetPcs
  <2> QED
    BY <2>1 DEF Still, Renamed, IgetPcs, EarlyPcs, LatePcs
<1>7. CASE InterposeFails(t) \/ RenameRefused(t) \/ OpFails(t)
  <2>1. /\ cur' = [cur EXCEPT ![t].ok = FALSE]
        /\ pc[t] \in {"ig_fail", "op_lock", "op_do"}
        /\ pc'[t] \in {"op_out", "op_return"}
    BY Zenon, <1>0, <1>7 DEF InterposeFails, RenameRefused, OpFails, Goto, Touches, IgetPcs
  <2>2. /\ cur'[t].d = cur[t].d /\ cur'[t].n = cur[t].n /\ cur'[t].e = cur[t].e
        /\ ~ cur'[t].ok
    BY Zenon, <1>0, <2>1 DEF Call
  <2> QED
    BY Zenon, <2>1, <2>2 DEF Still, Renamed, IgetPcs, EarlyPcs, LatePcs
<1>8. CASE OpWantWrite(t) \/ OpWantNewWrite(t)
  <2>1. /\ \/ UNCHANGED cur /\ pc'[t] \in {"op_want2", "op_do"}
           \/ /\ cur' = [cur EXCEPT ![t].ok = FALSE]
              /\ pc'[t] \in {"op_unlock", "op_drop"}
        /\ pc[t] \in {"op_want", "op_want2"}
    BY Zenon, <1>0, <1>8 DEF OpWantWrite, OpWantNewWrite, WantNext, Goto
  <2>2. /\ cur'[t].d = cur[t].d /\ cur'[t].n = cur[t].n /\ cur'[t].e = cur[t].e
        /\ pc'[t] \in LatePcs => ~ cur'[t].ok
    BY <1>0, <2>1 DEF Call, LatePcs
  <2> QED
    BY Zenon, <2>1, <2>2 DEF Still, Renamed, IgetPcs, EarlyPcs, LatePcs
<1>9. CASE OpLock(t) \/ OpUnlinkBug(t)
  <2>1. UNCHANGED cur /\ pc[t] \in EarlyPcs /\ pc'[t] \in {"op_want", "dead"}
    BY Zenon, <1>0, <1>9 DEF OpLock, OpUnlinkBug, Goto, EarlyPcs
  <2> QED
    BY Zenon, <2>1 DEF Still, Renamed, IgetPcs, EarlyPcs, LatePcs
<1>10. CASE OpDropWrite(t) \/ OpUnlock(t)
  <2>1. UNCHANGED cur /\ pc[t] \in LatePcs /\ pc'[t] \in LatePcs
    BY Zenon, <1>0, <1>10 DEF OpDropWrite, OpUnlock, Goto, LatePcs
  <2> QED
    BY Zenon, <2>1 DEF Still, Renamed, IgetPcs, EarlyPcs, LatePcs
<1> QED
  BY Zenon, <1>2, <1>3, <1>4, <1>5, <1>6, <1>7, <1>8, <1>9, <1>10
  DEF StartCall, Continue, Touches, OpCreate, OpMknod, OpSymlink, OpMkdir, OpLink,
      MakeOps

\* A dentry that a call has found in the dcache, before its lower call.
LEMMA EarlyDentry ==
  ASSUME OwnInv, NameInv, TruthInv, doubled = {}, NEW t \in Tasks,
         pc[t] \in EarlyPcs
  PROVE  /\ dent[cur[t].d].ln = cur[t].n
         /\ dent[cur[t].d].st \in {"fresh", "hashed"}
         /\ dent[cur[t].d].st = "hashed" => target[cur[t].n] = dent[cur[t].d].l
         /\ \A x \in Dentries \ {cur[t].d} :
              dent[x].st = "hashed" => dent[x].n # cur[t].n
         /\ cur[t].op = "rename" =>
              /\ dent[cur[t].e].ln = dent[cur[t].e].n
              /\ dent[cur[t].e].n # cur[t].n
              /\ target[dent[cur[t].e].n] = dent[cur[t].e].l
<1>0. pc[t] \in DirPcs /\ ~ Renamed(t) /\ StageOK(t) /\ NameOK(t)
  BY Zenon DEF EarlyPcs, DirPcs, OpPcs, Renamed, LatePcs, OwnInv, NameInv
<1>1. PICK d \in Dentries : d = cur[t].d /\ dent[d].n = cur[t].n
  BY <1>0, OwnDentry
<1>2. /\ dent[d].st \in {"fresh", "hashed"}
      /\ dent[d].st = "fresh" => dent[d].ln = cur[t].n
  BY Zenon, <1>0, <1>1 DEF StageOK, EarlyPcs
<1>3. ASSUME NEW x \in Dentries, x = d \/ (cur[t].op = "rename" /\ x = cur[t].e)
      PROVE  ~ Moving(x)
  <2>1. ASSUME NEW u \in Tasks, Renamed(u), x \in {cur[u].d, cur[u].e} PROVE FALSE
    <3>1. u # t /\ pc[u] \in DirPcs /\ cur[u].op = "rename"
      BY Zenon, <1>0, <2>1 DEF Renamed, LatePcs, DirPcs, OpPcs
    <3>2. Mine(t, x)
      BY Zenon, <1>0, <1>1, <1>3 DEF Mine
    <3> QED
      BY Zenon, <2>1, <3>1, <3>2, Apart
  <2> QED
    BY <2>1 DEF Moving
<1>4. dent[d].st = "hashed" => Accurate(d)
  BY Zenon, <1>3 DEF TruthInv
<1>5. \A x \in Dentries \ {d} : dent[x].st = "hashed" => dent[x].n # cur[t].n
  BY Zenon, <1>0, <1>1, <1>2 DEF NameOK, NameInv
<1>6. ASSUME cur[t].op = "rename"
      PROVE  /\ dent[cur[t].e].ln = dent[cur[t].e].n
             /\ dent[cur[t].e].n # cur[t].n
             /\ target[dent[cur[t].e].n] = dent[cur[t].e].l
  <2>1. PICK e \in Dentries \ {d} : e = cur[t].e /\ dent[e].st = "hashed"
    BY <1>0, <1>1, <1>6, OwnDentry
  <2>2. Accurate(e)
    BY Zenon, <1>3, <1>6, <2>1 DEF TruthInv
  <2> QED
    BY Zenon, <1>5, <2>1, <2>2 DEF Accurate
<1> QED
  BY Zenon, <1>1, <1>2, <1>4, <1>5, <1>6 DEF Accurate

\* One step of a call.
LEMMA TruthStep ==
  ASSUME OwnInv, NameInv, UniqueInv, TruthInv, doubled = {},
         NEW t \in Tasks, StartCall(t) \/ Continue(t)
  PROVE  TruthInv'
<1>0. /\ dent \in [Dentries -> Dentry] /\ pc \in [Tasks -> PCs]
      /\ cur \in [Tasks -> Call] /\ cur[t] \in Call
      /\ target \in [Names -> LowerInodes \cup {NULL}]
  BY DEF OwnInv, CoreType
<1>a. Local(t) /\ CallTruth(t)
  BY Zenon, LocalStep DEF TruthInv
<1>b. ASSUME target' = target, CallTruth(t)', ~ Renamed(t),
             \A x \in Dentries : dent'[x].st = "hashed" =>
               Accurate(x)' \/ (dent[x].st = "hashed" /\ dent'[x] = dent[x])
      PROVE  TruthInv'
  BY Zenon, <1>a, <1>b, TruthLocal
<1>c. ASSUME pc'[t] \notin IgetPcs \cup EarlyPcs \cup LatePcs PROVE CallTruth(t)'
  BY Zenon, <1>c DEF CallTruth, Renamed
<1>d. pc[t] \notin LatePcs => ~ Renamed(t)
  BY Zenon DEF Renamed
<1>1. CASE ~ Touches(t)
  <2>1. dent' = dent /\ target' = target
    BY Zenon, <1>1, TouchStep
  <2>2. Still(t)
    BY Zenon, <1>1, StillStep
  <2>3. /\ pc[t] \in IgetPcs \cup EarlyPcs \cup LatePcs => pc[t] \in DirPcs
        /\ Renamed(t) => pc[t] \in LatePcs
    BY DEF DirPcs, OpPcs, EarlyPcs, LatePcs, Renamed
  <2>4. CallTruth(t)'
    BY Zenon, <1>a, <2>1, <2>2, <2>3 DEF CallTruth, Still
  <2>5. Renamed(t) =>
          Renamed(t)' /\ cur'[t].d = cur[t].d /\ cur'[t].e = cur[t].e
    BY Zenon, <2>2, <2>3 DEF Still
  <2> QED
    BY Zenon, <1>a, <2>1, <2>4, <2>5, TruthLocal
<1>2. CASE LookupBegin(t)
  <2>1. PICK op, n, d, e : LookupFor(t, op, n, d, e) /\ d \in Dentries
    BY Zenon, <1>2 DEF LookupBegin
  <2>2. /\ dent' = [dent EXCEPT ![d] = [FreeDentry EXCEPT !.st = "fresh", !.n = n]]
        /\ pc[t] = "idle" /\ pc'[t] = "lk_info" /\ target' = target
    BY Zenon, <1>0, <2>1 DEF LookupFor, Begin, Goto
  <2>3. dent'[d].st = "fresh" /\ \A x \in Dentries \ {d} : dent'[x] = dent[x]
    BY Zenon, <1>0, <2>1, <2>2 DEF FreeDentry
  <2>4. ~ Renamed(t) /\ CallTruth(t)'
    BY Zenon, <1>c, <1>d, <2>2 DEF IgetPcs, EarlyPcs, LatePcs
  <2> QED
    BY Zenon, <1>b, <2>2, <2>3, <2>4
<1>3. ASSUME ~ LookupBegin(t), Touches(t) PROVE TruthInv'
  <2>0. pc[t] \in DirPcs
    BY Zenon, <1>3, TouchAt
  <2>1. PICK d \in Dentries : d = cur[t].d
    BY Zenon, <2>0, OwnDentry
  <2>2. /\ dent[d].n = cur[t].n /\ cur[t].n \in Names
        /\ dirLock[DirOf[cur[t].n]] = t
    BY Zenon, <2>0, <2>1, OwnDentry
  <2>s. StageOK(t)
    BY Zenon DEF OwnInv
  <2>3. CASE LookupFails(t) /\ pc[t] \in LookPcs \cup IgetPcs
    <3>1. dent' = [dent EXCEPT ![d] = FreeDentry] /\ pc'[t] = "idle" /\ target' = target
      BY Zenon, <1>0, <2>1, <2>3 DEF LookupFails, Release, Finish
    <3>2. dent'[d].st = "free" /\ \A x \in Dentries \ {d} : dent'[x] = dent[x]
      BY Zenon, <1>0, <3>1 DEF FreeDentry
    <3>3. ~ Renamed(t) /\ CallTruth(t)'
      BY Zenon, <1>c, <1>d, <2>3, <3>1 DEF LookPcs, IgetPcs, EarlyPcs, LatePcs
    <3> QED
      BY Zenon, <1>b, <3>1, <3>2, <3>3
  <2>4. CASE LookupPositive(t)
    <3>1. /\ dent' = [dent EXCEPT ![d].l = target[cur[t].n], ![d].ln = cur[t].n,
                                  ![d].path = TRUE]
          /\ pc[t] = "lk_path" /\ pc'[t] = "ig_find" /\ target' = target
          /\ cur' = IF cur[t].op = "rename" THEN cur
                    ELSE [cur EXCEPT ![t].op = "lookup", ![t].e = NULL]
      BY Zenon, <1>0, <2>1, <2>4 DEF LookupPositive, Goto
    <3>2. cur'[t].d = d /\ cur'[t].n = cur[t].n
      BY Zenon, <1>0, <2>1, <3>1 DEF Call
    <3>3. dent[d].st = "fresh"
      BY Zenon, <2>1, <2>s, <3>1 DEF StageOK, LookPcs
    <3>4. /\ dent'[d].st = dent[d].st /\ dent'[d].l = target[cur[t].n]
          /\ \A x \in Dentries \ {d} : dent'[x] = dent[x]
      BY <1>0, <3>1 DEF Dentry
    <3>5. ~ Renamed(t)
      BY Zenon, <1>d, <3>1 DEF LatePcs
    <3>6. CallTruth(t)'
      BY Zenon, <3>1, <3>2, <3>4 DEF CallTruth, Renamed, EarlyPcs, LatePcs
    <3> QED
      BY Zenon, <1>b, <3>1, <3>3, <3>4, <3>5, <3>6
  <2>5. CASE LookupNegative(t) /\ ~ LookupFails(t)
    <3>1. /\ dent' = [dent EXCEPT ![d].ln = cur[t].n, ![d].path = TRUE]
          /\ pc[t] = "lk_path" /\ pc'[t] = "op_lock" /\ target' = target
          /\ cur' = cur /\ target[cur[t].n] = NULL
      BY Zenon, <1>0, <2>1, <2>5 DEF LookupNegative
    <3>3. dent[d].st = "fresh"
      BY Zenon, <2>1, <2>s, <3>1 DEF StageOK, LookPcs
    <3>4. /\ dent'[d].st = dent[d].st
          /\ \A x \in Dentries \ {d} : dent'[x] = dent[x]
      BY <1>0, <3>1 DEF Dentry
    <3>5. ~ Renamed(t)
      BY Zenon, <1>d, <3>1 DEF LatePcs
    <3>6. CallTruth(t)'
      BY Zenon, <3>1 DEF CallTruth, Renamed, IgetPcs, LatePcs
    <3> QED
      BY Zenon, <1>b, <3>1, <3>3, <3>4, <3>5, <3>6
  <2>6. CASE Interpose(t)
    <3>1. /\ dent' = [dent EXCEPT ![d].st = "hashed", ![d].ino = cur[t].s]
          /\ pc[t] = "ig_add" /\ target' = target
          /\ \/ pc'[t] = "idle"
             \/ pc'[t] = "op_lock" /\ cur' = cur
             \/ pc'[t] = "op_out" /\ cur' = cur /\ cur[t].op \in MakeOps
      BY Zenon, <1>0, <2>1, <2>6 DEF Interpose, Finish
    <3>2. /\ dent'[d].st = "hashed" /\ dent'[d].l = dent[d].l
          /\ dent'[d].n = dent[d].n /\ dent'[d].ln = dent[d].ln
          /\ \A x \in Dentries \ {d} : dent'[x] = dent[x]
      BY Zenon, <1>0, <3>1 DEF Dentry
    <3>3. dent[d].ln = cur[t].n
      BY Zenon, <2>1, <2>s, <3>1 DEF StageOK, IgetPcs
    <3>4. target[cur[t].n] = dent[d].l
      BY Zenon, <1>a, <2>1, <3>1 DEF CallTruth, IgetPcs
    <3>5. Accurate(d)'
      BY Zenon, <2>2, <3>1, <3>2, <3>3, <3>4 DEF Accurate
    <3>6. ~ Renamed(t)
      BY Zenon, <1>d, <3>1 DEF LatePcs
    <3>7. CallTruth(t)'
      BY Zenon, <2>1, <3>1, <3>2 DEF CallTruth, Renamed, IgetPcs, EarlyPcs, LatePcs, MakeOps
    <3> QED
      BY Zenon, <1>b, <3>1, <3>2, <3>5, <3>6, <3>7
  <2>7. CASE OpMake(t) /\ cur[t].op \in MakeOps
    <3>1. pc[t] = "op_do" /\ pc'[t] = "ig_find" /\ cur' = cur
      BY Zenon, <1>0, <2>7 DEF OpMake, Goto
    <3>2. /\ dent[d].ln = cur[t].n
          /\ \A x \in Dentries \ {d} : dent[x].st = "hashed" => dent[x].n # cur[t].n
      BY Zenon, <2>1, <3>1, EarlyDentry DEF EarlyPcs
    <3>3. PICK l : /\ target' = [target EXCEPT ![cur[t].n] = l]
                   /\ dent' = [dent EXCEPT ![d].l = l]
      BY Zenon, <2>1, <2>7, <3>2 DEF OpMake
    <3>4. /\ target'[cur[t].n] = l
          /\ \A n \in Names \ {cur[t].n} : target'[n] = target[n]
      BY Zenon, <1>0, <2>2, <3>3
    <3>5. /\ dent'[d].l = l /\ dent'[d].st = dent[d].st
          /\ \A x \in Dentries \ {d} : dent'[x] = dent[x]
      BY Zenon, <1>0, <3>3 DEF Dentry
    <3>6. dent[d].st # "hashed"
      BY Zenon, <2>1, <2>7, <2>s, <3>1 DEF StageOK
    <3>7. CallTruth(t)'
      BY Zenon, <2>1, <3>1, <3>4, <3>5 DEF CallTruth, Renamed, EarlyPcs, LatePcs
    <3>8. ~ Renamed(t)
      BY Zenon, <1>d, <3>1 DEF LatePcs
    <3>9. \A x \in Dentries : dent[x].st = "hashed" => dent[x].n \in Names
      BY Zenon DEF OwnInv, DentOK, InUse
    <3> QED
      BY <1>a, <2>2, <3>2, <3>4, <3>5, <3>6, <3>7, <3>8, <3>9, TruthLocal
  <2>8. CASE OpUnlink(t) \/ OpRmdir(t)
    <3>1. /\ pc[t] = "op_do" /\ pc'[t] = "op_out" /\ cur' = cur
          /\ cur[t].op \in RemoveOps
      BY Zenon, <1>0, <2>8 DEF OpUnlink, OpRmdir, Goto, RemoveOps
    <3>2. /\ dent[d].ln = cur[t].n
          /\ \A x \in Dentries \ {d} : dent[x].st = "hashed" => dent[x].n # cur[t].n
      BY Zenon, <2>1, <3>1, EarlyDentry DEF EarlyPcs
    <3>3. /\ target' = [target EXCEPT ![cur[t].n] = NULL]
          /\ dent' = [dent EXCEPT ![d].st = "unhashed"]
      BY Zenon, <2>1, <2>8, <3>2 DEF OpUnlink, OpRmdir
    <3>4. \A n \in Names \ {cur[t].n} : target'[n] = target[n]
      BY Zenon, <1>0, <2>2, <3>3
    <3>5. /\ dent'[d].st = "unhashed"
          /\ \A x \in Dentries \ {d} : dent'[x] = dent[x]
      BY Zenon, <1>0, <3>3 DEF Dentry
    <3>6. CallTruth(t)'
      BY Zenon, <3>1 DEF CallTruth, Renamed, IgetPcs, EarlyPcs, LatePcs, RemoveOps
    <3>7. ~ Renamed(t)
      BY Zenon, <1>d, <3>1 DEF LatePcs
    <3>8. \A x \in Dentries : dent[x].st = "hashed" => dent[x].n \in Names
      BY DEF OwnInv, DentOK, InUse
    <3> QED
      BY <1>a, <2>2, <3>2, <3>4, <3>5, <3>6, <3>7, <3>8, TruthLocal
  <2>9. CASE OpRename(t)
    <3>1. /\ pc[t] = "op_do" /\ pc'[t] = "op_out" /\ cur' = cur
          /\ cur[t].op = "rename"
      BY Zenon, <1>0, <2>9 DEF OpRename, Goto
    <3>2. PICK e \in Dentries \ {d} :
            /\ e = cur[t].e /\ dent[e].st = "hashed"
            /\ dent[e].n \in Names /\ dirLock[DirOf[dent[e].n]] = t
      BY Zenon, <2>0, <2>1, <3>1, OwnDentry
    <3>3. /\ dent[d].ln = cur[t].n /\ dent[d].st \in {"fresh", "hashed"}
          /\ \A x \in Dentries \ {d} : dent[x].st = "hashed" => dent[x].n # cur[t].n
          /\ dent[e].ln = dent[e].n /\ dent[e].n # cur[t].n
      BY Zenon, <2>1, <3>1, <3>2, EarlyDentry DEF EarlyPcs
    <3>4. dent[d].l # dent[e].l
      <4>1. dent[e].l \in LowerInodes /\ dent[e].ino \in Slots
            /\ inode[dent[e].ino].l = dent[e].l
        BY Zenon, <3>2 DEF OwnInv, DentOK, InUse
      <4>2. CASE dent[d].st = "fresh"
        BY Zenon, <2>1, <2>s, <3>1, <4>1, <4>2, InodeAssumption DEF StageOK
      <4>3. CASE dent[d].st = "hashed"
        <5>1. dent[d].ino \in Slots /\ inode[dent[d].ino].l = dent[d].l
          BY Zenon, <4>3 DEF OwnInv, DentOK, InUse
        <5>2. dent[d].ino # dent[e].ino
          BY Zenon, <2>1, <3>1, <3>2 DEF NameInv, NameOK, OpPcs
        <5> QED
          BY Zenon, <4>1, <5>1, <5>2, InodeAssumption DEF UniqueInv
      <4> QED
        BY Zenon, <3>3, <4>2, <4>3
    <3>5. PICK a, b \in Dentries :
            /\ a = cur[t].d /\ b = cur[t].e
            /\ \A x \in Dentries \ {a, b} : dent'[x] = dent[x]
            /\ \A x \in Dentries : dent'[x].l = dent[x].l
            /\ IF dent[a].l = dent[b].l
               THEN dent' = dent /\ target' = target
               ELSE /\ dent'[a].ln = dent[b].ln /\ dent'[b].ln = dent[a].ln
                    /\ target' = [target EXCEPT ![dent[a].ln] = dent[b].l,
                                                ![dent[b].ln] = NULL]
      BY <2>9, RenameEffect
    <3>6. a = d /\ b = e
      BY Zenon, <2>1, <3>2, <3>5
    <3>7. /\ target' = [target EXCEPT ![cur[t].n] = dent[e].l, ![dent[e].n] = NULL]
          /\ dent'[e].ln = cur[t].n /\ dent'[e].l = dent[e].l
          /\ \A x \in Dentries \ {d, e} : dent'[x] = dent[x]
      BY Zenon, <3>3, <3>4, <3>5, <3>6
    <3>8. /\ target'[cur[t].n] = dent[e].l
          /\ \A n \in Names \ {cur[t].n, dent[e].n} : target'[n] = target[n]
      BY Zenon, <1>0, <2>2, <3>2, <3>3, <3>7
    <3>9. CallTruth(t)'
      BY Zenon, <3>1, <3>2, <3>7, <3>8 DEF CallTruth, IgetPcs, EarlyPcs
    <3>10. Renamed(t)' /\ ~ Renamed(t)
      BY Zenon, <3>1 DEF NameInv, NameOK, Renamed, LatePcs
    <3>11. ASSUME NEW x \in Dentries \ {d, e}, dent[x].st = "hashed"
           PROVE  dent[x].n \in Names \ {cur[t].n, dent[e].n}
      <4>1. dent[x].n \in Names
        BY Zenon, <3>11 DEF OwnInv, DentOK, InUse
      <4>2. dent[x].n # dent[e].n
        BY Zenon, <3>2, <3>11 DEF NameInv
      <4> QED
        BY Zenon, <3>3, <3>11, <4>1, <4>2
    <3>12. \A n \in Names : target'[n] = target[n] \/ dirLock[DirOf[n]] = t
      BY Zenon, <2>2, <3>2, <3>8
    <3>13. ASSUME NEW x \in Dentries, dent'[x].st = "hashed",
                  ~ (Renamed(t)' /\ x \in {cur'[t].d, cur'[t].e})
           PROVE  /\ dent[x].st = "hashed" /\ dent'[x] = dent[x]
                  /\ target'[dent[x].n] = target[dent[x].n]
                  /\ ~ (Renamed(t) /\ x \in {cur[t].d, cur[t].e})
      <4>1. x \notin {d, e}
        BY Zenon, <2>1, <3>1, <3>2, <3>10, <3>13
      <4>2. dent'[x] = dent[x] /\ dent[x].st = "hashed"
        BY Zenon, <3>7, <3>13, <4>1
      <4> QED
        BY Zenon, <3>8, <3>10, <3>11, <4>1, <4>2
    <3> QED
      BY Zenon, <1>a, <3>9, <3>12, <3>13, TruthLocal
  <2>10. CASE OpReturn(t)
    <3>1. PICK r \in Dentries :
            /\ r = cur[t].d
            /\ \A x \in Dentries \ {r} :
                 /\ dent'[x].l = dent[x].l /\ dent'[x].ln = dent[x].ln
                 /\ IF cur[t].op = "rename" /\ cur[t].ok /\ x = cur[t].e
                    THEN dent'[x].n = cur[t].n ELSE dent'[x] = dent[x]
            /\ IF dent[r].ino = NULL
               THEN dent[r].st = "fresh" /\ dent'[r] = FreeDentry
               ELSE /\ dent[r].st \in InUse
                    /\ IF cur[t].op = "rename" /\ cur[t].ok
                       THEN dent'[r].st = "unhashed" ELSE dent'[r] = dent[r]
      BY <2>10, ReturnEffect
    <3>2. /\ pc'[t] = "idle" /\ pc[t] = "op_return" /\ target' = target
      BY Zenon, <1>0, <2>10 DEF OpReturn, Finish
    <3>3. CallTruth(t)' /\ ~ Renamed(t)'
      BY Zenon, <1>c, <3>2 DEF Renamed, IgetPcs, EarlyPcs, LatePcs
    <3>4. CASE ~ (cur[t].op = "rename" /\ cur[t].ok)
      <4>1. \A x \in Dentries : dent'[x].st = "hashed" =>
              dent'[x] = dent[x] /\ dent[x].st = "hashed"
        BY <3>1, <3>4 DEF FreeDentry
      <4>2. ~ Renamed(t)
        BY Zenon, <3>4 DEF Renamed
      <4> QED
        BY Zenon, <1>b, <3>2, <3>3, <4>1, <4>2
    <3>5. CASE cur[t].op = "rename" /\ cur[t].ok
      <4>1. PICK e \in Dentries \ {d} : e = cur[t].e
        BY Zenon, <2>0, <2>1, <3>5, OwnDentry
      <4>2. Renamed(t)
        BY Zenon, <3>2, <3>5 DEF Renamed, LatePcs
      <4>3. dent'[d].st # "hashed"
        BY <2>1, <3>1, <3>5 DEF FreeDentry
      <4>4. Accurate(e)'
        <5>1. dent[e].ln = cur[t].n /\ target[cur[t].n] = dent[e].l
          BY Zenon, <1>a, <4>1, <4>2 DEF CallTruth
        <5>2. /\ dent'[e].l = dent[e].l /\ dent'[e].ln = dent[e].ln
              /\ dent'[e].n = cur[t].n
          BY Zenon, <2>1, <3>1, <3>5, <4>1
        <5> QED
          BY Zenon, <3>2, <5>1, <5>2 DEF Accurate
      <4>5. \A x \in Dentries \ {d, e} : dent'[x] = dent[x]
        BY Zenon, <2>1, <3>1, <3>5, <4>1
      <4> QED
        BY Zenon, <1>a, <2>1, <3>2, <3>3, <4>1, <4>3, <4>4, <4>5, TruthLocal
    <3> QED
      BY Zenon, <3>4, <3>5
  <2> QED
    BY Zenon, <1>3, <2>3, <2>4, <2>5, <2>6, <2>7, <2>8, <2>9, <2>10 DEF Touches, LookupNegative, LookPcs
<1> QED
  BY Zenon, <1>1, <1>2, <1>3

\* Every step keeps what the dcache says true.
LEMMA TruthNext ==
  ASSUME OwnInv, NameInv, UniqueInv, TruthInv, [Next]_vars
  PROVE  TruthInv'
<1> SUFFICES ASSUME doubled' = {} PROVE TruthInv'
  BY Zenon DEF TruthInv
<1>0. dent \in [Dentries -> Dentry]
  BY Zenon DEF OwnInv, CoreType
<1>1. doubled = {}
  <2>1. CASE \E t \in Tasks : IgetInit(t)
    BY Zenon, <2>1 DEF IgetInit
  <2>2. CASE \A t \in Tasks : ~ IgetInit(t)
    BY Zenon, <2>2, LowerInodeStep
  <2> QED
    BY Zenon, <2>1, <2>2
<1>2. CASE \E t \in Tasks : StartCall(t) \/ Continue(t)
  BY Zenon, <1>1, <1>2, TruthStep
<1>3. ASSUME UNCHANGED <<pc, cur, target>>,
             \A x \in Dentries : dent'[x].st = "hashed" => dent'[x] = dent[x],
             \A u \in Tasks : pc[u] \in DirPcs =>
               /\ dent'[cur[u].d] = dent[cur[u].d]
               /\ cur[u].op = "rename" => dent'[cur[u].e] = dent[cur[u].e]
      PROVE  TruthInv'
  <2>1. \A u \in Tasks : Renamed(u)' <=> Renamed(u)
    BY <1>3 DEF Renamed
  <2>2. ASSUME NEW u \in Tasks PROVE CallTruth(u)'
    <3>1. CallTruth(u)
      BY Zenon, <1>1 DEF TruthInv
    <3>2. /\ pc[u] \in IgetPcs \cup EarlyPcs \cup LatePcs => pc[u] \in DirPcs
          /\ Renamed(u) => pc[u] \in LatePcs /\ cur[u].op = "rename"
      BY Zenon DEF DirPcs, OpPcs, EarlyPcs, LatePcs, Renamed
    <3> QED
      BY Zenon, <1>3, <2>1, <3>1, <3>2 DEF CallTruth
  <2>3. ASSUME NEW x \in Dentries, dent'[x].st = "hashed", ~ Moving(x)'
        PROVE  Accurate(x)'
    <3>1. ~ Moving(x)
      BY Zenon, <1>3, <2>1, <2>3 DEF Moving
    <3>2. dent'[x] = dent[x] /\ Accurate(x)
      BY Zenon, <1>1, <1>3, <2>3, <3>1 DEF TruthInv
    <3> QED
      BY Zenon, <1>3, <3>2 DEF Accurate
  <2> QED
    BY Zenon, <2>2, <2>3 DEF TruthInv
<1>4. ASSUME NEW d \in Dentries, DentryKill(d) \/ DentryRelease(d)
      PROVE  TruthInv'
  <2>1. UNCHANGED <<pc, cur, target>>
    BY Zenon, <1>4 DEF DentryKill, DentryRelease
  <2>2. /\ \A x \in Dentries \ {d} : dent'[x] = dent[x]
        /\ dent'[d].st \in {"dying", "free"}
        /\ dent[d].st = "dying" \/ ~ Pinned(d)
    BY Zenon, <1>0, <1>4, DentryGoes
  <2>3. ASSUME NEW u \in Tasks, pc[u] \in DirPcs
        PROVE  /\ dent'[cur[u].d] = dent[cur[u].d]
               /\ cur[u].op = "rename" => dent'[cur[u].e] = dent[cur[u].e]
    BY <2>2, <2>3, OwnDentry DEF Pinned, InUse
  <2> QED
    BY Zenon, <1>3, <2>1, <2>2, <2>3
<1>5. CASE UNCHANGED <<pc, cur, dent, target>>
  BY Zenon, <1>3, <1>5
<1> QED
  BY Zenon, <1>2, <1>4, <1>5 DEF Next, vars, FileRelease, EvictInode, DestroyInode

NamesInv == UniqueInv /\ NameInv /\ TruthInv

\* Nothing is in the dcache when the file system is mounted, and every step
\* keeps the three.
LEMMA NamesHold == Spec => []NamesInv
<1>1. Init => NamesInv
  <2> SUFFICES ASSUME Init PROVE NamesInv
    BY Zenon
  <2>1. \A d \in Dentries : dent[d].st # "hashed"
    BY Zenon DEF Init, FreeDentry
  <2>2. \A t \in Tasks : cur[t].ok /\ pc[t] = "idle"
    BY Zenon DEF Init, NoCall
  <2>3. UniqueInv
    BY Zenon DEF Init, UniqueInv, FreeInode
  <2>4. NameInv
    BY Zenon, <2>1, <2>2 DEF NameInv, NameOK, DirPcs, LookPcs, IgetPcs, OpPcs
  <2>5. TruthInv
    BY Zenon, <2>1, <2>2 DEF TruthInv, CallTruth, Renamed, IgetPcs, EarlyPcs, LatePcs
  <2> QED
    BY Zenon, <2>3, <2>4, <2>5 DEF NamesInv
<1>2. OwnInv /\ NamesInv /\ [Next]_vars => NamesInv'
  BY Zenon, UniqueNext, NameNext, TruthNext DEF NamesInv
<1> QED
  BY <1>1, <1>2, Ownership, PTL DEF Spec

\* A dentry that can be found by its name shows the lower file of that name:
\* wrapfs_lookup, the calls that make and remove names, rename and d_move,
\* their failures and reclaim never leave a hashed dentry with a stale lower
\* path or inode, as long as wrapfs_iget has kept to one inode per lower inode.
THEOREM DcacheIsTruthful == Spec => []DcacheTruthful
<1>1. ASSUME OwnInv, NamesInv PROVE DcacheTruthful
  <2>1. SUFFICES ASSUME doubled = {}, NEW d \in Dentries, dent[d].st = "hashed",
                        \A t \in Tasks : cur[t].op = "rename" =>
                          d \notin {cur[t].d, cur[t].e}
                 PROVE  /\ dent[d].path /\ dent[d].ln = dent[d].n
                        /\ target[dent[d].n] = dent[d].l /\ dent[d].l # NULL
                        /\ inode[dent[d].ino] = [st |-> "live", l |-> dent[d].l]
    BY Zenon DEF DcacheTruthful
  <2>2. ~ Moving(d)
    BY Zenon, <2>1 DEF Moving, Renamed
  <2>3. Accurate(d)
    BY Zenon, <1>1, <2>1, <2>2 DEF NamesInv, TruthInv
  <2>4. /\ dent[d].path /\ dent[d].l \in LowerInodes /\ dent[d].ino \in Slots
        /\ inode[dent[d].ino].st = "live" /\ inode[dent[d].ino].l = dent[d].l
    BY Zenon, <1>1, <2>1 DEF OwnInv, DentOK, InUse
  <2>5. inode[dent[d].ino] = [st |-> "live", l |-> dent[d].l]
    BY Zenon, <1>1, <2>4 DEF OwnInv, CoreType, Inode
  <2> QED
    BY Zenon, <2>3, <2>4, <2>5, InodeAssumption DEF Accurate
<1> QED
  BY <1>1, NamesHold, Ownership, PTL

-----------------------------------------------------------------------------
(***************************************************************************)
(* Link counts.                                                            *)
(***************************************************************************)

\* A lower directory has one name; link and unlink are for files, rmdir is for
\* directories.
KindOK(t) ==
  LET c == cur[t] IN
  pc[t] \in DirPcs =>
    /\ c.op = "link" => dent[c.e].l \notin DirInodes
    /\ c.op = "unlink" => dent[c.d].l \notin DirInodes
    /\ c.op = "rmdir" => dent[c.d].l \in DirInodes
    /\ c.op \in RemoveOps => dent[c.d].st \in InUse
KindInv ==
  /\ \A m, n \in Names : target[m] = target[n] /\ m # n => target[m] \notin DirInodes
  /\ \A t \in Tasks : KindOK(t)

\* A link or mkdir has made the name and not yet copied the count.
Linking(t, s) ==
  pc[t] \in IgetPcs /\ cur[t].op = "link" /\ dent[cur[t].e].ino = s
Making(t, i) ==
  pc[t] \in IgetPcs /\ cur[t].op = "mkdir" /\ DirOf[cur[t].n] = i

Counted(s) ==
  \/ nlink[s] = Links(target, inode[s].l)
  \/ \E t \in Tasks : Linking(t, s)
DirCounted(i) ==
  \/ dirLinks[i] = DirLinks(target, i)
  \/ \E t \in Tasks : Making(t, i)

CopyInv ==
  doubled = {} =>
    /\ \A s \in Slots \ behind : inode[s].st = "live" => Counted(s)
    /\ \A i \in Dirs \ behind : DirCounted(i)

\* A dentry in use keeps its lower inode and its inode.
LEMMA InUseKeeps ==
  ASSUME OwnInv, [Next]_vars, NEW x \in Dentries, dent[x].st \in InUse
  PROVE  dent'[x].l = dent[x].l /\ dent'[x].ino = dent[x].ino
<1>0. dent \in [Dentries -> Dentry]
  BY DEF OwnInv, CoreType
<1>1. ASSUME NEW t \in Tasks, StartCall(t) \/ Continue(t)
      PROVE  dent'[x].l = dent[x].l /\ dent'[x].ino = dent[x].ino
  <2>1. CASE LookupBegin(t)
    <3>1. PICK op, n, d, e : LookupFor(t, op, n, d, e) /\ d \in Dentries
      BY Zenon, <2>1 DEF LookupBegin
    <3>2. /\ dent' = [dent EXCEPT ![d] = [FreeDentry EXCEPT !.st = "fresh", !.n = n]]
          /\ dent[d].st = "free"
      BY Zenon, <3>1 DEF LookupFor
    <3>3. dent'[x] = dent[x]
      BY Zenon, <1>0, <3>2 DEF InUse
    <3> QED
      BY Zenon, <3>3
  <2>2. CASE OpUnlink(t) \/ OpRmdir(t)
    <3>1. dent' = [dent EXCEPT ![cur[t].d].st = "unhashed"]
      BY Zenon, <2>2 DEF OpUnlink, OpRmdir
    <3> QED
      BY Zenon, <1>0, <3>1 DEF Dentry
  <2>3. CASE OpRename(t)
    BY Zenon, <2>3, RenameEffect
  <2>4. CASE OpReturn(t)
    <3>1. PICK d \in Dentries :
            /\ \A y \in Dentries \ {d} :
                 dent'[y].l = dent[y].l /\ dent'[y].ino = dent[y].ino
            /\ IF dent[d].ino = NULL
               THEN dent[d].st = "fresh"
               ELSE dent'[d].l = dent[d].l /\ dent'[d].ino = dent[d].ino
      BY <2>4, ReturnEffect
    <3> QED
      BY Zenon, <3>1 DEF InUse
  <2>5. CASE \/ LookupPositive(t) \/ LookupNegative(t) \/ Interpose(t)
             \/ LookupFails(t) /\ pc[t] \in LookPcs \cup IgetPcs
             \/ OpMake(t) /\ cur[t].op \in MakeOps
    <3>1. \/ pc[t] \in LookPcs \cup IgetPcs
          \/ pc[t] = "op_do" /\ cur[t].op \in MakeOps
      BY Zenon, <2>5 DEF LookupPositive, LookupNegative, Interpose, OpMake, Goto,
         LookPcs, IgetPcs
    <3>2. dent[cur[t].d].st = "fresh"
      BY Zenon, <3>1 DEF OwnInv, StageOK
    <3>3. \A y \in Dentries \ {cur[t].d} : dent'[y] = dent[y]
      BY Zenon, <1>0, <2>5 DEF LookupPositive, LookupNegative, LookupFails, Release,
         Interpose, OpMake
    <3> QED
      BY Zenon, <3>2, <3>3 DEF InUse
  <2> QED
    BY Zenon, <1>1, <2>1, <2>2, <2>3, <2>4, <2>5, TouchStep DEF Touches
<1>2. ASSUME NEW d \in Dentries, DentryKill(d) \/ DentryRelease(d)
      PROVE  dent'[x].l = dent[x].l /\ dent'[x].ino = dent[x].ino
  <2>1. \/ dent' = [dent EXCEPT ![d].st = "dying"]
        \/ dent' = [dent EXCEPT ![d] = FreeDentry] /\ dent[d].st = "dying"
    BY Zenon, <1>2 DEF DentryKill, DentryRelease, Release
  <2>2. CASE dent' = [dent EXCEPT ![d].st = "dying"]
    BY Zenon, <1>0, <2>2 DEF Dentry
  <2>3. CASE dent' = [dent EXCEPT ![d] = FreeDentry] /\ dent[d].st = "dying"
    BY Zenon, <1>0, <2>3 DEF InUse
  <2> QED
    BY Zenon, <2>1, <2>2, <2>3
<1>3. CASE UNCHANGED dent
  BY Zenon, <1>3
<1> QED
  BY Zenon, <1>1, <1>2, <1>3 DEF Next, vars, FileRelease, EvictInode, DestroyInode

\* The lower calls keep one name to a directory.
LEMMA OneNameNext ==
  ASSUME OwnInv, KindInv, [Next]_vars
  PROVE  \A m, n \in Names : target'[m] = target'[n] /\ m # n =>
                               target'[m] \notin DirInodes
<1>0. /\ target \in [Names -> LowerInodes \cup {NULL}]
      /\ \A m, n \in Names : target[m] = target[n] /\ m # n =>
                               target[m] \notin DirInodes
      /\ NULL \notin DirInodes
  BY Zenon, InodeAssumption DEF OwnInv, CoreType, KindInv
<1>1. ASSUME NEW t \in Tasks, StartCall(t) \/ Continue(t)
      PROVE  \A m, n \in Names : target'[m] = target'[n] /\ m # n =>
                                   target'[m] \notin DirInodes
  <2>1. CASE OpMake(t) /\ cur[t].op \in MakeOps
    <3>1. PICK l \in NewTargets(cur[t]) : target' = [target EXCEPT ![dent[cur[t].d].ln] = l]
      BY Zenon, <2>1 DEF OpMake
    <3>2. (\A n \in Names : target[n] # l) \/ l \notin DirInodes
      <4>1. pc[t] \in DirPcs
        BY Zenon, <2>1 DEF OpMake, Goto, DirPcs, OpPcs
      <4>2. CASE cur[t].op = "link"
        <5>1. l = dent[cur[t].e].l
          BY Zenon, <3>1, <4>2 DEF NewTargets
        <5> QED
          BY Zenon, <4>1, <4>2, <5>1 DEF KindInv, KindOK
      <4>3. CASE cur[t].op # "link"
        BY Zenon, <3>1, <4>3 DEF NewTargets
      <4> QED
        BY Zenon, <4>2, <4>3
    <3>3. \A n \in Names : target'[n] = target[n] \/ target'[n] = l
      BY Zenon, <1>0, <3>1
    <3>4. \A m, n \in Names : m # n => target'[m] = target[m] \/ target'[n] = target[n]
      BY Zenon, <1>0, <3>1
    <3> QED
      BY Zenon, <1>0, <3>2, <3>3, <3>4
  <2>2. CASE OpUnlink(t) \/ OpRmdir(t)
    <3>1. target' = [target EXCEPT ![dent[cur[t].d].ln] = NULL]
      BY Zenon, <2>2 DEF OpUnlink, OpRmdir
    <3>2. \A n \in Names : target'[n] = target[n] \/ target'[n] = NULL
      BY Zenon, <1>0, <3>1
    <3> QED
      BY Zenon, <1>0, <3>2
  <2>3. CASE OpRename(t)
    <3>1. PICK d, e \in Dentries :
            /\ d = cur[t].d /\ e = cur[t].e
            /\ dent[d].ln \in Names /\ dent[e].ln \in Names
            /\ IF dent[d].l = dent[e].l
               THEN dent' = dent /\ target' = target
               ELSE target' = [target EXCEPT ![dent[d].ln] = dent[e].l,
                                             ![dent[e].ln] = NULL]
      BY <2>3, RenameEffect
    <3>2. target[dent[d].ln] = dent[d].l /\ target[dent[e].ln] = dent[e].l
      BY Zenon, <2>3, <3>1 DEF OpRename, LowerGone
    <3>3. CASE dent[d].l = dent[e].l
      BY Zenon, <1>0, <3>1, <3>3
    <3>4. CASE dent[d].l # dent[e].l
      <4>1. PICK a, b \in Names : a = dent[d].ln /\ b = dent[e].ln
        BY Zenon, <3>1
      <4>2. /\ a # b /\ target'[a] = target[b] /\ target'[b] = NULL
            /\ \A n \in Names \ {a, b} : target'[n] = target[n]
        BY Zenon, <1>0, <3>1, <3>2, <3>4, <4>1
      <4> QED
        BY Zenon, <1>0, <4>2
    <3> QED
      BY Zenon, <3>3, <3>4
  <2>4. CASE UNCHANGED target
    BY Zenon, <1>0, <2>4
  <2> QED
    BY Zenon, <1>1, <2>1, <2>2, <2>3, <2>4, TouchStep
    DEF Touches, LookupBegin, LookupFor, LookupPositive, LookupNegative, LookupFails,
        Interpose, OpReturn
<1>2. CASE UNCHANGED target
  BY Zenon, <1>0, <1>2
<1> QED
  BY Zenon, <1>1, <1>2 DEF Next, vars, FileRelease, DentryKill, DentryRelease, EvictInode,
     DestroyInode

\* A dentry in use stays so while a call has it.
LEMMA InUseStays ==
  ASSUME OwnInv, [Next]_vars, NEW x \in Dentries, dent[x].st \in InUse, Pinned(x)
  PROVE  dent'[x].st \in InUse
<1>0. dent \in [Dentries -> Dentry]
  BY Zenon DEF OwnInv, CoreType
<1>1. ASSUME NEW t \in Tasks, StartCall(t) \/ Continue(t) PROVE dent'[x].st \in InUse
  <2>1. Local(t)
    BY Zenon, <1>1, LocalStep
  <2> QED
    BY Zenon, <2>1 DEF Local
<1>2. ASSUME NEW d \in Dentries, DentryKill(d) \/ DentryRelease(d)
      PROVE  dent'[x].st \in InUse
  <2>1. d # x
    BY Zenon, <1>2 DEF DentryKill, DentryRelease, InUse
  <2>2. dent'[x] = dent[x]
    BY Zenon, <1>0, <1>2, <2>1 DEF DentryKill, DentryRelease, Release
  <2> QED
    BY Zenon, <2>2
<1>3. CASE UNCHANGED dent
  BY <1>3
<1> QED
  BY Zenon, <1>1, <1>2, <1>3 DEF Next, vars, FileRelease, EvictInode, DestroyInode

\* A call that is where it was keeps the kinds of its files.
LEMMA KindKept ==
  ASSUME OwnInv, KindInv, [Next]_vars, NEW t \in Tasks, pc[t] \in DirPcs,
         cur'[t].d = cur[t].d, cur'[t].op = cur[t].op, cur'[t].e = cur[t].e
  PROVE  KindOK(t)'
<1>1. CallOK(t) /\ KindOK(t)
  BY Zenon DEF OwnInv, KindInv
<1>2. ASSUME cur[t].op = "link" PROVE dent'[cur[t].e].l \notin DirInodes
  <2>1. cur[t].e \in Dentries /\ dent[cur[t].e].st \in InUse
    BY Zenon, <1>1, <1>2 DEF CallOK
  <2>2. dent'[cur[t].e].l = dent[cur[t].e].l
    BY Zenon, <2>1, InUseKeeps
  <2> QED
    BY Zenon, <1>1, <1>2, <2>2 DEF KindOK
<1>3. ASSUME cur[t].op \in RemoveOps
      PROVE  dent'[cur[t].d].l = dent[cur[t].d].l /\ dent'[cur[t].d].st \in InUse
  <2>1. /\ cur[t].d \in Dentries /\ dent[cur[t].d].st \in InUse
        /\ Pinned(cur[t].d)
    BY Zenon, <1>1, <1>3 DEF CallOK, KindOK, Pinned
  <2> QED
    BY Zenon, <2>1, InUseKeeps, InUseStays
<1> QED
  BY Zenon, <1>1, <1>2, <1>3 DEF KindOK, RemoveOps

\* One step keeps files and directories apart.
LEMMA KindNext ==
  ASSUME OwnInv, KindInv, [Next]_vars
  PROVE  KindInv'
<1>0. dent \in [Dentries -> Dentry] /\ pc \in [Tasks -> PCs] /\ cur \in [Tasks -> Call]
  BY DEF OwnInv, CoreType
<1>1. ASSUME NEW t \in Tasks, StartCall(t) \/ Continue(t), NEW u \in Tasks
      PROVE  KindOK(u)'
  <2>1. CASE u # t
    <3>1. pc'[u] = pc[u] /\ cur'[u] = cur[u]
      BY Zenon, <1>1, <2>1, LocalStep DEF Local
    <3>2. CASE pc[u] \in DirPcs
      BY Zenon, <3>1, <3>2, KindKept
    <3>3. CASE pc[u] \notin DirPcs
      BY Zenon, <3>1, <3>3 DEF KindOK, DirPcs
    <3> QED
      BY Zenon, <3>2, <3>3
  <2>2. CASE u = t /\ Going(t)
    <3>1. CASE cur'[t].op = "lookup"
      BY Zenon, <2>2, <3>1 DEF KindOK, RemoveOps
    <3>2. CASE cur'[t].op # "lookup"
      BY Zenon, <2>2, <3>2, KindKept DEF Going
    <3> QED
      BY Zenon, <3>1, <3>2
  <2>3. CASE u = t /\ pc'[t] \in {"idle", "open_lower", "open_check"}
    BY Zenon, <2>3 DEF KindOK, DirPcs, LookPcs, IgetPcs, OpPcs
  <2>4. CASE u = t /\ LookupBegin(t)
    <3>1. PICK op, n, d, e :
            /\ LookupFor(t, op, n, d, e) /\ d \in Dentries
            /\ op \in MakeOps \cup {"lookup", "rename"}
      BY Zenon, <2>4 DEF LookupBegin
    <3>2. cur'[t].op = op /\ cur'[t].e = e
      BY Zenon, <1>0, <3>1 DEF LookupFor, Begin, Goto, NoCall
    <3>3. op \notin RemoveOps
      BY Zenon, <3>1 DEF MakeOps, RemoveOps
    <3>4. ASSUME op = "link" PROVE dent'[e].l \notin DirInodes
      <4>1. /\ dent[e].st = "hashed" /\ dent[d].st = "free" /\ dent[e].l \notin DirInodes
            /\ dent' = [dent EXCEPT ![d] = [FreeDentry EXCEPT !.st = "fresh", !.n = n]]
        BY Zenon, <3>1, <3>4 DEF LookupFor
      <4>2. dent'[e] = dent[e]
        BY <1>0, <4>1
      <4> QED
        BY Zenon, <4>1, <4>2
    <3> QED
      BY Zenon, <2>4, <3>2, <3>3, <3>4 DEF KindOK, RemoveOps
  <2>5. CASE u = t /\ RemoveBegin(t)
    <3>1. PICK d \in Dentries :
           /\ dent[d].st = "hashed" /\ UNCHANGED dent
           /\ pc'[t] = "op_lock" /\ cur'[t].d = d /\ cur'[t].ok
           /\ cur'[t].op \in RemoveOps
           /\ cur'[t].op = "rmdir" <=> dent[d].l \in DirInodes
      BY Zenon, <2>5, RemoveBegins
    <3> QED
      BY Zenon, <2>5, <3>1 DEF KindOK, RemoveOps, InUse
  <2>6. CASE u = t /\ RenameBegin(t)
    BY Zenon, <2>6, RenameBegins DEF KindOK, RemoveOps
  <2>7. CASE u = t /\ OpenBegin(t)
    <3>1. pc'[t] = "open_check"
      BY Zenon, <1>0, <2>7 DEF OpenBegin, Begin, Goto
    <3> QED
      BY Zenon, <2>3, <2>7, <3>1
  <2> QED
    BY Zenon, <1>1, <2>1, <2>2, <2>3, <2>4, <2>5, <2>6, <2>7, CallSteps DEF StartCall
<1>2. ASSUME UNCHANGED <<pc, cur>>, NEW u \in Tasks PROVE KindOK(u)'
  <2>1. CASE pc[u] \in DirPcs
    BY Zenon, <1>2, <2>1, KindKept
  <2>2. CASE pc[u] \notin DirPcs
    BY Zenon, <1>2, <2>2 DEF KindOK, DirPcs
  <2> QED
    BY Zenon, <2>1, <2>2
<1>3. \A u \in Tasks : KindOK(u)'
  BY Zenon, <1>1, <1>2 DEF Next, vars, FileRelease, DentryKill, DentryRelease, EvictInode,
     DestroyInode
<1> QED
  BY Zenon, <1>3, OneNameNext DEF KindInv

\* A link count depends on the names of its inode only.
LEMMA LinksSame ==
  ASSUME NEW f, NEW g, NEW l, \A n \in Names : f[n] = l <=> g[n] = l
  PROVE  Links(f, l) = Links(g, l)
<1>1. {n \in Names : f[n] = l} = {n \in Names : g[n] = l}
  BY Zenon
<1> QED
  BY <1>1 DEF Links

\* The link count of a directory depends on the directories named in it alone.
LEMMA DirLinksSame ==
  ASSUME NEW f, NEW g, NEW i,
         \A n \in Names : DirOf[n] = i => (f[n] \in DirInodes <=> g[n] \in DirInodes)
  PROVE  DirLinks(f, i) = DirLinks(g, i)
<1>1. {n \in Names : DirOf[n] = i /\ f[n] \in DirInodes}
        = {n \in Names : DirOf[n] = i /\ g[n] \in DirInodes}
  BY Zenon
<1> QED
  BY Zenon, <1>1 DEF DirLinks

\* An inode that gets one name for another has as many.
LEMMA LinksTraded ==
  ASSUME NEW f, NEW g, NEW l, NEW a \in Names, NEW b \in Names, a # b,
         f[a] # l, f[b] = l, g[a] = l, g[b] # l,
         \A n \in Names \ {a, b} : f[n] = g[n]
  PROVE  Links(f, l) = Links(g, l)
<1>1. PICK F, G : F = {n \in Names : f[n] = l} /\ G = {n \in Names : g[n] = l}
  BY Zenon
<1>2. IsFiniteSet(F) /\ IsFiniteSet(G)
  BY Zenon, <1>1, FS_Subset, InodeAssumption
<1>3. F \ {b} = G \ {a} /\ b \in F /\ a \in G
  BY Zenon, <1>1
<1>4. /\ Cardinality(F \ {b}) = Cardinality(F) - 1 /\ Cardinality(F) \in Nat
      /\ Cardinality(G \ {a}) = Cardinality(G) - 1 /\ Cardinality(G) \in Nat
  BY Zenon, <1>2, <1>3, FS_RemoveElement, FS_CardinalityType
<1>5. \A x, y \in Nat : x - 1 = y - 1 => x = y
  OBVIOUS
<1>6. Cardinality(F) = Cardinality(G)
  BY Zenon, <1>3, <1>4, <1>5
<1> QED
  BY Zenon, <1>1, <1>6 DEF Links

\* The steps of wrapfs_iget, but for its last, stay in it.
LEMMA IgetStays ==
  ASSUME OwnInv, NEW t \in Tasks, StartCall(t) \/ Continue(t), pc[t] \in IgetPcs,
         ~ Interpose(t), ~ InterposeFails(t)
  PROVE  pc'[t] \in IgetPcs /\ Going(t)
<1>0. pc \in [Tasks -> PCs]
  BY DEF OwnInv, CoreType
<1>1. IgetFound(t) \/ IgetNew(t) \/ IgetNoMemory(t) \/ IgetInit(t)
  <2>1. ~ StartCall(t)
    BY Zenon, CallStarts DEF IgetPcs
  <2>2. ~ (LookupInfo(t) \/ LookupPositive(t) \/ LookupNegative(t) \/ LookupError(t))
    BY Zenon DEF LookupInfo, LookupPositive, LookupNegative, LookupError, Goto, IgetPcs
  <2>3. ~ (\/ RenameRefused(t) \/ OpLock(t) \/ OpWantWrite(t) \/ OpWantNewWrite(t)
           \/ OpMake(t) \/ OpUnlink(t) \/ OpUnlinkBug(t) \/ OpRmdir(t) \/ OpRename(t)
           \/ OpFails(t) \/ OpDropWrite(t) \/ OpUnlock(t) \/ OpReturn(t)
           \/ OpenCheck(t) \/ OpenLower(t))
    BY Zenon DEF RenameRefused, OpLock, OpWantWrite, OpWantNewWrite, OpMake, OpUnlink,
       OpUnlinkBug, OpRmdir, OpRename, OpFails, OpDropWrite, OpUnlock, OpReturn,
       OpenCheck, OpenLower, Goto, IgetPcs
  <2> QED
    BY Zenon, <2>1, <2>2, <2>3 DEF Continue, OpCreate, OpMknod, OpSymlink, OpMkdir, OpLink
<1>2. pc'[t] \in IgetPcs
  BY Zenon, <1>0, <1>1 DEF IgetFound, IgetNew, IgetNoMemory, IgetInit, Goto, IgetPcs
<1>3. ~ StartCall(t)
  BY CallStarts DEF IgetPcs
<1> QED
  BY Zenon, <1>2, <1>3, CallSteps DEF IgetPcs

\* A call that has still to copy a count has so until it does or gives up.
LEMMA CopiersStay ==
  ASSUME OwnInv, [Next]_vars, NEW u \in Tasks,
         \/ pc'[u] = pc[u] /\ cur'[u] = cur[u]
         \/ pc'[u] \in IgetPcs /\ Going(u)
  PROVE  /\ \A s : Linking(u, s) => Linking(u, s)'
         /\ \A i : Making(u, i) => Making(u, i)'
<1>1. ASSUME pc[u] \in IgetPcs
      PROVE  /\ pc'[u] \in IgetPcs /\ cur'[u].op = cur[u].op
             /\ cur'[u].e = cur[u].e /\ cur'[u].n = cur[u].n
  BY Zenon, <1>1 DEF Going, LookPcs, IgetPcs
<1>2. ASSUME NEW s, Linking(u, s) PROVE Linking(u, s)'
  <2>1. cur[u].e \in Dentries /\ dent[cur[u].e].st \in InUse
    BY Zenon, <1>2 DEF Linking, OwnInv, CallOK, DirPcs
  <2>2. dent'[cur[u].e].ino = dent[cur[u].e].ino
    BY Zenon, <2>1, InUseKeeps
  <2> QED
    BY Zenon, <1>1, <1>2, <2>2 DEF Linking
<1>3. ASSUME NEW i, Making(u, i) PROVE Making(u, i)'
  BY Zenon, <1>1, <1>3 DEF Making
<1> QED
  BY Zenon, <1>2, <1>3

\* A link or mkdir remains about to copy until it interposes or fails to.
LEMMA CopierStep ==
  ASSUME OwnInv, NEW t \in Tasks, StartCall(t) \/ Continue(t), NEW u \in Tasks
  PROVE  /\ \A s : Linking(u, s) =>
              \/ Linking(u, s)'
              \/ (Interpose(t) \/ InterposeFails(t)) /\ s \in CountOf(cur[t])
         /\ \A i : Making(u, i) =>
              \/ Making(u, i)'
              \/ (Interpose(t) \/ InterposeFails(t)) /\ i \in CountOf(cur[t])
<1>0. [Next]_vars
  BY DEF Next
<1>1. CASE u # t
  <2>1. pc'[u] = pc[u] /\ cur'[u] = cur[u]
    BY Zenon, <1>1, LocalStep DEF Local
  <2> QED
    BY Zenon, <1>0, <2>1, CopiersStay
<1>2. CASE u = t /\ pc[t] \in IgetPcs /\ ~ Interpose(t) /\ ~ InterposeFails(t)
  <2>1. pc'[u] \in IgetPcs /\ Going(u)
    BY Zenon, <1>2, IgetStays
  <2> QED
    BY Zenon, <1>0, <2>1, CopiersStay
<1>3. CASE u = t /\ (Interpose(t) \/ InterposeFails(t))
  BY Zenon, <1>3 DEF Linking, Making, CountOf
<1>4. CASE u = t /\ pc[t] \notin IgetPcs
  BY Zenon, <1>4 DEF Linking, Making
<1> QED
  BY Zenon, <1>1, <1>2, <1>3, <1>4

\* What a step has to do to keep the counts right.
LEMMA CopyLocal ==
  ASSUME CopyInv, doubled = {},
         \A s \in Slots \ behind' : inode'[s].st = "live" =>
           \/ nlink'[s] = Links(target', inode'[s].l)
           \/ \E u \in Tasks : Linking(u, s)'
           \/ /\ s \notin behind /\ inode'[s] = inode[s] /\ nlink'[s] = nlink[s]
              /\ Links(target', inode[s].l) = Links(target, inode[s].l)
              /\ \A u \in Tasks : Linking(u, s) => Linking(u, s)',
         \A i \in Dirs \ behind' :
           \/ dirLinks'[i] = DirLinks(target', i)
           \/ \E u \in Tasks : Making(u, i)'
           \/ /\ i \notin behind /\ dirLinks'[i] = dirLinks[i]
              /\ DirLinks(target', i) = DirLinks(target, i)
              /\ \A u \in Tasks : Making(u, i) => Making(u, i)'
  PROVE  CopyInv'
<1>1. ASSUME NEW s \in Slots \ behind', inode'[s].st = "live" PROVE Counted(s)'
  <2>1. s \notin behind /\ inode[s].st = "live" => Counted(s)
    BY Zenon DEF CopyInv
  <2> QED
    BY Zenon, <1>1, <2>1 DEF Counted
<1>2. ASSUME NEW i \in Dirs \ behind' PROVE DirCounted(i)'
  <2>1. i \notin behind => DirCounted(i)
    BY Zenon DEF CopyInv
  <2> QED
    BY Zenon, <1>2, <2>1 DEF DirCounted
<1> QED
  BY Zenon, <1>1, <1>2 DEF CopyInv

\* The steps of a task that change a lower name or a copied count.
LEMMA CountSteps ==
  ASSUME NEW t \in Tasks, StartCall(t) \/ Continue(t)
  PROVE  \/ IgetInit(t) \/ Interpose(t) \/ InterposeFails(t)
         \/ OpMake(t) /\ cur[t].op \in MakeOps
         \/ OpUnlink(t) \/ OpRmdir(t) \/ OpRename(t)
         \/ UNCHANGED <<target, nlink, dirLinks, behind>>
<1> USE DEF attrVars
<1>1. CASE StartCall(t)
  BY Zenon, <1>1, CallStarts
<1>2. CASE \/ LookupInfo(t) \/ LookupPositive(t) \/ LookupNegative(t) \/ LookupError(t)
           \/ IgetFound(t) \/ IgetNew(t) \/ IgetNoMemory(t)
  BY Zenon, <1>2 DEF LookupInfo, LookupPositive, LookupNegative, LookupError, LookupFails,
     IgetFound, IgetNew, IgetNoMemory
<1>3. CASE RenameRefused(t) \/ OpLock(t) \/ OpUnlinkBug(t)
  BY Zenon, <1>3 DEF RenameRefused, OpLock, OpUnlinkBug
<1>4. CASE OpWantWrite(t) \/ OpWantNewWrite(t) \/ OpFails(t)
  BY Zenon, <1>4 DEF OpWantWrite, OpWantNewWrite, OpFails
<1>5. CASE OpCreate(t) \/ OpMknod(t) \/ OpSymlink(t) \/ OpMkdir(t) \/ OpLink(t)
  BY Zenon, <1>5 DEF OpCreate, OpMknod, OpSymlink, OpMkdir, OpLink, MakeOps
<1>6. CASE OpDropWrite(t) \/ OpUnlock(t) \/ OpReturn(t) \/ OpenCheck(t) \/ OpenLower(t)
  BY Zenon, <1>6 DEF OpDropWrite, OpUnlock, OpReturn, OpenCheck, OpenLower
<1> QED
  BY Zenon, <1>1, <1>2, <1>3, <1>4, <1>5, <1>6 DEF Continue

\* A step of a task keeps the counts right.
LEMMA CopyStep ==
  ASSUME OwnInv, NamesInv, KindInv, CopyInv, RestType, doubled = {},
         NEW t \in Tasks, StartCall(t) \/ Continue(t)
  PROVE  CopyInv'
<1>0. /\ target \in [Names -> LowerInodes \cup {NULL}]
      /\ dent \in [Dentries -> Dentry] /\ inode \in [Slots -> Inode]
      /\ nlink \in [Slots -> Nat] /\ dirLinks \in [Dirs -> Nat]
      /\ NULL \notin LowerInodes /\ NULL \notin DirInodes
      /\ Slots \cap Dirs = {} /\ NULL \notin Slots
      /\ DirOf \in [Names -> Dirs] /\ DirInodes \subseteq LowerInodes
  BY Zenon, InodeAssumption DEF OwnInv, CoreType, RestType
<1>a. /\ \A s \in Slots : inode[s].st = "live" => inode[s].l \in LowerInodes
      /\ \A r, s \in Slots : inode[r].l # NULL /\ inode[r].l = inode[s].l => r = s
  BY Zenon DEF OwnInv, SlotOK, NamesInv, UniqueInv
<1>b. ASSUME NEW s \in Slots, inode'[s].st = "live", ~ IgetInit(t) PROVE inode'[s] = inode[s]
  <2>1. CASE IgetNew(t)
    <3>1. PICK r \in Slots : inode' = [inode EXCEPT ![r].st = "new"]
      BY Zenon, <2>1 DEF IgetNew
    <3> QED
      BY <1>0, <1>b, <3>1 DEF Inode
  <2>2. CASE IgetFound(t) \/ Interpose(t) \/ Steady(t)
    BY Zenon, <2>2 DEF IgetFound, Interpose, Steady
  <2> QED
    BY Zenon, <1>b, <2>1, <2>2, SteadyStep
<1>c. ASSUME NEW u \in Tasks, ~ Interpose(t), ~ InterposeFails(t)
      PROVE  /\ \A s : Linking(u, s) => Linking(u, s)'
             /\ \A i : Making(u, i) => Making(u, i)'
  BY Zenon, <1>c, CopierStep
<1>d. ASSUME pc[t] = "op_do"
      PROVE  /\ ~ Interpose(t) /\ ~ InterposeFails(t) /\ ~ IgetInit(t)
             /\ cur[t].n \in Names /\ cur[t].d \in Dentries
             /\ dent[cur[t].d].ln = cur[t].n
             /\ pc[t] \in DirPcs /\ pc[t] \in EarlyPcs
  <2>1. pc[t] \in DirPcs /\ pc[t] \in EarlyPcs
    BY Zenon, <1>d DEF DirPcs, OpPcs, EarlyPcs
  <2>2. ~ Interpose(t) /\ ~ InterposeFails(t) /\ ~ IgetInit(t)
    BY Zenon, <1>d DEF Interpose, InterposeFails, IgetInit, Goto
  <2>3. cur[t].n \in Names /\ cur[t].d \in Dentries
    BY Zenon, <2>1 DEF OwnInv, CallOK
  <2>4. dent[cur[t].d].ln = cur[t].n
    BY Zenon, <2>1, EarlyDentry DEF NamesInv
  <2> QED
    BY Zenon, <2>1, <2>2, <2>3, <2>4
<1>1. CASE /\ UNCHANGED <<target, nlink, dirLinks, behind>>
           /\ ~ IgetInit(t) /\ ~ Interpose(t) /\ ~ InterposeFails(t)
  BY Zenon, <1>1, <1>b, <1>c, CopyLocal
<1>2. CASE IgetInit(t)
  <2>1. PICK r, l :
          /\ r = cur[t].s /\ r \in Slots
          /\ inode' = [inode EXCEPT ![r] = [st |-> "live", l |-> l]]
          /\ nlink' = [nlink EXCEPT ![r] = Links(target, l)]
          /\ UNCHANGED <<target, dirLinks, behind>>
    BY Zenon, <1>2 DEF IgetInit, Goto, OwnInv, IgetOK
  <2>2. /\ inode'[r].l = l /\ nlink'[r] = Links(target, l)
        /\ \A s \in Slots \ {r} : inode'[s] = inode[s] /\ nlink'[s] = nlink[s]
    BY Zenon, <1>0, <2>1
  <2>3. ~ Interpose(t) /\ ~ InterposeFails(t)
    BY Zenon, <1>2 DEF IgetInit, Interpose, InterposeFails, Goto
  <2> QED
    BY Zenon, <1>c, <2>1, <2>2, <2>3, CopyLocal
<1>3. CASE Interpose(t)
  <2>1. /\ nlink' = [s \in Slots |-> IF s \in CountOf(cur[t])
                                     THEN Links(target, inode[s].l) ELSE nlink[s]]
        /\ dirLinks' = [i \in Dirs |-> IF i \in CountOf(cur[t])
                                       THEN DirLinks(target, i) ELSE dirLinks[i]]
        /\ behind' = behind \ CountOf(cur[t])
        /\ UNCHANGED <<target, inode>>
    BY Zenon, <1>3 DEF Interpose
  <2>2. ASSUME NEW s \in Slots \ behind'
        PROVE  \/ nlink'[s] = Links(target', inode'[s].l)
               \/ /\ s \notin behind /\ inode'[s] = inode[s] /\ nlink'[s] = nlink[s]
                  /\ Links(target', inode[s].l) = Links(target, inode[s].l)
                  /\ \A u \in Tasks : Linking(u, s) => Linking(u, s)'
    <3>1. CASE s \in CountOf(cur[t])
      BY Zenon, <2>1, <3>1
    <3>2. CASE s \notin CountOf(cur[t])
      BY Zenon, <2>1, <2>2, <3>2, CopierStep
    <3> QED
      BY Zenon, <3>1, <3>2
  <2>3. ASSUME NEW i \in Dirs \ behind'
        PROVE  \/ dirLinks'[i] = DirLinks(target', i)
               \/ /\ i \notin behind /\ dirLinks'[i] = dirLinks[i]
                  /\ DirLinks(target', i) = DirLinks(target, i)
                  /\ \A u \in Tasks : Making(u, i) => Making(u, i)'
    <3>1. CASE i \in CountOf(cur[t])
      BY Zenon, <2>1, <3>1
    <3>2. CASE i \notin CountOf(cur[t])
      BY Zenon, <2>1, <2>3, <3>2, CopierStep
    <3> QED
      BY Zenon, <3>1, <3>2
  <2> QED
    BY Zenon, <2>2, <2>3, CopyLocal
<1>4. CASE InterposeFails(t)
  <2>1. /\ UNCHANGED <<target, nlink, dirLinks>>
        /\ behind' = behind \cup CountOf(cur[t])
    <3>1. CASE cur[t].op \in {"lookup", "rename"} /\ LookupFails(t)
      BY Zenon, <3>1 DEF LookupFails, attrVars, CountOf
    <3>2. CASE cur[t].op \in MakeOps
      BY Zenon, <1>4, <3>2 DEF InterposeFails, MakeOps
    <3> QED
      BY Zenon, <1>4, <3>1, <3>2 DEF InterposeFails
  <2>2. ~ IgetInit(t)
    BY Zenon, <1>4 DEF IgetInit, InterposeFails, Goto
  <2>3. ASSUME NEW s \in Slots \ behind', inode'[s].st = "live"
        PROVE  /\ s \notin behind /\ inode'[s] = inode[s]
               /\ \A u \in Tasks : Linking(u, s) => Linking(u, s)'
    BY Zenon, <1>b, <2>1, <2>2, <2>3, CopierStep
  <2>4. ASSUME NEW i \in Dirs \ behind'
        PROVE  i \notin behind /\ \A u \in Tasks : Making(u, i) => Making(u, i)'
    BY Zenon, <2>1, <2>4, CopierStep
  <2> QED
    BY Zenon, <2>1, <2>3, <2>4, CopyLocal
<1>5. CASE OpMake(t) /\ cur[t].op \in MakeOps
  <2>0. pc[t] = "op_do" /\ pc'[t] = "ig_find" /\ UNCHANGED <<cur, inode, nlink, dirLinks, behind>>
    BY Zenon, <1>5 DEF OpMake, Goto, attrVars, OwnInv, CoreType
  <2>1. PICK n \in Names : n = cur[t].n /\ dent[cur[t].d].ln = n
    BY Zenon, <1>d, <2>0
  <2>2. PICK l \in NewTargets(cur[t]) :
          target' = [target EXCEPT ![n] = l]
    BY Zenon, <1>5, <2>1 DEF OpMake
  <2>3. target[n] = NULL
    <3>1. dent[cur[t].d].st = "fresh"
      BY Zenon, <1>5, <1>d, <2>0 DEF OwnInv, StageOK
    <3> QED
      BY Zenon, <1>d, <2>0, <2>1, <3>1 DEF NamesInv, TruthInv, CallTruth
  <2>4. target'[n] = l /\ \A m \in Names \ {n} : target'[m] = target[m]
    BY Zenon, <1>0, <2>2
  <2>5. ASSUME NEW s \in Slots \ behind', inode'[s].st = "live"
        PROVE  \/ \E u \in Tasks : Linking(u, s)'
               \/ Links(target', inode[s].l) = Links(target, inode[s].l)
    <3>1. inode[s].l \in LowerInodes
      BY Zenon, <1>a, <2>0, <2>5
    <3>2. CASE inode[s].l # l
      <4>1. \A m \in Names : target'[m] = inode[s].l <=> target[m] = inode[s].l
        BY Zenon, <1>0, <2>3, <2>4, <3>1, <3>2
      <4> QED
        BY <4>1, LinksSame
    <3>3. CASE inode[s].l = l
      <4>1. cur[t].op = "link" /\ dent[cur[t].e].l = l
        BY Zenon, <2>2, <3>3 DEF NewTargets
      <4>2. PICK e \in Dentries : e = cur[t].e /\ dent[e].st \in InUse
        BY Zenon, <1>d, <2>0, <4>1 DEF OwnInv, CallOK
      <4>3. dent[e].ino \in Slots /\ inode[dent[e].ino].l = dent[e].l
        BY Zenon, <4>2 DEF OwnInv, DentOK
      <4>4. dent[e].ino = s
        BY Zenon, <1>0, <1>a, <3>1, <3>3, <4>1, <4>2, <4>3
      <4>5. dent'[e].ino = s
        BY Zenon, <4>2, <4>4, InUseKeeps DEF Next
      <4> QED
        BY Zenon, <2>0, <4>1, <4>2, <4>5 DEF Linking, IgetPcs
    <3> QED
      BY Zenon, <3>2, <3>3
  <2>6. ASSUME NEW i \in Dirs \ behind'
        PROVE  \/ \E u \in Tasks : Making(u, i)'
               \/ DirLinks(target', i) = DirLinks(target, i)
    <3>1. CASE cur[t].op = "mkdir" /\ DirOf[n] = i
      BY Zenon, <2>0, <2>1, <3>1 DEF Making, IgetPcs
    <3>2. CASE ~ (cur[t].op = "mkdir" /\ DirOf[n] = i)
      <4>1. cur[t].op # "mkdir" => l \notin DirInodes
        <5>1. CASE cur[t].op = "link"
          BY Zenon, <1>d, <2>0, <2>2, <5>1 DEF NewTargets, KindInv, KindOK
        <5>2. CASE cur[t].op \notin {"link", "mkdir"}
          BY Zenon, <2>2, <5>2 DEF NewTargets
        <5> QED
          BY Zenon, <5>1, <5>2
      <4>2. \A m \in Names : DirOf[m] = i =>
              (target'[m] \in DirInodes <=> target[m] \in DirInodes)
        BY Zenon, <1>0, <2>3, <2>4, <3>2, <4>1
      <4> QED
        BY Zenon, <4>2, DirLinksSame
    <3> QED
      BY Zenon, <3>1, <3>2
  <2>7. ~ Interpose(t) /\ ~ InterposeFails(t)
    BY Zenon, <1>d, <2>0
  <2> QED
    BY Zenon, <1>c, <2>0, <2>5, <2>6, <2>7, CopyLocal
<1>6. CASE OpUnlink(t) \/ OpRmdir(t)
  <2>0. /\ pc[t] = "op_do" /\ UNCHANGED inode
        /\ cur[t].op \in RemoveOps /\ ~ LowerGone(cur[t].d)
    BY Zenon, <1>6 DEF OpUnlink, OpRmdir, Goto, RemoveOps
  <2>1. PICK n \in Names, d \in Dentries :
          n = cur[t].n /\ d = cur[t].d /\ dent[d].ln = n
    BY Zenon, <1>d, <2>0
  <2>2. PICK l, s : l = dent[d].l /\ s = dent[d].ino
    OBVIOUS
  <2>3. /\ target' = [target EXCEPT ![n] = NULL] /\ target[n] = l
    BY Zenon, <1>6, <2>0, <2>1, <2>2 DEF OpUnlink, OpRmdir, LowerGone
  <2>4. target'[n] = NULL /\ \A m \in Names \ {n} : target'[m] = target[m]
    BY Zenon, <1>0, <2>3
  <2>5. l \in LowerInodes /\ s \in Slots /\ inode[s].l = l
    <3>1. dent[d].st \in InUse
      BY Zenon, <1>d, <2>0, <2>1 DEF KindInv, KindOK
    <3> QED
      BY Zenon, <2>2, <3>1 DEF OwnInv, DentOK
  <2>6. ASSUME NEW r \in Slots \ {s}, inode'[r].st = "live"
        PROVE  Links(target', inode[r].l) = Links(target, inode[r].l)
    <3>1. inode[r].l \in LowerInodes /\ inode[r].l # l
      BY Zenon, <1>0, <1>a, <2>0, <2>5, <2>6
    <3>2. \A m \in Names : target'[m] = inode[r].l <=> target[m] = inode[r].l
      BY Zenon, <1>0, <2>3, <2>4, <3>1
    <3> QED
      BY <3>2, LinksSame
  <2>7. CASE OpUnlink(t)
    <3>1. /\ nlink' = [nlink EXCEPT ![s] = Links(target', inode[s].l)]
          /\ behind' = behind \ {s} /\ UNCHANGED dirLinks /\ cur[t].op = "unlink"
      BY Zenon, <2>1, <2>2, <2>7 DEF OpUnlink
    <3>2. l \notin DirInodes
      BY Zenon, <1>d, <2>0, <2>1, <2>2, <3>1 DEF KindInv, KindOK
    <3>3. ASSUME NEW i \in Dirs PROVE DirLinks(target', i) = DirLinks(target, i)
      <4>1. \A m \in Names : target'[m] \in DirInodes <=> target[m] \in DirInodes
        BY Zenon, <1>0, <2>3, <2>4, <3>2
      <4> QED
        BY Zenon, <4>1, DirLinksSame
    <3>4. /\ nlink'[s] = Links(target', inode[s].l)
          /\ \A r \in Slots \ {s} : nlink'[r] = nlink[r]
      BY Zenon, <1>0, <2>5, <3>1
    <3>5. \A i \in Dirs \ behind' : i \notin behind
      BY Zenon, <1>0, <2>5, <3>1
    <3>6. \A r \in Slots \ {s} : r \notin behind' => r \notin behind
      BY Zenon, <3>1
    <3>7. ~ Interpose(t) /\ ~ InterposeFails(t)
      BY Zenon, <1>d, <2>0
    <3> QED
      BY Zenon, <1>c, <2>0, <2>6, <3>1, <3>3, <3>4, <3>5, <3>6, <3>7, CopyLocal
  <2>8. CASE OpRmdir(t)
    <3>1. /\ nlink' = [nlink EXCEPT ![s] = 0]
          /\ dirLinks' = [dirLinks EXCEPT ![DirOf[n]] = DirLinks(target', DirOf[n])]
          /\ behind' = behind \ {s, DirOf[n]} /\ cur[t].op = "rmdir"
      BY Zenon, <2>1, <2>2, <2>8 DEF OpRmdir
    <3>2. l \in DirInodes
      BY Zenon, <1>d, <2>0, <2>1, <2>2, <3>1 DEF KindInv, KindOK
    <3>3. Links(target', l) = 0
      <4>1. {m \in Names : target'[m] = l} = {}
        BY Zenon, <1>0, <2>3, <2>4, <3>2 DEF KindInv
      <4> QED
        BY Zenon, <4>1, FS_EmptySet DEF Links
    <3>4. ASSUME NEW i \in Dirs \ {DirOf[n]}
          PROVE  DirLinks(target', i) = DirLinks(target, i)
      <4>1. \A m \in Names : DirOf[m] = i =>
              (target'[m] \in DirInodes <=> target[m] \in DirInodes)
        BY Zenon, <2>4
      <4> QED
        BY Zenon, <4>1, DirLinksSame
    <3>5. /\ nlink'[s] = Links(target', inode[s].l)
          /\ \A r \in Slots \ {s} : nlink'[r] = nlink[r]
      BY Zenon, <1>0, <2>5, <3>1, <3>3
    <3>6. /\ dirLinks'[DirOf[n]] = DirLinks(target', DirOf[n])
          /\ \A i \in Dirs \ {DirOf[n]} : dirLinks'[i] = dirLinks[i]
      BY Zenon, <1>0, <3>1
    <3>7. /\ \A i \in Dirs \ {DirOf[n]} : i \notin behind' => i \notin behind
          /\ \A r \in Slots \ {s} : r \notin behind' => r \notin behind
      BY Zenon, <1>0, <2>5, <3>1
    <3>8. ~ Interpose(t) /\ ~ InterposeFails(t)
      BY Zenon, <1>d, <2>0
    <3> QED
      BY Zenon, <1>c, <2>0, <2>6, <3>4, <3>5, <3>6, <3>7, <3>8, CopyLocal
  <2> QED
    BY Zenon, <1>6, <2>7, <2>8
<1>7. CASE OpRename(t)
  <2>0. pc[t] = "op_do" /\ UNCHANGED <<inode, nlink>> /\ cur[t].op = "rename"
    BY Zenon, <1>7 DEF OpRename, Goto
  <2>1. PICK d, e \in Dentries :
          /\ d = cur[t].d /\ e = cur[t].e /\ dent[e].st = "hashed"
          /\ dent[d].ln \in Names /\ dent[e].ln \in Names
          /\ IF dent[d].l = dent[e].l THEN target' = target
             ELSE target' = [target EXCEPT ![dent[d].ln] = dent[e].l,
                                           ![dent[e].ln] = NULL]
    BY <1>7, RenameEffect
  <2>2. /\ dent[d].ln = cur[t].n
        /\ dent[e].ln = dent[e].n /\ dent[e].n # cur[t].n
        /\ dent[d].st \in {"fresh", "hashed"}
    BY Zenon, <1>d, <2>0, <2>1, EarlyDentry DEF NamesInv
  <2>3. PICK a, b \in Names : a = dent[d].ln /\ b = dent[e].ln
    BY Zenon, <2>1
  <2>4. /\ target[a] = dent[d].l /\ target[b] = dent[e].l /\ a # b
    BY Zenon, <1>7, <2>1, <2>2, <2>3 DEF OpRename, LowerGone
  <2>5. \/ target' = target
        \/ /\ dent[d].l # dent[e].l /\ target'[a] = dent[e].l /\ target'[b] = NULL
           /\ \A m \in Names \ {a, b} : target'[m] = target[m]
    BY Zenon, <1>0, <2>1, <2>3, <2>4
  <2>6. /\ dirLinks'[DirOf[a]] = DirLinks(target', DirOf[a])
        /\ dirLinks'[DirOf[b]] = DirLinks(target', DirOf[b])
        /\ \A i \in Dirs \ {DirOf[a], DirOf[b]} : dirLinks'[i] = dirLinks[i]
    <3>1. dirLinks' = [i \in Dirs |-> IF i = DirOf[a] THEN DirLinks(target', DirOf[a])
                                      ELSE IF i = DirOf[b] THEN DirLinks(target', DirOf[b])
                                      ELSE dirLinks[i]]
      BY Zenon, <1>7, <2>1, <2>2, <2>3 DEF OpRename
    <3>2. DirOf[a] \in Dirs /\ DirOf[b] \in Dirs
      BY Zenon, <1>0
    <3> QED
      BY Zenon, <3>1, <3>2
  <2>7. behind' = (behind \ {DirOf[a], DirOf[b]}) \cup ({dent[d].ino} \ {NULL})
    BY Zenon, <1>7, <2>0, <2>1, <2>2, <2>3 DEF OpRename, UpperDirs
  <2>8. ASSUME NEW s \in Slots \ behind', inode'[s].st = "live"
        PROVE  Links(target', inode[s].l) = Links(target, inode[s].l)
    <3>1. inode[s].l \in LowerInodes
      BY Zenon, <1>a, <2>0, <2>8
    <3>2. inode[s].l # dent[d].l
      <4>1. CASE dent[d].st = "fresh"
        <5>1. dent[d].l = NULL
          BY Zenon, <2>0, <2>1, <4>1 DEF OwnInv, StageOK
        <5> QED
          BY Zenon, <1>0, <3>1, <5>1
      <4>2. CASE dent[d].st = "hashed"
        <5>1. /\ dent[d].ino \in Slots /\ inode[dent[d].ino].l = dent[d].l
              /\ dent[d].l \in LowerInodes
          BY Zenon, <4>2 DEF OwnInv, DentOK, InUse
        <5>2. s # dent[d].ino
          BY Zenon, <1>0, <2>7, <2>8, <5>1
        <5> QED
          BY Zenon, <1>0, <1>a, <3>1, <5>1, <5>2
      <4> QED
        BY Zenon, <2>2, <4>1, <4>2
    <3>3. CASE target' = target
      BY Zenon, <3>3
    <3>4. CASE /\ dent[d].l # dent[e].l /\ target'[a] = dent[e].l /\ target'[b] = NULL
               /\ \A m \in Names \ {a, b} : target'[m] = target[m]
      <4>1. CASE inode[s].l = dent[e].l
        BY <1>0, <2>4, <3>1, <3>2, <3>4, <4>1, LinksTraded
      <4>2. CASE inode[s].l # dent[e].l
        <5>1. \A m \in Names : target'[m] = inode[s].l <=> target[m] = inode[s].l
          BY Zenon, <1>0, <2>4, <3>1, <3>2, <3>4, <4>2
        <5> QED
          BY <5>1, LinksSame
      <4> QED
        BY Zenon, <4>1, <4>2
    <3> QED
      BY Zenon, <2>5, <3>3, <3>4
  <2>9. ASSUME NEW i \in Dirs \ {DirOf[a], DirOf[b]}
        PROVE  DirLinks(target', i) = DirLinks(target, i)
    <3>1. \A m \in Names : DirOf[m] = i => target'[m] = target[m]
      BY Zenon, <2>5, <2>9
    <3> QED
      BY <3>1, DirLinksSame
  <2>10. /\ \A i \in Dirs \ {DirOf[a], DirOf[b]} : i \notin behind' => i \notin behind
         /\ \A s \in Slots : s \notin behind' => s \notin behind
    <3>1. DirOf[a] \in Dirs /\ DirOf[b] \in Dirs
      BY Zenon, <1>0
    <3> QED
      BY Zenon, <1>0, <2>7, <3>1
  <2>11. ~ Interpose(t) /\ ~ InterposeFails(t)
    BY Zenon, <1>d, <2>0
  <2> QED
    BY Zenon, <1>c, <2>0, <2>6, <2>8, <2>9, <2>10, <2>11, CopyLocal
<1> QED
  BY Zenon, <1>1, <1>2, <1>3, <1>4, <1>5, <1>6, <1>7, CountSteps

\* One step keeps every link count copied or about to be copied.
LEMMA CopyNext ==
  ASSUME OwnInv, NamesInv, KindInv, CopyInv, RestType, [Next]_vars
  PROVE  CopyInv'
<1> SUFFICES ASSUME doubled' = {} PROVE CopyInv'
  BY Zenon DEF CopyInv
<1>0. inode \in [Slots -> Inode] /\ nlink \in [Slots -> Nat]
  BY Zenon DEF OwnInv, CoreType, RestType
<1>1. doubled = {}
  <2>1. CASE \E t \in Tasks : IgetInit(t)
    BY Zenon, <2>1 DEF IgetInit
  <2>2. CASE \A t \in Tasks : ~ IgetInit(t)
    BY Zenon, <2>2, LowerInodeStep
  <2> QED
    BY Zenon, <2>1, <2>2
<1>2. CASE \E t \in Tasks : StartCall(t) \/ Continue(t)
  BY Zenon, <1>1, <1>2, CopyStep
<1>3. ASSUME UNCHANGED <<pc, cur>>
      PROVE  \A u \in Tasks : /\ \A s : Linking(u, s) => Linking(u, s)'
                              /\ \A i : Making(u, i) => Making(u, i)'
  BY Zenon, <1>3, CopiersStay
<1>4. ASSUME UNCHANGED <<pc, cur, target, nlink, dirLinks, behind>>,
             \A s \in Slots : inode'[s].st = "live" => inode'[s] = inode[s]
      PROVE  CopyInv'
  BY Zenon, <1>1, <1>3, <1>4, CopyLocal
<1>5. ASSUME NEW d \in Dentries, FileRelease(d) \/ DentryKill(d) \/ DentryRelease(d)
      PROVE  CopyInv'
  <2>1. UNCHANGED <<pc, cur, target, nlink, dirLinks, behind>>
    BY Zenon, <1>5 DEF FileRelease, DentryKill, DentryRelease, attrVars
  <2>2. \/ UNCHANGED inode
        \/ inode' = [inode EXCEPT ![dent[d].ino].st = "freeing"]
    BY Zenon, <1>5 DEF FileRelease, DentryKill, DentryRelease
  <2>3. \A s \in Slots : inode'[s].st = "live" => inode'[s] = inode[s]
    BY Zenon, <1>0, <2>2 DEF Inode
  <2> QED
    BY Zenon, <1>4, <2>1, <2>3
<1>6. ASSUME NEW r \in Slots, EvictInode(r)
      PROVE  CopyInv'
  <2>1. UNCHANGED <<pc, cur, target, nlink, dirLinks, behind>>
    BY Zenon, <1>6 DEF EvictInode, attrVars
  <2>2. \A s \in Slots : inode'[s].st = "live" => inode'[s] = inode[s]
    BY Zenon, <1>0, <1>6 DEF EvictInode
  <2> QED
    BY Zenon, <1>4, <2>1, <2>2
<1>7. ASSUME NEW r \in Slots, DestroyInode(r)
      PROVE  CopyInv'
  <2>1. /\ UNCHANGED <<pc, cur, target, dirLinks>>
        /\ nlink' = [nlink EXCEPT ![r] = 0] /\ behind' = behind \ {r}
        /\ inode' = [inode EXCEPT ![r] = FreeInode]
    BY Zenon, <1>7 DEF DestroyInode
  <2>2. /\ inode'[r].st # "live"
        /\ \A s \in Slots \ {r} : inode'[s] = inode[s] /\ nlink'[s] = nlink[s]
    BY Zenon, <1>0, <2>1 DEF FreeInode
  <2>3. /\ \A s \in Slots \ {r} : s \notin behind' => s \notin behind
        /\ \A i \in Dirs : i \notin behind' => i \notin behind
    BY Zenon, <2>1, InodeAssumption
  <2> QED
    BY Zenon, <1>1, <1>3, <2>1, <2>2, <2>3, CopyLocal
<1>8. CASE UNCHANGED vars
  BY Zenon, <1>4, <1>8 DEF vars, attrVars
<1> QED
  BY Zenon, <1>2, <1>5, <1>6, <1>7, <1>8 DEF Next

\* The counts wrapfs has copied are those of the lower files whenever no call
\* is under way: link, unlink, mkdir, rmdir and rename copy each count that
\* their lower call has changed, in whatever order calls of several tasks make
\* their changes and their copies.
THEOREM CountsAreCopied == Spec => []LinkCounts
<1>1. Init => KindInv /\ CopyInv
  <2> SUFFICES ASSUME Init PROVE KindInv /\ CopyInv
    BY Zenon
  <2>1. KindInv
    BY Zenon, InodeAssumption DEF Init, KindInv, KindOK, DirPcs, LookPcs, IgetPcs, OpPcs
  <2>2. /\ \A s \in Slots : inode[s].st # "live"
        /\ \A i \in Dirs : dirLinks[i] = DirLinks(target, i)
    BY DEF Init, FreeInode
  <2> QED
    BY Zenon, <2>1, <2>2 DEF CopyInv, DirCounted
<1>2. OwnInv /\ RestType /\ NamesInv /\ KindInv /\ CopyInv /\ [Next]_vars
        => RestType' /\ KindInv' /\ CopyInv'
  BY Zenon, RestTypeNext, KindNext, CopyNext
<1>3. CopyInv => LinkCounts
  BY DEF CopyInv, LinkCounts, Counted, DirCounted, Linking, Making, IgetPcs
<1> QED
  BY <1>1, <1>2, <1>3, RestTypeInit, Ownership, NamesHold, PTL DEF Spec
=============================================================================
