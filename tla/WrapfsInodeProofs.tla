------------------------- MODULE WrapfsInodeProofs --------------------------
(***************************************************************************)
(* Interposition, proved for any number of tasks, names, directories,      *)
(* dentries and inodes: who owns a lock, a dentry or an inode at every     *)
(* point of a call, and the lemmas on single steps that WrapfsInodeDcache  *)
(* and WrapfsInodeAccounts rest on.                                        *)
(***************************************************************************)
EXTENDS WrapfsInode, FiniteSetTheorems, TLAPS

-----------------------------------------------------------------------------
(***************************************************************************)
(* Who owns what.                                                          *)
(***************************************************************************)
LookPcs == {"lk_info", "lk_path"}
IgetPcs == {"ig_find", "ig_init", "ig_add", "ig_fail"}
OpPcs   == {"op_lock", "op_want", "op_want2", "op_do", "op_out", "op_drop",
            "op_unlock", "op_return", "dead"}
DirPcs  == LookPcs \cup IgetPcs \cup OpPcs
OpenPcs == {"open_check", "open_lower"}
DirOps  == MakeOps \cup RemoveOps \cup {"lookup", "rename"}
InUse   == {"hashed", "unhashed"}

\* The types the rest is about; the counts have theirs from what they count.
CoreType ==
  /\ target \in [Names -> LowerInodes \cup {NULL}]
  /\ dirLock \in [Dirs -> Tasks \cup {NoTask}]
  /\ dent \in [Dentries -> Dentry]
  /\ inode \in [Slots -> Inode]
  /\ pc \in [Tasks -> PCs]
  /\ cur \in [Tasks -> Call]

\* A task inside a directory operation has the directory of its name locked,
\* for rename both, and a dentry with that name.
CallOK(t) ==
  LET c == cur[t]
      x == dent[c.d]
  IN
  /\ pc[t] = "idle" => c = NoCall
  /\ pc[t] \in OpenPcs =>
       c.op = "open" /\ c.d \in Dentries /\ c.e = NULL /\ x.st \in InUse
  /\ pc[t] \in DirPcs =>
       /\ c.op \in DirOps /\ c.n \in Names /\ c.d \in Dentries
       /\ x.n = c.n /\ dirLock[DirOf[c.n]] = t
       /\ x.st \in InUse \cup {"fresh"}
       /\ c.op \in {"link", "rename"} =>
            c.e \in Dentries \ {c.d} /\ dent[c.e].st \in InUse
       /\ c.op \notin {"link", "rename"} => c.e = NULL
       /\ c.op = "rename" =>
            dent[c.e].st = "hashed" /\ dirLock[DirOf[dent[c.e].n]] = t

\* The dentry of a call at each of its stages.
StageOK(t) ==
  LET c == cur[t]
      x == dent[c.d]
  IN
  /\ pc[t] \in LookPcs =>
       /\ x.st = "fresh" /\ ~ x.path /\ x.l = NULL
       /\ c.op \in MakeOps \cup {"lookup", "rename"}
  /\ pc[t] \in IgetPcs =>
       /\ x.st = "fresh" /\ x.path /\ x.ln = c.n /\ x.l \in LowerInodes
       /\ c.op \in MakeOps \cup {"lookup", "rename"}
  /\ pc[t] \in OpPcs => x.path /\ x.ln \in Names /\ c.op # "lookup"
  /\ pc[t] \in {"op_lock", "op_want", "op_want2", "op_do"} =>
       /\ x.st = "fresh" => x.l = NULL /\ x.ln = c.n /\ c.op \notin RemoveOps
       /\ x.st # "fresh" => x.st = "hashed" /\ c.op \notin MakeOps
  /\ pc[t] \in {"op_want2", "op_drop"} => c.op = "rename"
  /\ pc[t] = "dead" => c.op = "unlink"

\* What a dentry in use has, and the inode it keeps alive.
DentOK(d) ==
  LET x == dent[d] IN
  /\ x.st = "free" => x = FreeDentry
  /\ x.st = "fresh" =>
       x.ino = NULL /\ \E t \in Tasks : pc[t] \in DirPcs /\ cur[t].d = d
  /\ x.st \in InUse \cup {"dying"} =>
       /\ x.n \in Names /\ x.ln \in Names /\ x.path
       /\ x.l \in LowerInodes /\ x.ino \in Slots
  /\ x.st \in InUse => inode[x.ino].st = "live" /\ inode[x.ino].l = x.l

\* A wrapfs inode has its lower inode from IgetInit until EvictInode.
SlotOK(s) ==
  /\ inode[s].st \in {"live", "freeing"} => inode[s].l \in LowerInodes
  /\ inode[s].st \in {"free", "new", "clear"} => inode[s].l = NULL

\* The inode a lookup has got from iget5_locked.
IgetOK(t) ==
  /\ pc[t] = "ig_init" =>
       /\ cur[t].s \in Slots /\ inode[cur[t].s].st = "new"
       /\ \A u \in Tasks \ {t} : pc[u] = "ig_init" => cur[u].s # cur[t].s
  /\ pc[t] = "ig_add" =>
       /\ cur[t].s \in Slots /\ inode[cur[t].s].st = "live"
       /\ inode[cur[t].s].l = dent[cur[t].d].l

\* i_count counts the dentries that have the inode, or are about to.
Holds(d, s) ==
  \/ dent[d].st \in InUse /\ dent[d].ino = s
  \/ \E t \in Tasks : /\ pc[t] \in {"ig_init", "ig_add"}
                      /\ cur[t].d = d /\ cur[t].s = s
Holders(s) == {d \in Dentries : Holds(d, s)}
HoldInv ==
  /\ icount \in [Slots -> Nat]
  /\ \A s \in Slots :
       /\ icount[s] = Cardinality(Holders(s))
       /\ inode[s].st \in {"new", "live"} => Holders(s) # {}

OwnInv ==
  /\ CoreType
  /\ \A t \in Tasks : CallOK(t) /\ StageOK(t) /\ IgetOK(t)
  /\ \A d \in Dentries : DentOK(d)
  /\ \A s \in Slots : SlotOK(s)
  /\ HoldInv

-----------------------------------------------------------------------------
(***************************************************************************)
(* Types.                                                                  *)
(***************************************************************************)

\* A call and a dentry with some fields changed are a call and a dentry.
LEMMA CallUpdates ==
  ASSUME NEW c \in Call
  PROVE  /\ NoCall \in Call /\ [c EXCEPT !.ok = FALSE] \in Call
         /\ \A s \in Slots : [c EXCEPT !.s = s] \in Call
         /\ [c EXCEPT !.op = "lookup", !.e = NULL] \in Call
BY Zenon DEF Call, OpKinds, NoCall

\* A dentry stays one under the assignments of the code.
LEMMA DentryUpdates ==
  ASSUME NEW x \in Dentry
  PROVE  /\ FreeDentry \in Dentry
         /\ [x EXCEPT !.st = "unhashed"] \in Dentry
         /\ [x EXCEPT !.st = "dying"] \in Dentry
         /\ \A l \in LowerInodes : [x EXCEPT !.l = l] \in Dentry
         /\ \A n \in Names, l \in LowerInodes \cup {NULL} :
              [x EXCEPT !.l = l, !.ln = n, !.path = TRUE] \in Dentry
         /\ \A n \in Names : [x EXCEPT !.ln = n, !.path = TRUE] \in Dentry
         /\ \A n \in Names \cup {NULL} : [x EXCEPT !.ln = n] \in Dentry
         /\ \A n \in Names \cup {NULL} : [x EXCEPT !.n = n] \in Dentry
         /\ \A n \in Names \cup {NULL} :
              [x EXCEPT !.n = n, !.st = "unhashed"] \in Dentry
         /\ \A s \in Slots \cup {NULL} :
              [x EXCEPT !.st = "hashed", !.ino = s] \in Dentry
BY Zenon DEF Dentry, FreeDentry

\* The two dentries of a rename after vfs_rename, and after d_move.
Below(d, e, a, b) == [dent EXCEPT ![d].ln = a, ![e].ln = b]
Above(d, e, a, b) == [dent EXCEPT ![e].n = b, ![d].n = a, ![d].st = "unhashed"]

\* vfs_rename changes the lower names only.
LEMMA RenamedBelow ==
  ASSUME dent \in [Dentries -> Dentry], NEW d \in Dentries, NEW e \in Dentries,
         d # e, NEW a, NEW b, NEW g, g = Below(d, e, a, b)
  PROVE  /\ \A x \in Dentries \ {d, e} : g[x] = dent[x]
         /\ \A x \in Dentries : /\ g[x].st = dent[x].st /\ g[x].n = dent[x].n
                                /\ g[x].l = dent[x].l /\ g[x].path = dent[x].path
                                /\ g[x].ino = dent[x].ino
         /\ g[d].ln = a /\ g[e].ln = b
<1>1. g = [dent EXCEPT ![d].ln = a, ![e].ln = b]
  BY Zenon DEF Below
<1>2. g[d] = [dent[d] EXCEPT !.ln = a] /\ g[e] = [dent[e] EXCEPT !.ln = b]
  BY <1>1
<1>4. \A x \in Dentries \ {d, e} : g[x] = dent[x]
  BY <1>1
<1>5. /\ g[d].st = dent[d].st /\ g[d].n = dent[d].n /\ g[d].l = dent[d].l
      /\ g[d].path = dent[d].path /\ g[d].ino = dent[d].ino /\ g[d].ln = a
      /\ g[e].st = dent[e].st /\ g[e].n = dent[e].n /\ g[e].l = dent[e].l
      /\ g[e].path = dent[e].path /\ g[e].ino = dent[e].ino /\ g[e].ln = b
  BY <1>2 DEF Dentry
<1> QED
  BY Zenon, <1>4, <1>5

\* d_move changes the names and drops the dentry that was replaced.
MovedOnto(g, d, e, a, b) ==
  /\ \A x \in Dentries \ {d, e} : g[x] = dent[x]
  /\ \A x \in Dentries : /\ g[x].l = dent[x].l /\ g[x].path = dent[x].path
                         /\ g[x].ino = dent[x].ino /\ g[x].ln = dent[x].ln
                         /\ x # d => g[x].st = dent[x].st
  /\ g[d].st = "unhashed" /\ g[d].n = a /\ g[e].n = b

\* The dentries after d_move are such.
LEMMA RenamedAbove ==
  ASSUME dent \in [Dentries -> Dentry], NEW d \in Dentries, NEW e \in Dentries,
         d # e, NEW a \in Names \cup {NULL}, NEW b \in Names \cup {NULL}
  PROVE  MovedOnto(Above(d, e, a, b), d, e, a, b)
<1> DEFINE g == Above(d, e, a, b)
<1>1. g = [dent EXCEPT ![e].n = b, ![d].n = a, ![d].st = "unhashed"]
  BY Zenon DEF Above
<1> HIDE DEF g
<1>2. g[d] = [dent[d] EXCEPT !.n = a, !.st = "unhashed"]
  BY <1>1
<1>3. g[e] = [dent[e] EXCEPT !.n = b]
  BY <1>1
<1>5. \A x \in Dentries \ {d, e} : g[x] = dent[x]
  BY <1>1
<1>6. /\ g[d].st = "unhashed" /\ g[d].n = a /\ g[d].l = dent[d].l
      /\ g[d].path = dent[d].path /\ g[d].ino = dent[d].ino /\ g[d].ln = dent[d].ln
      /\ g[e].st = dent[e].st /\ g[e].n = b /\ g[e].l = dent[e].l
      /\ g[e].path = dent[e].path /\ g[e].ino = dent[e].ino /\ g[e].ln = dent[e].ln
  BY <1>2, <1>3 DEF Dentry
<1> QED
  BY Zenon, <1>5, <1>6 DEF MovedOnto, g

\* Every step keeps the types of names, dentries, inodes and calls.
LEMMA CoreTypeNext ==
  ASSUME OwnInv, [Next]_vars
  PROVE  CoreType'
<1>0. CoreType
  BY DEF OwnInv
<1> USE <1>0 DEF CoreType
<1>c. ASSUME NEW t \in Tasks
      PROVE  /\ NoCall \in Call /\ [cur[t] EXCEPT !.ok = FALSE] \in Call
             /\ \A s \in Slots : [cur[t] EXCEPT !.s = s] \in Call
             /\ [cur[t] EXCEPT !.op = "lookup", !.e = NULL] \in Call
  BY Zenon, CallUpdates
<1>d. ASSUME NEW t \in Tasks, pc[t] \in DirPcs
      PROVE  /\ cur[t].n \in Names /\ cur[t].d \in Dentries
             /\ cur[t].op \in {"link", "rename"} => cur[t].e \in Dentries
  BY <1>d DEF OwnInv, CallOK
<1> HIDE DEF DirPcs
<1>1. CASE UNCHANGED vars
  BY <1>1 DEF vars, lockVars
<1>2. ASSUME NEW t \in Tasks, StartCall(t) PROVE CoreType'
  <2>1. CASE LookupBegin(t)
    <3>1. PICK op \in MakeOps \cup {"lookup", "rename"}, n \in Names,
               d \in Dentries, e \in Dentries \cup {NULL} :
                 LookupFor(t, op, n, d, e)
      BY Zenon, <2>1 DEF LookupBegin
    <3>2. UNCHANGED <<target, inode>>
      BY <3>1 DEF LookupFor
    <3>3. cur' \in [Tasks -> Call] /\ pc' \in [Tasks -> PCs]
      BY Zenon, <3>1 DEF LookupFor, Begin, Goto, NoCall, Call, OpKinds, PCs
    <3>4. dirLock' \in [Dirs -> Tasks \cup {NoTask}]
      BY <3>1 DEF LookupFor, LockDirs
    <3>5. dent' \in [Dentries -> Dentry]
      BY Zenon, <3>1 DEF LookupFor, FreeDentry, Dentry
    <3> QED
      BY <3>2, <3>3, <3>4, <3>5
  <2>2. CASE RemoveBegin(t)
    <3>1. PICK d \in Dentries, op \in RemoveOps :
            LET c == [NoCall EXCEPT !.op = op, !.n = dent[d].n, !.d = d] IN
            Begin(t, c, "op_lock") /\ LockDirs(t, c)
      BY Zenon, <2>2 DEF RemoveBegin
    <3>2. UNCHANGED <<target, inode, dent>>
      BY Zenon, <2>2 DEF RemoveBegin
    <3>3. cur' \in [Tasks -> Call] /\ pc' \in [Tasks -> PCs]
      BY Zenon, <3>1 DEF Begin, Goto, NoCall, Call, OpKinds, PCs, Dentry
    <3>4. dirLock' \in [Dirs -> Tasks \cup {NoTask}]
      BY <3>1 DEF LockDirs
    <3> QED
      BY <3>2, <3>3, <3>4
  <2>3. CASE RenameBegin(t)
    <3>1. PICK e \in Dentries, d \in Dentries :
            LET c == [NoCall EXCEPT !.op = "rename", !.n = dent[d].n, !.d = d,
                                    !.e = e] IN
            Begin(t, c, "op_lock") /\ LockDirs(t, c)
      BY Zenon, <2>3 DEF RenameBegin
    <3>2. UNCHANGED <<target, inode, dent>>
      BY <2>3 DEF RenameBegin
    <3>3. cur' \in [Tasks -> Call] /\ pc' \in [Tasks -> PCs]
      BY Zenon, <3>1 DEF Begin, Goto, NoCall, Call, OpKinds, PCs, Dentry
    <3>4. dirLock' \in [Dirs -> Tasks \cup {NoTask}]
      BY <3>1 DEF LockDirs
    <3> QED
      BY <3>2, <3>3, <3>4
  <2>4. CASE OpenBegin(t)
    <3>1. PICK d \in Dentries :
            Begin(t, [NoCall EXCEPT !.op = "open", !.d = d], "open_check")
      BY Zenon, <2>4 DEF OpenBegin
    <3>2. cur' \in [Tasks -> Call] /\ pc' \in [Tasks -> PCs]
      BY Zenon, <3>1 DEF Begin, Goto, NoCall, Call, OpKinds, PCs
    <3> QED
      BY <2>4, <3>2 DEF OpenBegin, lockVars
  <2> QED
    BY <1>2, <2>1, <2>2, <2>3, <2>4 DEF StartCall
<1>3. ASSUME NEW t \in Tasks, Finish(t)
      PROVE  /\ pc' \in [Tasks -> PCs] /\ cur' \in [Tasks -> Call]
             /\ dirLock' \in [Dirs -> Tasks \cup {NoTask}]
  BY <1>3 DEF Finish, PCs, NoCall, Call
<1>4. ASSUME NEW d, Release(d) PROVE dent' \in [Dentries -> Dentry]
  BY Zenon, <1>4 DEF Release, FreeDentry, Dentry
<1>5. ASSUME NEW t \in Tasks, LookupFails(t) PROVE CoreType'
  BY Zenon, <1>3, <1>4, <1>5 DEF LookupFails
<1>6. ASSUME NEW t \in Tasks, LookupInfo(t) \/ LookupError(t) PROVE CoreType'
  BY Zenon, <1>5, <1>6 DEF LookupInfo, LookupError, PCs, lockVars
<1>7. ASSUME NEW t \in Tasks, LookupPositive(t) PROVE CoreType'
  <2>1. /\ pc[t] = "lk_path" /\ pc' = [pc EXCEPT ![t] = "ig_find"]
        /\ UNCHANGED <<target, inode, dirLock>>
    BY Zenon, <1>7 DEF LookupPositive, Goto, lockVars
  <2>2. cur[t].n \in Names /\ cur[t].d \in Dentries
    BY <1>d, <2>1 DEF DirPcs, LookPcs
  <2>3. target[cur[t].n] \in LowerInodes \cup {NULL}
    BY <2>2
  <2>4. dent' \in [Dentries -> Dentry]
    BY Zenon, <1>7, <2>2, <2>3, DentryUpdates DEF LookupPositive
  <2>5. cur' \in [Tasks -> Call]
    BY Zenon, <1>7, <1>c DEF LookupPositive
  <2> QED
    BY Zenon, <2>1, <2>4, <2>5 DEF PCs
<1>8. ASSUME NEW t \in Tasks, LookupNegative(t) PROVE CoreType'
  <2>1. CASE LookupFails(t)
    BY Zenon, <1>5, <2>1
  <2>2. CASE ~ LookupFails(t)
    <3>1. /\ pc[t] = "lk_path" /\ pc' = [pc EXCEPT ![t] = "op_lock"]
          /\ UNCHANGED <<target, inode, dirLock, cur>>
          /\ dent' = [dent EXCEPT ![cur[t].d].ln = cur[t].n, ![cur[t].d].path = TRUE]
      BY Zenon, <1>8, <2>2 DEF LookupNegative, lockVars
    <3>2. cur[t].n \in Names /\ cur[t].d \in Dentries
      BY <1>d, <3>1 DEF DirPcs, LookPcs
    <3>3. dent' \in [Dentries -> Dentry]
      BY Zenon, <3>1, <3>2, DentryUpdates
    <3> QED
      BY Zenon, <3>1, <3>3 DEF PCs
  <2> QED
    BY Zenon, <2>1, <2>2
<1>9. ASSUME NEW t \in Tasks, IgetFound(t) \/ IgetNew(t) PROVE CoreType'
  <2>1. PICK s \in Slots : /\ cur' = [cur EXCEPT ![t].s = s]
                           /\ inode' \in {inode, [inode EXCEPT ![s].st = "new"]}
    BY <1>9 DEF IgetFound, IgetNew, Matches
  <2>2. cur' \in [Tasks -> Call]
    BY Zenon, <1>c, <2>1
  <2>3. inode' \in [Slots -> Inode]
    BY <2>1 DEF Inode
  <2> QED
    BY Zenon, <1>9, <2>2, <2>3 DEF IgetFound, IgetNew, Goto, lockVars, PCs
<1>10. ASSUME NEW t \in Tasks, IgetNoMemory(t) PROVE CoreType'
  BY Zenon, <1>10 DEF IgetNoMemory, Goto, lockVars, PCs
<1>11. ASSUME NEW t \in Tasks, IgetInit(t) PROVE CoreType'
  <2>1. /\ pc[t] = "ig_init" /\ pc' = [pc EXCEPT ![t] = "ig_add"]
        /\ UNCHANGED <<target, dent, dirLock, cur>>
        /\ inode' = [inode EXCEPT ![cur[t].s] = [st |-> "live",
                                                 l |-> dent[cur[t].d].l]]
    BY Zenon, <1>11 DEF IgetInit, Goto, lockVars
  <2>2. dent[cur[t].d].l \in LowerInodes
    BY <2>1 DEF OwnInv, StageOK, IgetPcs
  <2> QED
    BY Zenon, <2>1, <2>2 DEF PCs, Inode
<1>12. ASSUME NEW t \in Tasks, Interpose(t) PROVE CoreType'
  <2>1. UNCHANGED <<target, inode>>
    BY <1>12 DEF Interpose
  <2>2. dent' \in [Dentries -> Dentry]
    <3>1. pc[t] = "ig_add" /\ cur[t].s \in Slots \cup {NULL}
      BY Zenon, <1>12 DEF Interpose, Call
    <3>2. cur[t].d \in Dentries
      BY <1>d, <3>1 DEF DirPcs, IgetPcs
    <3> QED
      BY Zenon, <1>12, <3>1, <3>2, DentryUpdates DEF Interpose
  <2>3. CASE Finish(t)
    BY Zenon, <1>3, <2>1, <2>2, <2>3
  <2>4. CASE ~ Finish(t)
    BY <1>12, <2>1, <2>2, <2>4 DEF Interpose, PCs
  <2> QED
    BY <2>3, <2>4
<1>13. ASSUME NEW t \in Tasks, InterposeFails(t) PROVE CoreType'
  <2>1. CASE LookupFails(t)
    BY <1>5, <2>1
  <2>2. CASE ~ LookupFails(t)
    BY Zenon, <1>13, <1>c, <2>2 DEF InterposeFails, PCs, lockVars
  <2> QED
    BY <2>1, <2>2
<1>14. ASSUME NEW t \in Tasks, \/ RenameRefused(t) \/ OpFails(t)
                               \/ OpWantWrite(t) \/ OpWantNewWrite(t)
       PROVE  CoreType'
  BY Zenon, <1>14, <1>c DEF RenameRefused, OpFails, OpWantWrite, OpWantNewWrite,
                     WantNext, Goto, lockVars, PCs
<1>15. ASSUME NEW t \in Tasks, \/ OpLock(t) \/ OpUnlinkBug(t) \/ OpDropWrite(t)
                               \/ OpUnlock(t)
       PROVE  CoreType'
  BY <1>15 DEF OpLock, OpUnlinkBug, OpDropWrite, OpUnlock, Goto, lockVars, PCs
<1>16. ASSUME NEW t \in Tasks, OpMake(t), cur[t].op \in MakeOps PROVE CoreType'
  <2>1. /\ pc[t] = "op_do" /\ pc' = [pc EXCEPT ![t] = "ig_find"]
        /\ UNCHANGED <<inode, dirLock, cur>>
    BY <1>16 DEF OpMake, Goto, lockVars
  <2>2. PICK l \in NewTargets(cur[t]) :
          /\ target' = [target EXCEPT ![dent[cur[t].d].ln] = l]
          /\ dent' = [dent EXCEPT ![cur[t].d].l = l]
    BY Zenon, <1>16 DEF OpMake
  <2>3. cur[t].op = "link" => cur[t].e \in Dentries /\ dent[cur[t].e].st \in InUse
    BY <2>1 DEF OwnInv, CallOK, DirPcs, OpPcs
  <2>4. cur[t].op = "link" => dent[cur[t].e].l \in LowerInodes
    BY Zenon, <2>3 DEF OwnInv, DentOK
  <2>5. l \in LowerInodes
    BY <2>4 DEF NewTargets
  <2>6. dent' \in [Dentries -> Dentry]
    <3>1. cur[t].d \in Dentries
      BY <1>d, <2>1 DEF DirPcs, OpPcs
    <3> QED
      BY Zenon, <2>2, <2>5, <3>1, DentryUpdates
  <2> QED
    BY Zenon, <2>1, <2>2, <2>5, <2>6 DEF PCs
<1>17. ASSUME NEW t \in Tasks, OpUnlink(t) \/ OpRmdir(t) PROVE CoreType'
  <2>1. /\ pc[t] = "op_do" /\ pc' = [pc EXCEPT ![t] = "op_out"]
        /\ target' = [target EXCEPT ![dent[cur[t].d].ln] = NULL]
        /\ dent' = [dent EXCEPT ![cur[t].d].st = "unhashed"]
        /\ UNCHANGED <<inode, dirLock, cur>>
    BY Zenon, <1>17 DEF OpUnlink, OpRmdir, Goto, lockVars
  <2>2. cur[t].d \in Dentries
    BY <1>d, <2>1 DEF DirPcs, OpPcs
  <2>3. dent' \in [Dentries -> Dentry]
    BY Zenon, <2>1, <2>2, DentryUpdates
  <2> QED
    BY Zenon, <2>1, <2>3 DEF PCs
<1>18. ASSUME NEW t \in Tasks, OpRename(t) PROVE CoreType'
  <2>1. /\ pc[t] = "op_do" /\ pc' = [pc EXCEPT ![t] = "op_out"]
        /\ cur[t].op = "rename" /\ UNCHANGED <<inode, dirLock, cur>>
    BY Zenon, <1>18 DEF OpRename, Goto, lockVars
  <2>2. cur[t].d \in Dentries /\ cur[t].e \in Dentries
    BY Zenon, <2>1 DEF OwnInv, CallOK, DirPcs, OpPcs
  <2>3. /\ dent[cur[t].e].l \in LowerInodes \cup {NULL}
        /\ dent[cur[t].e].ln \in Names \cup {NULL}
        /\ dent[cur[t].d].ln \in Names \cup {NULL}
    BY Zenon, <2>2 DEF Dentry
  <2>4. dent' \in [Dentries -> Dentry]
    <3>1. PICK d \in Dentries, e \in Dentries :
            \/ dent' = dent
            \/ dent' = [dent EXCEPT ![d].ln = dent[e].ln, ![e].ln = dent[d].ln]
      BY Zenon, <1>18, <2>2 DEF OpRename
    <3>2. dent[e].ln \in Names \cup {NULL} /\ dent[d].ln \in Names \cup {NULL}
      BY Zenon DEF Dentry
    <3>3. [dent EXCEPT ![d].ln = dent[e].ln] \in [Dentries -> Dentry]
      BY Zenon, <3>2, DentryUpdates
    <3> QED
      <4>1. [dent EXCEPT ![d].ln = dent[e].ln, ![e].ln = dent[d].ln]
              \in [Dentries -> Dentry]
        BY Zenon, <3>2, <3>3, DentryUpdates
      <4> QED
        BY Zenon, <3>1, <4>1
  <2>5. target' \in [Names -> LowerInodes \cup {NULL}]
    BY <1>18, <2>3 DEF OpRename
  <2> QED
    BY Zenon, <2>1, <2>4, <2>5 DEF PCs
<1>19. ASSUME NEW t \in Tasks, OpReturn(t) PROVE CoreType'
  <2>1. pc[t] = "op_return" /\ Finish(t) /\ UNCHANGED <<target, inode>>
    BY Zenon, <1>19 DEF OpReturn
  <2>2. /\ cur[t].d \in Dentries /\ cur[t].n \in Names
        /\ cur[t].op = "rename" => cur[t].e \in Dentries
    BY <2>1 DEF OwnInv, CallOK, DirPcs, OpPcs
  <2> DEFINE moved == IF cur[t].op = "rename" /\ cur[t].ok
                      THEN [dent EXCEPT ![cur[t].e].n = cur[t].n,
                                        ![cur[t].d].n = dent[cur[t].e].n,
                                        ![cur[t].d].st = "unhashed"]
                      ELSE dent
  <2>4. dent' = moved \/ dent' = [moved EXCEPT ![cur[t].d] = FreeDentry]
    BY Zenon, <1>19 DEF OpReturn
  <2>5. moved \in [Dentries -> Dentry]
    <3>1. CASE cur[t].op = "rename"
      <4>1. dent[cur[t].e].n \in Names \cup {NULL}
        BY Zenon, <2>2, <3>1 DEF Dentry
      <4>2. [dent EXCEPT ![cur[t].e].n = cur[t].n] \in [Dentries -> Dentry]
        BY Zenon, <2>2, <3>1, DentryUpdates
      <4> QED
        <5>1. PICK g : /\ g = [dent EXCEPT ![cur[t].e].n = cur[t].n]
                       /\ g \in [Dentries -> Dentry]
          BY Zenon, <4>2
        <5>2. [g[cur[t].d] EXCEPT !.n = dent[cur[t].e].n, !.st = "unhashed"] \in Dentry
          BY Zenon, <2>2, <4>1, <5>1, DentryUpdates
        <5>3. [g EXCEPT ![cur[t].d] = [@ EXCEPT !.n = dent[cur[t].e].n,
                                               !.st = "unhashed"]]
                \in [Dentries -> Dentry]
          BY <2>2, <5>1, <5>2
        <5>4. [dent EXCEPT ![cur[t].e].n = cur[t].n,
                           ![cur[t].d].n = dent[cur[t].e].n,
                           ![cur[t].d].st = "unhashed"] =
              [g EXCEPT ![cur[t].d] = [@ EXCEPT !.n = dent[cur[t].e].n,
                                               !.st = "unhashed"]]
          BY Zenon, <2>2, <5>1
        <5> QED
          BY Zenon, <5>3, <5>4
    <3> QED
      BY <3>1
  <2> HIDE DEF moved
  <2>3. dent' \in [Dentries -> Dentry]
    BY Zenon, <2>2, <2>4, <2>5, DentryUpdates
  <2> QED
    BY <1>3, <2>1, <2>3
<1>20. ASSUME NEW t \in Tasks, OpenCheck(t) \/ OpenLower(t) PROVE CoreType'
  BY Zenon, <1>20, <1>c DEF OpenCheck, OpenLower, OpenReturn, lockVars, PCs
<1>21. ASSUME NEW d \in Dentries, FileRelease(d) \/ DentryKill(d) \/ DentryRelease(d)
       PROVE  CoreType'
  <2>1. CASE FileRelease(d) \/ DentryRelease(d)
    BY Zenon, <1>4, <2>1 DEF FileRelease, DentryRelease, lockVars
  <2>2. CASE DentryKill(d)
    <3>1. dent' \in [Dentries -> Dentry]
      BY Zenon, <2>2, DentryUpdates DEF DentryKill
    <3>2. inode' \in [Slots -> Inode]
      BY Zenon, <2>2 DEF DentryKill, Inode
    <3> QED
      BY <2>2, <3>1, <3>2 DEF DentryKill, lockVars
  <2> QED
    BY Zenon, <1>21, <2>1, <2>2
<1>22. ASSUME NEW s \in Slots, EvictInode(s) \/ DestroyInode(s) PROVE CoreType'
  BY <1>22 DEF EvictInode, DestroyInode, lockVars, Inode, FreeInode
<1> QED
  BY Zenon, <1>1, <1>2, <1>6, <1>7, <1>8, <1>9, <1>10, <1>11, <1>12, <1>13, <1>14,
     <1>15, <1>16, <1>17, <1>18, <1>19, <1>20, <1>21, <1>22
  DEF Next, Continue, OpCreate, OpMknod, OpSymlink, OpMkdir, OpLink, MakeOps

-----------------------------------------------------------------------------
(***************************************************************************)
(* What a step of one task leaves alone.                                   *)
(***************************************************************************)
\* The dentries a task may change: those of its directory operation, and one
\* it has just allocated.
Mine(t, d) ==
  \/ dent[d].st = "free"
  \/ pc[t] \in DirPcs /\ d = cur[t].d
  \/ pc[t] \in DirPcs /\ cur[t].op = "rename" /\ d = cur[t].e

Local(t) ==
  /\ \A u \in Tasks \ {t} : pc'[u] = pc[u] /\ cur'[u] = cur[u]
  /\ \A i \in Dirs, u \in Tasks \ {t} : dirLock[i] = u => dirLock'[i] = u
  /\ \A d \in Dentries : dent'[d] # dent[d] =>
       Mine(t, d) /\ (dent[d].st \in InUse => dent'[d].st \in InUse)

\* Two directory operations are on different dentries, since the VFS holds
\* the directories of both.
LEMMA Apart ==
  ASSUME OwnInv, NEW t \in Tasks, NEW u \in Tasks, t # u, pc[u] \in DirPcs,
         NEW d \in Dentries, Mine(t, d)
  PROVE  /\ cur[u].d # d
         /\ cur[u].op = "rename" => cur[u].e # d
<1>1. CallOK(u) /\ CallOK(t)
  BY DEF OwnInv
<1>2. /\ dirLock[DirOf[dent[cur[u].d].n]] = u
      /\ dent[cur[u].d].st # "free"
      /\ cur[u].op = "rename" => /\ dirLock[DirOf[dent[cur[u].e].n]] = u
                                 /\ dent[cur[u].e].st # "free"
  BY Zenon, <1>1 DEF CallOK, InUse
<1>3. dent[d].st = "free" \/ dirLock[DirOf[dent[d].n]] = t
  BY Zenon, <1>1 DEF CallOK, Mine
<1> QED
  BY <1>2, <1>3

\* What holds of the call of a task that does not move stays true.
LEMMA Others ==
  ASSUME OwnInv, NEW U \in SUBSET Tasks,
         \A u \in U : pc'[u] = pc[u] /\ cur'[u] = cur[u],
         \A u \in U, i \in Dirs : dirLock[i] = u => dirLock'[i] = u,
         \A u \in U : pc[u] \in DirPcs =>
           /\ dent'[cur[u].d] = dent[cur[u].d]
           /\ cur[u].op = "rename" => dent'[cur[u].e] = dent[cur[u].e],
         \A u \in U, d \in Dentries :
           d \in {cur[u].d, cur[u].e} /\ dent[d].st \in InUse =>
             dent'[d].st \in InUse
  PROVE  \A u \in U : CallOK(u)' /\ StageOK(u)'
<1> SUFFICES ASSUME NEW u \in U PROVE CallOK(u)' /\ StageOK(u)'
  BY Zenon
<1>1. CallOK(u) /\ StageOK(u) /\ CoreType
  BY Zenon DEF OwnInv
<1>2. pc'[u] = pc[u] /\ cur'[u] = cur[u]
  BY Zenon
<1>3. pc[u] \in DirPcs =>
        /\ DirOf[cur[u].n] \in Dirs
        /\ cur[u].op = "rename" => DirOf[dent[cur[u].e].n] \in Dirs
  <2>1. SUFFICES ASSUME pc[u] \in DirPcs, cur[u].op = "rename"
                 PROVE  dent[cur[u].e].n \in Names
    BY <1>1, InodeAssumption DEF CallOK
  <2>2. cur[u].e \in Dentries /\ dent[cur[u].e].st = "hashed"
    BY Zenon, <1>1, <2>1 DEF CallOK
  <2> QED
    BY Zenon, <2>2 DEF OwnInv, DentOK, InUse
<1>4. CallOK(u)'
  <2>1. pc[u] \in OpenPcs => dent'[cur[u].d].st \in InUse
    BY Zenon, <1>1 DEF CallOK
  <2>2. pc[u] \in DirPcs /\ cur[u].op = "link" => dent'[cur[u].e].st \in InUse
    BY <1>1 DEF CallOK
  <2>3. pc[u] \in DirPcs => /\ dirLock'[DirOf[cur[u].n]] = u
                            /\ cur[u].op = "rename" =>
                                 dirLock'[DirOf[dent[cur[u].e].n]] = u
    BY Zenon, <1>1, <1>3 DEF CallOK
  <2> QED
    BY Zenon, <1>1, <1>2, <2>1, <2>2, <2>3 DEF CallOK
<1>5. StageOK(u)'
  <2>1. pc[u] \in DirPcs => dent'[cur[u].d] = dent[cur[u].d]
    BY Zenon
  <2> QED
    BY Zenon, <1>1, <1>2, <2>1 DEF StageOK, DirPcs, LookPcs, IgetPcs, OpPcs
<1> QED
  BY Zenon, <1>4, <1>5

\* A step of a task changes only its own call, its own dentries and directory
\* locks nobody else has.
LEMMA LocalStep ==
  ASSUME OwnInv, NEW t \in Tasks, StartCall(t) \/ Continue(t)
  PROVE  Local(t)
<1>0. /\ dent \in [Dentries -> Dentry] /\ pc \in [Tasks -> PCs]
      /\ cur \in [Tasks -> Call] /\ dirLock \in [Dirs -> Tasks \cup {NoTask}]
  BY DEF OwnInv, CoreType
<1> USE <1>0
<1>c. CallOK(t) /\ StageOK(t) /\ (cur[t].d \in Dentries => DentOK(cur[t].d))
  BY DEF OwnInv
<1>a. ASSUME NEW p, pc' = [pc EXCEPT ![t] = p],
             \/ cur' = cur \/ \E c : cur' = [cur EXCEPT ![t] = c]
             \/ \E s : cur' = [cur EXCEPT ![t].s = s]
             \/ cur' = [cur EXCEPT ![t].ok = FALSE]
             \/ cur' = [cur EXCEPT ![t].op = "lookup", ![t].e = NULL]
      PROVE  \A u \in Tasks \ {t} : pc'[u] = pc[u] /\ cur'[u] = cur[u]
  BY <1>a
<1>b. ASSUME pc[t] \in DirPcs, Finish(t)
      PROVE  \A i \in Dirs, u \in Tasks \ {t} : dirLock[i] = u => dirLock'[i] = u
  <2>1. \A i \in UpperDirs(cur[t]) : dirLock[i] = t
    BY Zenon, <1>b, <1>c DEF CallOK, UpperDirs
  <2> QED
    BY Zenon, <1>b, <2>1 DEF Finish
<1>d. ASSUME NEW c, LockDirs(t, c)
      PROVE  \A i \in Dirs, u \in Tasks \ {t} : dirLock[i] = u => dirLock'[i] = u
  BY Zenon, <1>d, InodeAssumption DEF LockDirs
<1>1. CASE LookupBegin(t)
  <2>1. PICK op \in MakeOps \cup {"lookup", "rename"}, n \in Names,
               d \in Dentries, e \in Dentries \cup {NULL} :
                 LookupFor(t, op, n, d, e)
    BY Zenon, <1>1 DEF LookupBegin
  <2>2. \A u \in Tasks \ {t} : pc'[u] = pc[u] /\ cur'[u] = cur[u]
    BY Zenon, <1>a, <2>1 DEF LookupFor, Begin, Goto
  <2>3. \A i \in Dirs, u \in Tasks \ {t} : dirLock[i] = u => dirLock'[i] = u
    BY Zenon, <1>d, <2>1 DEF LookupFor
  <2>4. dent[d].st = "free" /\ \A x \in Dentries \ {d} : dent'[x] = dent[x]
    BY <2>1 DEF LookupFor
  <2> QED
    BY Zenon, <2>2, <2>3, <2>4 DEF Local, Mine, InUse
<1>2. CASE RemoveBegin(t) \/ RenameBegin(t)
  <2>1. PICK c : Begin(t, c, "op_lock") /\ LockDirs(t, c) /\ dent' = dent
    BY Zenon, <1>2 DEF RemoveBegin, RenameBegin
  <2>2. \A u \in Tasks \ {t} : pc'[u] = pc[u] /\ cur'[u] = cur[u]
    BY Zenon, <1>a, <2>1 DEF Begin, Goto
  <2>3. \A i \in Dirs, u \in Tasks \ {t} : dirLock[i] = u => dirLock'[i] = u
    BY Zenon, <1>d, <2>1
  <2> QED
    BY <2>1, <2>2, <2>3 DEF Local
<1>3. CASE OpenBegin(t) \/ OpenCheck(t) \/ OpenLower(t)
  <2>1. UNCHANGED <<dent, dirLock>>
    BY Zenon, <1>3 DEF OpenBegin, OpenCheck, OpenLower, lockVars
  <2>2. \A u \in Tasks \ {t} : pc'[u] = pc[u] /\ cur'[u] = cur[u]
    BY Zenon, <1>3 DEF OpenBegin, OpenCheck, OpenLower, OpenReturn, Begin, Goto
  <2> QED
    BY <2>1, <2>2 DEF Local
<1>4. ASSUME pc[t] \in LookPcs \cup {"ig_fail"}, LookupFails(t) PROVE Local(t)
  <2>1. dent[cur[t].d].st = "fresh" /\ cur[t].d \in Dentries /\ pc[t] \in DirPcs
    BY Zenon, <1>c, <1>4 DEF StageOK, CallOK, DirPcs, LookPcs, IgetPcs
  <2>2. \A u \in Tasks \ {t} : pc'[u] = pc[u] /\ cur'[u] = cur[u]
    BY Zenon, <1>4 DEF LookupFails, Finish
  <2>3. \A x \in Dentries \ {cur[t].d} : dent'[x] = dent[x]
    BY Zenon, <1>4 DEF LookupFails, Release
  <2>4. Finish(t)
    BY Zenon, <1>4 DEF LookupFails
  <2> QED
    BY Zenon, <1>b, <2>1, <2>2, <2>3, <2>4 DEF Local, Mine, InUse
<1>5. ASSUME pc[t] \in DirPcs, UNCHANGED <<dent, dirLock>>,
             \A u \in Tasks \ {t} : pc'[u] = pc[u] /\ cur'[u] = cur[u]
      PROVE  Local(t)
  BY Zenon, <1>5 DEF Local
<1>6. CASE LookupInfo(t) \/ LookupError(t)
  BY Zenon, <1>4, <1>5, <1>6 DEF LookupInfo, LookupError, lockVars, LookPcs, DirPcs
<1>7. ASSUME pc[t] \in DirPcs, UNCHANGED dirLock,
             \A u \in Tasks \ {t} : pc'[u] = pc[u] /\ cur'[u] = cur[u],
             \A x \in Dentries \ {cur[t].d} : dent'[x] = dent[x],
             dent[cur[t].d].st \in InUse => dent'[cur[t].d].st \in InUse
      PROVE  Local(t)
  BY <1>7 DEF Local, Mine
<1>8. CASE LookupPositive(t) \/ LookupNegative(t)
  <2>1. CASE LookupFails(t)
    BY Zenon, <1>4, <1>8, <2>1 DEF LookupPositive, LookupNegative, Goto, LookPcs
  <2>2. CASE ~ LookupFails(t)
    <3>1. pc[t] \in DirPcs /\ UNCHANGED dirLock
      BY Zenon, <1>8, <2>2 DEF LookupPositive, LookupNegative, Goto, lockVars, LookPcs,
                        DirPcs
    <3>2. \A u \in Tasks \ {t} : pc'[u] = pc[u] /\ cur'[u] = cur[u]
      BY Zenon, <1>8, <2>2 DEF LookupPositive, LookupNegative, Goto
    <3>3. \A x \in Dentries \ {cur[t].d} : dent'[x] = dent[x]
      BY Zenon, <1>8, <2>2 DEF LookupPositive, LookupNegative
    <3>4. dent[cur[t].d].st \notin InUse
      BY Zenon, <1>8, <1>c DEF LookupPositive, LookupNegative, Goto, StageOK, LookPcs,
                        InUse
    <3> QED
      BY Zenon, <1>7, <3>1, <3>2, <3>3, <3>4
  <2> QED
    BY Zenon, <2>1, <2>2
<1>9. CASE IgetFound(t) \/ IgetNew(t) \/ IgetNoMemory(t) \/ IgetInit(t)
  <2>1. pc[t] \in DirPcs /\ UNCHANGED <<dent, dirLock>>
    BY Zenon, <1>9 DEF IgetFound, IgetNew, IgetNoMemory, IgetInit, Goto, lockVars, DirPcs,
                IgetPcs
  <2>2. \A u \in Tasks \ {t} : pc'[u] = pc[u] /\ cur'[u] = cur[u]
    BY Zenon, <1>9 DEF IgetFound, IgetNew, IgetNoMemory, IgetInit, Goto
  <2> QED
    BY Zenon, <1>5, <2>1, <2>2
<1>10. CASE Interpose(t)
  <2>1. /\ pc[t] = "ig_add"
        /\ dent' = [dent EXCEPT ![cur[t].d].st = "hashed",
                                ![cur[t].d].ino = cur[t].s]
        /\ Finish(t) \/ UNCHANGED dirLock
    BY Zenon, <1>10 DEF Interpose
  <2>2. pc[t] \in DirPcs /\ cur[t].d \in Dentries
    BY Zenon, <2>1, <1>c DEF DirPcs, IgetPcs, CallOK
  <2>3. \A u \in Tasks \ {t} : pc'[u] = pc[u] /\ cur'[u] = cur[u]
    BY <1>10 DEF Interpose, Finish
  <2>4. /\ \A x \in Dentries \ {cur[t].d} : dent'[x] = dent[x]
        /\ dent'[cur[t].d].st \in InUse
    BY <2>1, <2>2 DEF InUse
  <2> QED
    BY Zenon, <1>b, <2>1, <2>2, <2>3, <2>4 DEF Local, Mine
<1>11. CASE InterposeFails(t)
  <2>1. CASE LookupFails(t)
    BY <1>4, <1>11, <2>1 DEF InterposeFails
  <2>2. CASE ~ LookupFails(t)
    BY Zenon, <1>5, <1>11, <2>2 DEF InterposeFails, lockVars, DirPcs, IgetPcs
  <2> QED
    BY <2>1, <2>2
<1>12. CASE \/ RenameRefused(t) \/ OpLock(t) \/ OpWantWrite(t)
            \/ OpWantNewWrite(t) \/ OpUnlinkBug(t) \/ OpFails(t)
            \/ OpDropWrite(t) \/ OpUnlock(t)
  <2>1. pc[t] \in DirPcs /\ UNCHANGED <<dent, dirLock>>
    BY Zenon, <1>12 DEF RenameRefused, OpLock, OpWantWrite, OpWantNewWrite, OpUnlinkBug,
         OpFails, OpDropWrite, OpUnlock, Goto, lockVars, DirPcs, OpPcs
  <2>2. \A u \in Tasks \ {t} : pc'[u] = pc[u] /\ cur'[u] = cur[u]
    BY <1>12 DEF RenameRefused, OpLock, OpWantWrite, OpWantNewWrite, OpUnlinkBug,
         OpFails, OpDropWrite, OpUnlock, Goto
  <2> QED
    BY <1>5, <2>1, <2>2
<1>13. CASE OpMake(t)
  <2>1. /\ pc[t] \in DirPcs /\ UNCHANGED <<dirLock, cur>>
        /\ pc' = [pc EXCEPT ![t] = "ig_find"]
        /\ \E l : dent' = [dent EXCEPT ![cur[t].d].l = l]
    BY Zenon, <1>13 DEF OpMake, Goto, lockVars, DirPcs, OpPcs
  <2>2. cur[t].d \in Dentries
    BY Zenon, <1>c, <2>1 DEF CallOK
  <2> QED
    BY <1>7, <2>1, <2>2
<1>14. CASE OpUnlink(t) \/ OpRmdir(t)
  <2>1. /\ pc[t] \in DirPcs /\ UNCHANGED <<dirLock, cur>>
        /\ pc' = [pc EXCEPT ![t] = "op_out"]
        /\ dent' = [dent EXCEPT ![cur[t].d].st = "unhashed"]
    BY Zenon, <1>14 DEF OpUnlink, OpRmdir, Goto, lockVars, DirPcs, OpPcs
  <2>2. cur[t].d \in Dentries
    BY Zenon, <1>c, <2>1 DEF CallOK
  <2> QED
    BY <1>7, <2>1, <2>2 DEF InUse
<1>15. CASE OpRename(t)
  <2>1. /\ pc[t] \in DirPcs /\ UNCHANGED <<dirLock, cur>> /\ cur[t].op = "rename"
        /\ pc' = [pc EXCEPT ![t] = "op_out"]
        /\ \/ dent' = dent
           \/ dent' = Below(cur[t].d, cur[t].e, dent[cur[t].e].ln,
                            dent[cur[t].d].ln)
    BY <1>15 DEF OpRename, Goto, lockVars, DirPcs, OpPcs, Below
  <2>2. cur[t].d \in Dentries /\ cur[t].e \in Dentries
    BY Zenon, <1>c, <2>1 DEF CallOK
  <2>4. /\ dent[cur[t].e].ln \in Names \cup {NULL}
        /\ dent[cur[t].d].ln \in Names \cup {NULL} /\ cur[t].d # cur[t].e
    BY Zenon, <1>c, <2>1, <2>2 DEF Dentry, CallOK
  <2>3. /\ \A x \in Dentries \ {cur[t].d, cur[t].e} : dent'[x] = dent[x]
        /\ \A x \in Dentries : dent'[x].st = dent[x].st
    <3>1. PICK a \in Names \cup {NULL}, b \in Names \cup {NULL}, d \in Dentries,
               e \in Dentries :
            /\ a = dent[cur[t].e].ln /\ b = dent[cur[t].d].ln
            /\ d = cur[t].d /\ e = cur[t].e /\ d # e
      BY <2>2, <2>4
    <3>2. d # e
      BY Zenon, <3>1
    <3> DEFINE g == Below(d, e, a, b)
    <3>3. /\ \A x \in Dentries \ {d, e} : g[x] = dent[x]
          /\ \A x \in Dentries : g[x].st = dent[x].st
      BY <3>2, RenamedBelow
    <3> HIDE DEF g
    <3>4. dent' = dent \/ dent' = g
      BY Zenon, <2>1, <3>1 DEF g
    <3> QED
      BY Zenon, <3>1, <3>3, <3>4
  <2> QED
    BY Zenon, <2>1, <2>2, <2>3 DEF Local, Mine
<1>16. CASE OpReturn(t)
  <2>1. pc[t] \in DirPcs /\ Finish(t)
    BY <1>16 DEF OpReturn, DirPcs, OpPcs
  <2>2. cur[t].d \in Dentries /\ (cur[t].op = "rename" => cur[t].e \in Dentries)
    BY Zenon, <1>c, <2>1 DEF CallOK
  <2>3. dent[cur[t].d].ino = NULL => dent[cur[t].d].st \notin InUse
    BY Zenon, <1>c, <2>2, InodeAssumption DEF DentOK
  <2> DEFINE moved == IF cur[t].op = "rename" /\ cur[t].ok
                      THEN Above(cur[t].d, cur[t].e, dent[cur[t].e].n,
                                 cur[t].n)
                      ELSE dent
  <2>7. \/ dent[cur[t].d].ino # NULL /\ dent' = moved
        \/ dent[cur[t].d].ino = NULL
             /\ dent' = [moved EXCEPT ![cur[t].d] = FreeDentry]
    BY Zenon, <1>16 DEF OpReturn, Above
  <2>8. /\ \A x \in Dentries \ {cur[t].d} :
             /\ moved[x].st = dent[x].st
             /\ \/ cur[t].op = "rename" /\ x = cur[t].e
                \/ moved[x] = dent[x]
        /\ dent[cur[t].d].st \in InUse => moved[cur[t].d].st \in InUse
    <3>1. CASE cur[t].op = "rename"
      <4>1. /\ dent[cur[t].e].n \in Names \cup {NULL}
            /\ cur[t].n \in Names \cup {NULL} /\ cur[t].d # cur[t].e
        BY Zenon, <1>c, <2>1, <2>2, <3>1 DEF Dentry, CallOK
      <4>2. PICK a \in Names \cup {NULL}, b \in Names \cup {NULL},
                 d \in Dentries, e \in Dentries :
              /\ a = dent[cur[t].e].n /\ b = cur[t].n
              /\ d = cur[t].d /\ e = cur[t].e /\ d # e
        BY <2>2, <3>1, <4>1
      <4>3. d # e
        BY Zenon, <4>2
      <4> DEFINE g == Above(d, e, a, b)
      <4>m. MovedOnto(g, d, e, a, b)
        BY Zenon, <4>3, RenamedAbove
      <4> HIDE DEF g
      <4>4. /\ g[d].st = "unhashed"
            /\ \A x \in Dentries \ {d, e} : g[x] = dent[x]
            /\ \A x \in Dentries \ {d} : g[x].st = dent[x].st
        BY Zenon, <4>m DEF MovedOnto
      <4>5. moved = dent \/ moved = g
        BY <4>2 DEF g
      <4> HIDE DEF moved
      <4> QED
        BY Zenon, <3>1, <4>2, <4>4, <4>5 DEF InUse
    <3> QED
      BY Zenon, <3>1
  <2> HIDE DEF moved
  <2>9. DOMAIN moved = Dentries
    BY Zenon DEF moved, Above
  <2>4. \A x \in Dentries \ {cur[t].d} :
          /\ dent'[x].st = dent[x].st
          /\ (cur[t].op = "rename" /\ x = cur[t].e) \/ dent'[x] = dent[x]
    BY Zenon, <2>2, <2>7, <2>8, <2>9
  <2>5. dent[cur[t].d].st \in InUse => dent'[cur[t].d].st \in InUse
    BY Zenon, <2>2, <2>3, <2>7, <2>8, <2>9
  <2>6. \A u \in Tasks \ {t} : pc'[u] = pc[u] /\ cur'[u] = cur[u]
    BY Zenon, <2>1 DEF Finish
  <2> QED
    BY Zenon, <1>b, <2>1, <2>2, <2>4, <2>5, <2>6 DEF Local, Mine
<1> QED
  BY Zenon, <1>1, <1>2, <1>3, <1>6, <1>8, <1>9, <1>10, <1>11, <1>12, <1>13, <1>14, <1>15,
     <1>16 DEF StartCall, Continue, OpCreate, OpMknod, OpSymlink, OpMkdir, OpLink

\* The calls of the other tasks are not affected.
LEMMA OthersLocal ==
  ASSUME OwnInv, NEW t \in Tasks, Local(t)
  PROVE  \A u \in Tasks \ {t} : CallOK(u)' /\ StageOK(u)'
<1> DEFINE U == Tasks \ {t}
<1>1. \A u \in U : pc'[u] = pc[u] /\ cur'[u] = cur[u]
  BY DEF Local
<1>2. \A u \in U, i \in Dirs : dirLock[i] = u => dirLock'[i] = u
  BY DEF Local
<1>3. \A u \in U, d \in Dentries :
        d \in {cur[u].d, cur[u].e} /\ dent[d].st \in InUse => dent'[d].st \in InUse
  BY Zenon DEF Local
<1>4. ASSUME NEW u \in U, pc[u] \in DirPcs
      PROVE  /\ dent'[cur[u].d] = dent[cur[u].d]
             /\ cur[u].op = "rename" => dent'[cur[u].e] = dent[cur[u].e]
  <2>1. cur[u].d \in Dentries /\ (cur[u].op = "rename" => cur[u].e \in Dentries)
    BY Zenon, <1>4 DEF OwnInv, CallOK
  <2>2. ~ Mine(t, cur[u].d) /\ (cur[u].op = "rename" => ~ Mine(t, cur[u].e))
    BY Zenon, <1>4, <2>1, Apart
  <2> QED
    BY Zenon, <2>1, <2>2 DEF Local
<1> QED
  BY Zenon, <1>1, <1>2, <1>3, <1>4, Others

\* Nor is any by a step of the VFS on a dentry that no call has.
LEMMA OthersReclaim ==
  ASSUME OwnInv, NEW d \in Dentries,
         \/ dent[d].st = "dying"
         \/ ~ Pinned(d),
         UNCHANGED <<pc, cur, dirLock>>,
         \A x \in Dentries \ {d} : dent'[x] = dent[x]
  PROVE  \A u \in Tasks : CallOK(u)' /\ StageOK(u)'
<1>1. ASSUME NEW u \in Tasks, pc[u] \in DirPcs
      PROVE  /\ cur[u].d \in Dentries \ {d}
             /\ cur[u].op = "rename" => cur[u].e \in Dentries \ {d}
  BY Zenon, <1>1 DEF OwnInv, CallOK, InUse, Pinned
<1>2. \A u \in Tasks, x \in Dentries :
        x \in {cur[u].d, cur[u].e} /\ dent[x].st \in InUse => dent'[x].st \in InUse
  BY Zenon DEF Pinned, InUse
<1>3. Tasks \in SUBSET Tasks
  BY Zenon
<1>4. \A u \in Tasks : pc[u] \in DirPcs =>
        /\ dent'[cur[u].d] = dent[cur[u].d]
        /\ cur[u].op = "rename" => dent'[cur[u].e] = dent[cur[u].e]
  BY Zenon, <1>1
<1> QED
  BY <1>2, <1>3, <1>4, Others

\* A task keeps what holds of its own call.
LEMMA OwnCall ==
  ASSUME OwnInv, NEW t \in Tasks, StartCall(t) \/ Continue(t)
  PROVE  CallOK(t)' /\ StageOK(t)'
<1>0. /\ dent \in [Dentries -> Dentry] /\ pc \in [Tasks -> PCs]
      /\ cur \in [Tasks -> Call] /\ dirLock \in [Dirs -> Tasks \cup {NoTask}]
  BY DEF OwnInv, CoreType
<1> USE <1>0
<1>c. CallOK(t) /\ StageOK(t)
  BY DEF OwnInv
<1>d. pc[t] \in DirPcs => /\ cur[t].d \in Dentries /\ cur[t].n \in Names
                          /\ cur[t].op \in {"link", "rename"} =>
                               cur[t].e \in Dentries \ {cur[t].d}
  BY Zenon, <1>c DEF CallOK
<1>e. ASSUME NEW d \in Dentries, dent[d].st \in InUse
      PROVE  /\ dent[d].n \in Names /\ dent[d].ln \in Names
             /\ dent[d].l \in LowerInodes /\ dent[d].path
  BY Zenon, <1>e DEF OwnInv, DentOK
<1>f. ASSUME Finish(t) \/ OpenReturn(t) PROVE CallOK(t)' /\ StageOK(t)'
  BY Zenon, <1>f DEF Finish, OpenReturn, CallOK, StageOK, DirPcs, LookPcs, IgetPcs, OpPcs,
              OpenPcs
<1>1. CASE LookupBegin(t)
  <2>1. PICK op \in MakeOps \cup {"lookup", "rename"}, n \in Names,
               d \in Dentries, e \in Dentries \cup {NULL} :
                 LookupFor(t, op, n, d, e)
    BY Zenon, <1>1 DEF LookupBegin
  <2>2. /\ pc'[t] = "lk_info" /\ cur'[t].op = op /\ cur'[t].n = n
        /\ cur'[t].d = d /\ cur'[t].e = e
    BY <2>1 DEF LookupFor, Begin, Goto, NoCall
  <2>3. /\ dent'[d].st = "fresh" /\ dent'[d].n = n /\ dent'[d].l = NULL
        /\ ~ dent'[d].path
    BY <2>1 DEF LookupFor, FreeDentry
  <2>4. /\ op \in {"link", "rename"} =>
             /\ e \in Dentries \ {d} /\ dent[e].st = "hashed" /\ dent'[e] = dent[e]
        /\ op \notin {"link", "rename"} => e = NULL
    BY Zenon, <2>1 DEF LookupFor
  <2>5. /\ dirLock'[DirOf[n]] = t
        /\ op = "rename" => dirLock'[DirOf[dent[e].n]] = t
    <3>1. DirOf[n] \in Dirs
      BY Zenon, InodeAssumption
    <3>2. op = "rename" => DirOf[dent[e].n] \in Dirs
      BY Zenon, <1>e, <2>4, InodeAssumption DEF InUse
    <3> QED
      BY Zenon, <2>1, <3>1, <3>2 DEF LookupFor, LockDirs, UpperDirs, NoCall
  <2>6. CallOK(t)'
    BY Zenon, <2>2, <2>3, <2>4, <2>5 DEF CallOK, OpenPcs, DirPcs, LookPcs, DirOps, InUse
  <2>7. StageOK(t)'
    BY Zenon, <2>2, <2>3 DEF StageOK, LookPcs, IgetPcs, OpPcs
  <2> QED
    BY Zenon, <2>6, <2>7
<1>2. CASE RemoveBegin(t)
  <2>1. PICK d \in Dentries, op \in RemoveOps :
          LET c == [NoCall EXCEPT !.op = op, !.n = dent[d].n, !.d = d] IN
          /\ dent[d].st = "hashed" /\ Begin(t, c, "op_lock") /\ LockDirs(t, c)
          /\ dent' = dent
    BY Zenon, <1>2 DEF RemoveBegin
  <2>2. /\ pc'[t] = "op_lock" /\ cur'[t].op = op /\ cur'[t].n = dent[d].n
        /\ cur'[t].d = d /\ cur'[t].e = NULL /\ dent' = dent
        /\ dent[d].st = "hashed"
    BY Zenon, <2>1 DEF Begin, Goto, NoCall
  <2>3. dirLock'[DirOf[dent[d].n]] = t
    BY <1>e, <2>1, InodeAssumption DEF LockDirs, UpperDirs, InUse, NoCall
  <2>4. CallOK(t)'
    BY Zenon, <1>e, <2>2, <2>3 DEF CallOK, OpenPcs, DirPcs, LookPcs, IgetPcs, OpPcs,
                             DirOps, RemoveOps, InUse
  <2>5. StageOK(t)'
    BY Zenon, <1>e, <2>2 DEF StageOK, LookPcs, IgetPcs, OpPcs, InUse, RemoveOps, MakeOps
  <2> QED
    BY <2>4, <2>5
<1>3. CASE RenameBegin(t)
  <2>1. PICK e \in Dentries, d \in Dentries :
          LET c == [NoCall EXCEPT !.op = "rename", !.n = dent[d].n, !.d = d,
                                  !.e = e] IN
          /\ e # d /\ dent[e].st = "hashed" /\ dent[d].st = "hashed"
          /\ Begin(t, c, "op_lock") /\ LockDirs(t, c) /\ dent' = dent
    BY Zenon, <1>3 DEF RenameBegin
  <2>2. /\ pc'[t] = "op_lock" /\ cur'[t].op = "rename"
        /\ cur'[t].n = dent[d].n /\ cur'[t].d = d /\ cur'[t].e = e /\ dent' = dent
        /\ dent[d].st = "hashed" /\ dent[e].st = "hashed" /\ e # d
    BY Zenon, <2>1 DEF Begin, Goto, NoCall
  <2>3. dirLock'[DirOf[dent[d].n]] = t /\ dirLock'[DirOf[dent[e].n]] = t
    BY <1>e, <2>1, InodeAssumption DEF LockDirs, UpperDirs, InUse, NoCall
  <2>4. CallOK(t)'
    BY Zenon, <1>e, <2>2, <2>3 DEF CallOK, OpenPcs, DirPcs, LookPcs, IgetPcs, OpPcs,
                             DirOps, InUse
  <2>5. StageOK(t)'
    BY Zenon, <1>e, <2>2 DEF StageOK, LookPcs, IgetPcs, OpPcs, InUse, RemoveOps, MakeOps
  <2> QED
    BY <2>4, <2>5
<1>4. CASE OpenBegin(t)
  <2>1. PICK d \in Dentries :
          /\ dent[d].st = "hashed" /\ dent' = dent
          /\ Begin(t, [NoCall EXCEPT !.op = "open", !.d = d], "open_check")
    BY Zenon, <1>4 DEF OpenBegin
  <2>2. /\ pc'[t] = "open_check" /\ cur'[t].op = "open" /\ cur'[t].d = d
        /\ cur'[t].e = NULL
    BY <2>1 DEF Begin, Goto, NoCall
  <2> QED
    BY <2>1, <2>2 DEF CallOK, StageOK, OpenPcs, DirPcs, LookPcs, IgetPcs, OpPcs,
                      InUse
<1>5. CASE OpenCheck(t) \/ OpenLower(t)
  <2>1. CASE OpenReturn(t)
    BY <1>f, <2>1
  <2>2. CASE ~ OpenReturn(t)
    BY Zenon, <1>5, <1>c, <2>2 DEF OpenCheck, OpenLower, CallOK, StageOK, OpenPcs, DirPcs,
                            LookPcs, IgetPcs, OpPcs
  <2> QED
    BY <2>1, <2>2
<1>6. ASSUME LookupFails(t) PROVE CallOK(t)' /\ StageOK(t)'
  BY Zenon, <1>f, <1>6 DEF LookupFails
<1>7. ASSUME pc[t] \in DirPcs, pc'[t] \in DirPcs, UNCHANGED <<dent, dirLock>>,
             cur'[t].op = cur[t].op, cur'[t].n = cur[t].n, cur'[t].d = cur[t].d,
             cur'[t].e = cur[t].e
      PROVE  CallOK(t)'
  BY Zenon, <1>7, <1>c DEF CallOK, OpenPcs, DirPcs, LookPcs, IgetPcs, OpPcs
<1>8. CASE LookupInfo(t) \/ LookupError(t)
  <2>1. CASE LookupFails(t)
    BY <1>6, <2>1
  <2>2. CASE ~ LookupFails(t)
    <3>1. /\ pc[t] = "lk_info" /\ pc'[t] = "lk_path"
          /\ UNCHANGED <<dent, dirLock, cur>>
      BY Zenon, <1>8, <2>2 DEF LookupInfo, LookupError, lockVars
    <3>2. CallOK(t)'
      BY <1>7, <3>1 DEF DirPcs, LookPcs
    <3>3. StageOK(t)'
      BY Zenon, <1>c, <3>1 DEF StageOK, LookPcs, IgetPcs, OpPcs
    <3> QED
      BY Zenon, <3>2, <3>3
  <2> QED
    BY <2>1, <2>2
<1>9. CASE LookupPositive(t)
  <2>1. /\ pc[t] = "lk_path" /\ pc'[t] = "ig_find" /\ UNCHANGED dirLock
        /\ target[cur[t].n] # NULL
    BY Zenon, <1>9 DEF LookupPositive, Goto, lockVars
  <2>2. /\ cur'[t].d = cur[t].d /\ cur'[t].n = cur[t].n
        /\ IF cur[t].op = "rename" THEN cur'[t] = cur[t]
           ELSE cur'[t].op = "lookup" /\ cur'[t].e = NULL
    BY Zenon, <1>9 DEF LookupPositive, Call
  <2>3. pc[t] \in DirPcs
    BY Zenon, <2>1 DEF DirPcs, LookPcs
  <2>4. target[cur[t].n] \in LowerInodes
    BY Zenon, <1>d, <2>1, <2>3 DEF OwnInv, CoreType
  <2>5. LET x == dent'[cur[t].d]  y == dent[cur[t].d] IN
        /\ x.st = y.st /\ x.n = y.n /\ x.l = target[cur[t].n] /\ x.ln = cur[t].n
        /\ x.path
    BY <1>9, <1>d, <2>3 DEF LookupPositive, Dentry
  <2>6. \A d \in Dentries \ {cur[t].d} : dent'[d] = dent[d]
    BY <1>9 DEF LookupPositive
  <2>7. CallOK(t)'
    <3>a. pc'[t] # "idle" /\ pc'[t] \notin OpenPcs
      BY Zenon, <2>1 DEF OpenPcs
    <3>1. CASE cur[t].op = "rename"
      <4>1. dent'[cur[t].e] = dent[cur[t].e]
        BY Zenon, <1>c, <2>3, <2>6, <3>1 DEF CallOK
      <4> QED
        BY Zenon, <1>c, <2>1, <2>2, <2>3, <2>5, <3>1, <3>a, <4>1 DEF CallOK
    <3>2. CASE cur[t].op # "rename"
      BY Zenon, <1>c, <2>1, <2>2, <2>3, <2>5, <3>2, <3>a DEF CallOK, DirOps
    <3> QED
      BY <3>1, <3>2
  <2>8. StageOK(t)'
    BY Zenon, <1>c, <2>1, <2>2, <2>4, <2>5 DEF StageOK, LookPcs, IgetPcs, OpPcs
  <2> QED
    BY <2>7, <2>8
<1>10. CASE LookupNegative(t)
  <2>1. CASE LookupFails(t)
    BY <1>6, <2>1
  <2>2. CASE ~ LookupFails(t)
    <3>1. /\ pc[t] = "lk_path" /\ pc'[t] = "op_lock" /\ UNCHANGED <<dirLock, cur>>
          /\ cur[t].op # "lookup"
          /\ dent' = [dent EXCEPT ![cur[t].d].ln = cur[t].n,
                                  ![cur[t].d].path = TRUE]
      BY Zenon, <1>10, <2>2 DEF LookupNegative, lockVars
    <3>2. pc[t] \in DirPcs
      BY Zenon, <3>1 DEF DirPcs, LookPcs
    <3>3. LET x == dent'[cur[t].d]  y == dent[cur[t].d] IN
          /\ x.st = y.st /\ x.n = y.n /\ x.l = y.l /\ x.ln = cur[t].n /\ x.path
      BY <1>d, <3>1, <3>2 DEF Dentry
    <3>4. \A d \in Dentries \ {cur[t].d} : dent'[d] = dent[d]
      BY <3>1
    <3>5. CallOK(t)'
      BY Zenon, <1>c, <1>d, <3>1, <3>2, <3>3, <3>4
      DEF CallOK, OpenPcs, DirPcs, LookPcs, IgetPcs, OpPcs, DirOps
    <3>6. StageOK(t)'
      BY Zenon, <1>c, <1>d, <3>1, <3>2, <3>3
      DEF StageOK, LookPcs, IgetPcs, OpPcs, MakeOps, RemoveOps
    <3> QED
      BY <3>5, <3>6
  <2> QED
    BY <2>1, <2>2
<1>11. CASE IgetFound(t) \/ IgetNew(t) \/ IgetNoMemory(t) \/ IgetInit(t)
  <2>1. /\ pc[t] \in IgetPcs /\ pc'[t] \in IgetPcs /\ UNCHANGED <<dent, dirLock>>
    BY Zenon, <1>11 DEF IgetFound, IgetNew, IgetNoMemory, IgetInit, Goto, lockVars, IgetPcs
  <2>2. /\ cur'[t].op = cur[t].op /\ cur'[t].n = cur[t].n
        /\ cur'[t].d = cur[t].d /\ cur'[t].e = cur[t].e
    BY <1>11 DEF IgetFound, IgetNew, IgetNoMemory, IgetInit, Call
  <2>3. CallOK(t)'
    BY Zenon, <1>7, <2>1, <2>2 DEF DirPcs
  <2>4. StageOK(t)'
    BY Zenon, <1>c, <2>1, <2>2 DEF StageOK, LookPcs, IgetPcs, OpPcs
  <2> QED
    BY <2>3, <2>4
<1>12. CASE Interpose(t)
  <2>1. CASE Finish(t)
    BY Zenon, <1>f, <2>1
  <2>2. CASE ~ Finish(t)
    <3>1. /\ pc[t] = "ig_add" /\ UNCHANGED <<dirLock, cur>>
          /\ dent' = [dent EXCEPT ![cur[t].d].st = "hashed",
                                  ![cur[t].d].ino = cur[t].s]
          /\ \/ cur[t].op = "rename" /\ pc'[t] = "op_lock"
             \/ cur[t].op \in MakeOps /\ pc'[t] = "op_out"
      BY <1>12, <2>2 DEF Interpose
    <3>2. pc[t] \in DirPcs
      BY Zenon, <3>1 DEF DirPcs, IgetPcs
    <3>3. LET x == dent'[cur[t].d]  y == dent[cur[t].d] IN
          /\ x.st = "hashed" /\ x.n = y.n /\ x.l = y.l /\ x.ln = y.ln
          /\ x.path = y.path
      BY <1>d, <3>1, <3>2 DEF Dentry
    <3>4. \A d \in Dentries \ {cur[t].d} : dent'[d] = dent[d]
      BY <3>1
    <3>5. CallOK(t)'
      BY Zenon, <1>c, <1>d, <3>1, <3>2, <3>3, <3>4
      DEF CallOK, OpenPcs, DirPcs, LookPcs, IgetPcs, OpPcs, DirOps, InUse
    <3>6. StageOK(t)'
      BY Zenon, <1>c, <1>d, <3>1, <3>2, <3>3
      DEF StageOK, LookPcs, IgetPcs, OpPcs, MakeOps, RemoveOps
    <3> QED
      BY <3>5, <3>6
  <2> QED
    BY <2>1, <2>2
<1>13. CASE InterposeFails(t)
  <2>1. CASE LookupFails(t)
    BY <1>6, <2>1
  <2>2. CASE ~ LookupFails(t)
    <3>1. /\ pc[t] = "ig_fail" /\ pc'[t] = "op_out" /\ UNCHANGED <<dent, dirLock>>
          /\ cur[t].op \in MakeOps /\ cur' = [cur EXCEPT ![t].ok = FALSE]
      BY <1>13, <2>2 DEF InterposeFails, lockVars
    <3>2. pc[t] \in DirPcs
      BY <3>1 DEF DirPcs, IgetPcs
    <3>3. /\ cur'[t].op = cur[t].op /\ cur'[t].n = cur[t].n
          /\ cur'[t].d = cur[t].d /\ cur'[t].e = cur[t].e
      BY <3>1 DEF Call
    <3>4. CallOK(t)'
      BY Zenon, <1>7, <3>1, <3>2, <3>3 DEF DirPcs, OpPcs
    <3>5. StageOK(t)'
      BY Zenon, <1>c, <1>d, <3>1, <3>2, <3>3
      DEF StageOK, LookPcs, IgetPcs, OpPcs, MakeOps, RemoveOps
    <3> QED
      BY <3>4, <3>5
  <2> QED
    BY <2>1, <2>2
<1>14. CASE \/ RenameRefused(t) \/ OpLock(t) \/ OpWantWrite(t)
            \/ OpWantNewWrite(t) \/ OpUnlinkBug(t) \/ OpFails(t)
            \/ OpDropWrite(t) \/ OpUnlock(t)
  <2>1. UNCHANGED <<dent, dirLock>>
    BY Zenon, <1>14 DEF RenameRefused, OpLock, OpWantWrite, OpWantNewWrite, OpUnlinkBug,
         OpFails, OpDropWrite, OpUnlock, lockVars
  <2>2. /\ cur'[t].op = cur[t].op /\ cur'[t].n = cur[t].n
        /\ cur'[t].d = cur[t].d /\ cur'[t].e = cur[t].e
    BY Zenon, <1>14 DEF RenameRefused, OpLock, OpWantWrite, OpWantNewWrite, OpUnlinkBug,
         OpFails, OpDropWrite, OpUnlock, Call
  <2>3. /\ pc[t] \in OpPcs /\ pc'[t] \in OpPcs \ {"op_lock"}
        /\ pc'[t] \in {"op_want2", "op_drop"} => cur[t].op = "rename"
        /\ pc'[t] \in {"op_want", "op_want2", "op_do"} =>
             pc[t] \in {"op_lock", "op_want", "op_want2"}
        /\ pc'[t] = "dead" => cur[t].op = "unlink"
    <3>1. pc[t] = "op_want2" => cur[t].op = "rename"
      BY Zenon, <1>c DEF StageOK
    <3> QED
      BY <1>14, <3>1 DEF RenameRefused, OpLock, OpWantWrite, OpWantNewWrite,
        OpUnlinkBug, OpFails, OpDropWrite, OpUnlock, Goto, WantNext, OpPcs
  <2>4. CallOK(t)'
    BY Zenon, <1>7, <2>1, <2>2, <2>3 DEF DirPcs
  <2>5. StageOK(t)'
    BY Zenon, <1>c, <2>1, <2>2, <2>3 DEF StageOK, LookPcs, IgetPcs, OpPcs
  <2> QED
    BY <2>4, <2>5
<1>15. CASE OpMake(t) /\ cur[t].op \in MakeOps
  <2>1. /\ pc[t] = "op_do" /\ pc'[t] = "ig_find" /\ UNCHANGED <<dirLock, cur>>
    BY <1>15 DEF OpMake, Goto, lockVars
  <2>2. PICK l \in NewTargets(cur[t]) : dent' = [dent EXCEPT ![cur[t].d].l = l]
    BY Zenon, <1>15 DEF OpMake
  <2>3. pc[t] \in DirPcs
    BY Zenon, <2>1 DEF DirPcs, OpPcs
  <2>4. cur[t].op = "link" => dent[cur[t].e].l \in LowerInodes
    BY Zenon, <1>c, <1>d, <1>e, <2>3 DEF CallOK
  <2>5. l \in LowerInodes
    BY Zenon, <2>4 DEF NewTargets
  <2>6. LET x == dent'[cur[t].d]  y == dent[cur[t].d] IN
        /\ x.st = y.st /\ x.n = y.n /\ x.l = l /\ x.ln = y.ln /\ x.path = y.path
    BY <1>d, <2>2, <2>3 DEF Dentry
  <2>7. \A d \in Dentries \ {cur[t].d} : dent'[d] = dent[d]
    BY <2>2
  <2>8. CallOK(t)'
    BY Zenon, <1>c, <1>d, <2>1, <2>3, <2>6, <2>7
    DEF CallOK, OpenPcs, DirPcs, LookPcs, IgetPcs, OpPcs, DirOps
  <2>9. StageOK(t)'
    BY Zenon, <1>c, <1>d, <1>15, <2>1, <2>3, <2>5, <2>6
    DEF StageOK, LookPcs, IgetPcs, OpPcs, MakeOps, RemoveOps
  <2> QED
    BY Zenon, <2>8, <2>9
<1>16. CASE OpUnlink(t) \/ OpRmdir(t)
  <2>1. /\ pc[t] = "op_do" /\ pc'[t] = "op_out" /\ UNCHANGED <<dirLock, cur>>
        /\ dent' = [dent EXCEPT ![cur[t].d].st = "unhashed"]
        /\ cur[t].op \in RemoveOps
    BY Zenon, <1>16 DEF OpUnlink, OpRmdir, Goto, lockVars, RemoveOps
  <2>2. pc[t] \in DirPcs
    BY <2>1 DEF DirPcs, OpPcs
  <2>3. LET x == dent'[cur[t].d]  y == dent[cur[t].d] IN
        /\ x.st = "unhashed" /\ x.n = y.n /\ x.ln = y.ln /\ x.path = y.path
    BY <1>d, <2>1, <2>2 DEF Dentry
  <2>4. CallOK(t)'
    BY Zenon, <1>c, <1>d, <2>1, <2>2, <2>3
    DEF CallOK, OpenPcs, DirPcs, LookPcs, IgetPcs, OpPcs, DirOps, InUse, RemoveOps
  <2>5. StageOK(t)'
    BY Zenon, <1>c, <1>d, <2>1, <2>2, <2>3
    DEF StageOK, LookPcs, IgetPcs, OpPcs, MakeOps, RemoveOps
  <2> QED
    BY <2>4, <2>5
<1>17. CASE OpRename(t)
  <2>1. /\ pc[t] = "op_do" /\ pc'[t] = "op_out" /\ UNCHANGED <<dirLock, cur>>
        /\ cur[t].op = "rename"
        /\ \/ dent' = dent
           \/ dent' = Below(cur[t].d, cur[t].e, dent[cur[t].e].ln,
                            dent[cur[t].d].ln)
    BY Zenon, <1>17 DEF OpRename, Goto, lockVars, Below
  <2>2. pc[t] \in DirPcs /\ cur[t].d \in Dentries /\ cur[t].e \in Dentries
    BY Zenon, <1>d, <2>1 DEF DirPcs, OpPcs
  <2>3. /\ dent[cur[t].d].ln \in Names /\ dent[cur[t].e].ln \in Names
        /\ cur[t].d # cur[t].e
    BY Zenon, <1>c, <1>d, <1>e, <2>1, <2>2 DEF StageOK, CallOK, OpPcs, InUse
  <2>4. /\ \A x \in Dentries : /\ dent'[x].st = dent[x].st
                               /\ dent'[x].n = dent[x].n
                               /\ dent'[x].l = dent[x].l
                               /\ dent'[x].path = dent[x].path
        /\ dent'[cur[t].d].ln \in Names
    <3>1. PICK a \in Names, b \in Names, d \in Dentries, e \in Dentries :
            /\ a = dent[cur[t].e].ln /\ b = dent[cur[t].d].ln
            /\ d = cur[t].d /\ e = cur[t].e
      BY Zenon, <2>2, <2>3
    <3>2. d # e
      BY Zenon, <2>3, <3>1
    <3> DEFINE g == Below(d, e, a, b)
    <3>3. /\ \A x \in Dentries : /\ g[x].st = dent[x].st /\ g[x].n = dent[x].n
                                 /\ g[x].l = dent[x].l /\ g[x].path = dent[x].path
          /\ g[d].ln = a
      BY <3>2, RenamedBelow
    <3> HIDE DEF g
    <3>4. dent' = dent \/ dent' = g
      BY Zenon, <2>1, <3>1 DEF g
    <3> QED
      BY Zenon, <2>3, <3>1, <3>3, <3>4
  <2>5. CallOK(t)'
    BY Zenon, <1>c, <1>d, <2>1, <2>2, <2>3, <2>4
    DEF CallOK, OpenPcs, DirPcs, LookPcs, IgetPcs, OpPcs, DirOps, InUse
  <2>6. StageOK(t)'
    BY Zenon, <1>c, <1>d, <2>1, <2>2, <2>3, <2>4
    DEF StageOK, LookPcs, IgetPcs, OpPcs, MakeOps, RemoveOps
  <2> QED
    BY <2>5, <2>6
<1>18. CASE OpReturn(t)
  BY Zenon, <1>f, <1>18 DEF OpReturn
<1> QED
  BY Zenon, <1>1, <1>2, <1>3, <1>4, <1>5, <1>8, <1>9, <1>10, <1>11, <1>12, <1>13, <1>14,
     <1>15, <1>16, <1>17, <1>18
  DEF StartCall, Continue, OpCreate, OpMknod, OpSymlink, OpMkdir, OpLink, MakeOps

\* Every step keeps what holds of the calls.
LEMMA CallNext ==
  ASSUME OwnInv, [Next]_vars
  PROVE  \A u \in Tasks : CallOK(u)' /\ StageOK(u)'
<1>1. ASSUME NEW t \in Tasks, StartCall(t) \/ Continue(t)
      PROVE  \A u \in Tasks : CallOK(u)' /\ StageOK(u)'
  BY Zenon, <1>1, LocalStep, OthersLocal, OwnCall
<1>2. ASSUME NEW d \in Dentries, DentryKill(d) \/ DentryRelease(d)
      PROVE  \A u \in Tasks : CallOK(u)' /\ StageOK(u)'
  <2>1. /\ UNCHANGED <<pc, cur, dirLock>> /\ (dent[d].st = "dying" \/ ~ Pinned(d))
    BY Zenon, <1>2 DEF DentryKill, DentryRelease, lockVars
  <2>2. \A x \in Dentries \ {d} : dent'[x] = dent[x]
    BY <1>2 DEF DentryKill, DentryRelease, Release, OwnInv, CoreType
  <2> QED
    BY Zenon, <2>1, <2>2, OthersReclaim
<1>3. ASSUME UNCHANGED <<pc, cur, dirLock, dent>>
      PROVE  \A u \in Tasks : CallOK(u)' /\ StageOK(u)'
  <2> SUFFICES ASSUME NEW u \in Tasks PROVE CallOK(u)' /\ StageOK(u)'
    OBVIOUS
  <2>1. CallOK(u) /\ StageOK(u)
    BY DEF OwnInv
  <2>2. CallOK(u)'
    BY Zenon, <1>3, <2>1 DEF CallOK
  <2>3. StageOK(u)'
    BY Zenon, <1>3, <2>1 DEF StageOK
  <2> QED
    BY <2>2, <2>3
<1>4. CASE UNCHANGED vars \/ \E d \in Dentries : FileRelease(d)
  BY Zenon, <1>3, <1>4 DEF vars, lockVars, FileRelease
<1>5. CASE \E s \in Slots : EvictInode(s) \/ DestroyInode(s)
  BY Zenon, <1>3, <1>5 DEF EvictInode, DestroyInode, lockVars
<1> QED
  BY Zenon, <1>1, <1>2, <1>4, <1>5 DEF Next

-----------------------------------------------------------------------------
(***************************************************************************)
(* Dentries and the inodes they hold.                                      *)
(***************************************************************************)
HeldAt == {"ig_init", "ig_add"}

\* A step that leaves the inodes and who holds them alone.
SteadyAt(t, d) ==
  LET x == dent[d]  y == dent'[d] IN
  /\ x.st \in InUse => /\ y.st \in InUse /\ y.ino = x.ino /\ y.l = x.l
                       /\ y.path /\ y.n \in Names /\ y.ln \in Names
  /\ x.st \notin InUse => y.st \notin InUse
  /\ y.st = "dying" => y = x
  /\ y.st = "free" => y = FreeDentry
  /\ y.st = "fresh" =>
       /\ y.ino = NULL
       /\ x.st # "fresh" \/ (pc[t] \in DirPcs /\ d = cur[t].d) =>
            pc'[t] \in DirPcs /\ cur'[t].d = d
Steady(t) ==
  /\ UNCHANGED <<inode, icount>>
  /\ pc[t] \notin HeldAt /\ pc'[t] \notin HeldAt
  /\ \A d \in Dentries : SteadyAt(t, d)

\* So are all steps of a task but those of iget and interpose.
LEMMA SteadyStep ==
  ASSUME OwnInv, NEW t \in Tasks, StartCall(t) \/ Continue(t)
  PROVE  \/ IgetFound(t) \/ IgetNew(t) \/ IgetInit(t) \/ Interpose(t)
         \/ Steady(t)
<1>0. /\ dent \in [Dentries -> Dentry] /\ pc \in [Tasks -> PCs]
      /\ cur \in [Tasks -> Call]
  BY DEF OwnInv, CoreType
<1> USE <1>0
<1>c. CallOK(t) /\ StageOK(t)
  BY DEF OwnInv
<1>d. pc[t] \in DirPcs => /\ cur[t].d \in Dentries /\ cur[t].n \in Names
                          /\ cur[t].op \in {"link", "rename"} =>
                               cur[t].e \in Dentries \ {cur[t].d}
  BY Zenon, <1>c DEF CallOK
<1>e. \A d \in Dentries :
        /\ dent[d].st = "free" => dent[d] = FreeDentry
        /\ dent[d].st = "fresh" => dent[d].ino = NULL
        /\ dent[d].st \in InUse =>
             /\ dent[d].n \in Names /\ dent[d].ln \in Names /\ dent[d].path
             /\ dent[d].ino \in Slots
  BY Zenon DEF OwnInv, DentOK
\* nothing happens to the dentries
<1>1. ASSUME UNCHANGED <<inode, icount, dent>>, pc[t] \notin HeldAt,
             pc'[t] \notin HeldAt,
             pc[t] \in DirPcs => pc'[t] \in DirPcs /\ cur'[t].d = cur[t].d
      PROVE  Steady(t)
  BY Zenon, <1>1, <1>e DEF Steady, SteadyAt
\* or only to that of the call
<1>2. ASSUME UNCHANGED <<inode, icount>>, pc[t] \notin HeldAt,
             pc'[t] \notin HeldAt, NEW d \in Dentries,
             \A x \in Dentries \ {d} : dent'[x] = dent[x],
             pc[t] \in DirPcs => d = cur[t].d,
             LET x == dent[d]  y == dent'[d] IN
             /\ x.st \in InUse => /\ y.st \in InUse /\ y.ino = x.ino /\ y.l = x.l
                                  /\ y.path /\ y.n \in Names /\ y.ln \in Names
             /\ x.st \notin InUse => y.st \notin InUse
             /\ y.st # "dying"
             /\ y.st = "free" => y = FreeDentry
             /\ y.st = "fresh" => /\ y.ino = NULL
                                  /\ pc'[t] \in DirPcs /\ cur'[t].d = d
      PROVE  Steady(t)
  <2> SUFFICES ASSUME NEW v \in Dentries PROVE SteadyAt(t, v)
    BY Zenon, <1>2 DEF Steady
  <2>1. CASE v = d
    BY Zenon, <1>2, <2>1 DEF SteadyAt
  <2>2. CASE v # d
    <3>1. dent'[v] = dent[v]
      BY <1>2, <2>2
    <3> QED
      BY Zenon, <1>2, <1>e, <2>2, <3>1 DEF SteadyAt
  <2> QED
    BY Zenon, <2>1, <2>2
<1>3. CASE LookupBegin(t)
  <2>1. PICK op \in MakeOps \cup {"lookup", "rename"}, n \in Names,
               d \in Dentries, e \in Dentries \cup {NULL} :
                 LookupFor(t, op, n, d, e)
    BY Zenon, <1>3 DEF LookupBegin
  <2>2. /\ pc[t] = "idle" /\ pc'[t] = "lk_info" /\ cur'[t].d = d
        /\ UNCHANGED <<inode, icount>>
        /\ \A x \in Dentries \ {d} : dent'[x] = dent[x]
    BY <2>1 DEF LookupFor, Begin, Goto, NoCall
  <2>3. dent[d].st = "free" /\ dent'[d].st = "fresh" /\ dent'[d].ino = NULL
    BY <2>1 DEF LookupFor, FreeDentry
  <2> QED
    BY Zenon, <1>2, <2>2, <2>3 DEF HeldAt, InUse, DirPcs, LookPcs, IgetPcs, OpPcs
<1>4. CASE RemoveBegin(t) \/ RenameBegin(t) \/ OpenBegin(t) \/ OpenCheck(t)
           \/ OpenLower(t)
  <2>1. /\ UNCHANGED <<inode, icount, dent>>
        /\ pc[t] \in {"idle", "open_check", "open_lower"}
        /\ pc'[t] \notin HeldAt
    BY Zenon, <1>4 DEF RemoveBegin, RenameBegin, OpenBegin, OpenCheck, OpenLower,
                OpenReturn, Begin, Goto, HeldAt
  <2> QED
    BY <1>1, <2>1 DEF HeldAt, DirPcs, LookPcs, IgetPcs, OpPcs
<1>5. ASSUME pc[t] \in LookPcs \cup {"ig_fail"}, LookupFails(t) PROVE Steady(t)
  <2>1. /\ dent[cur[t].d].st = "fresh" /\ cur[t].d \in Dentries
        /\ pc[t] \in DirPcs /\ pc[t] \notin HeldAt
    BY Zenon, <1>c, <1>5 DEF StageOK, CallOK, DirPcs, LookPcs, IgetPcs, HeldAt
  <2>2. /\ dent' = [dent EXCEPT ![cur[t].d] = FreeDentry] /\ pc'[t] = "idle"
        /\ UNCHANGED <<inode, icount>>
    BY Zenon, <1>5 DEF LookupFails, Finish, Release
  <2>3. /\ \A x \in Dentries \ {cur[t].d} : dent'[x] = dent[x]
        /\ dent'[cur[t].d] = FreeDentry /\ dent'[cur[t].d].st = "free"
    BY Zenon, <2>1, <2>2 DEF FreeDentry
  <2> QED
    BY Zenon, <1>2, <2>1, <2>2, <2>3 DEF HeldAt, InUse
<1>6. CASE LookupInfo(t) \/ LookupError(t)
  BY Zenon, <1>1, <1>5, <1>6 DEF LookupInfo, LookupError, lockVars, LookPcs, DirPcs, HeldAt
<1>7. CASE LookupPositive(t) \/ LookupNegative(t)
  <2>1. CASE LookupFails(t)
    BY <1>5, <1>7, <2>1 DEF LookupPositive, LookupNegative, Goto, LookPcs
  <2>2. CASE ~ LookupFails(t)
    <3>1. /\ pc[t] = "lk_path" /\ pc'[t] \in {"ig_find", "op_lock"}
          /\ UNCHANGED <<inode, icount>>
      BY <1>7, <2>2 DEF LookupPositive, LookupNegative, Goto
    <3>2. pc[t] \in DirPcs /\ pc'[t] \in DirPcs /\ cur[t].d \in Dentries
      BY Zenon, <1>d, <3>1 DEF DirPcs, LookPcs, IgetPcs, OpPcs
    <3>3. cur'[t].d = cur[t].d
      BY <1>7, <2>2 DEF LookupPositive, LookupNegative, Call
    <3>4. \A x \in Dentries \ {cur[t].d} : dent'[x] = dent[x]
      BY <1>7, <2>2 DEF LookupPositive, LookupNegative
    <3>5. dent[cur[t].d].st = "fresh"
      BY Zenon, <1>c, <3>1 DEF StageOK, LookPcs
    <3>6. /\ dent'[cur[t].d].st = dent[cur[t].d].st
          /\ dent'[cur[t].d].ino = dent[cur[t].d].ino
      BY <1>7, <2>2, <3>2 DEF LookupPositive, LookupNegative, Dentry
    <3> QED
      BY Zenon, <1>2, <1>e, <3>1, <3>2, <3>3, <3>4, <3>5, <3>6 DEF HeldAt, InUse
  <2> QED
    BY Zenon, <2>1, <2>2
<1>8. CASE IgetNoMemory(t) \/ InterposeFails(t)
  <2>1. CASE LookupFails(t)
    BY Zenon, <1>5, <1>8, <2>1 DEF IgetNoMemory, InterposeFails, Finish, Goto, LookupFails
  <2>2. CASE ~ LookupFails(t)
    <3>1. /\ pc[t] \in {"ig_find", "ig_fail"} /\ pc'[t] \in {"ig_fail", "op_out"}
          /\ UNCHANGED <<inode, icount, dent>> /\ cur'[t].d = cur[t].d
      BY Zenon, <1>8, <2>2 DEF IgetNoMemory, InterposeFails, Goto, Call
    <3> QED
      BY Zenon, <1>1, <3>1 DEF HeldAt, DirPcs, IgetPcs, OpPcs
  <2> QED
    BY <2>1, <2>2
<1>9. CASE \/ RenameRefused(t) \/ OpLock(t) \/ OpWantWrite(t)
           \/ OpWantNewWrite(t) \/ OpUnlinkBug(t) \/ OpFails(t)
           \/ OpDropWrite(t) \/ OpUnlock(t)
  <2>1. UNCHANGED <<inode, icount, dent>> /\ pc[t] \in OpPcs /\ pc'[t] \in OpPcs
    BY Zenon, <1>9 DEF RenameRefused, OpLock, OpWantWrite, OpWantNewWrite, OpUnlinkBug,
         OpFails, OpDropWrite, OpUnlock, Goto, WantNext, OpPcs
  <2>2. cur'[t].d = cur[t].d
    BY Zenon, <1>9 DEF RenameRefused, OpLock, OpWantWrite, OpWantNewWrite, OpUnlinkBug,
         OpFails, OpDropWrite, OpUnlock, Call
  <2> QED
    BY Zenon, <1>1, <2>1, <2>2 DEF HeldAt, DirPcs, OpPcs
<1>10. CASE OpMake(t) /\ cur[t].op \in MakeOps
  <2>1. /\ pc[t] = "op_do" /\ pc'[t] = "ig_find"
        /\ UNCHANGED <<inode, icount, cur>>
        /\ \E l : dent' = [dent EXCEPT ![cur[t].d].l = l]
    BY Zenon, <1>10 DEF OpMake, Goto
  <2>2. pc[t] \in DirPcs /\ pc'[t] \in DirPcs /\ cur[t].d \in Dentries
    BY Zenon, <1>d, <2>1 DEF DirPcs, OpPcs, IgetPcs
  <2>3. dent[cur[t].d].st = "fresh"
    BY <1>c, <1>10, <2>1 DEF StageOK
  <2>4. /\ \A x \in Dentries \ {cur[t].d} : dent'[x] = dent[x]
        /\ dent'[cur[t].d].st = dent[cur[t].d].st
        /\ dent'[cur[t].d].ino = dent[cur[t].d].ino
    BY Zenon, <2>1, <2>2 DEF Dentry
  <2> QED
    BY Zenon, <1>2, <1>e, <2>1, <2>2, <2>3, <2>4 DEF HeldAt, InUse
<1>11. CASE OpUnlink(t) \/ OpRmdir(t)
  <2>1. /\ pc[t] = "op_do" /\ pc'[t] = "op_out" /\ cur[t].op \in RemoveOps
        /\ UNCHANGED <<inode, icount, cur>>
        /\ dent' = [dent EXCEPT ![cur[t].d].st = "unhashed"]
    BY Zenon, <1>11 DEF OpUnlink, OpRmdir, Goto, RemoveOps
  <2>2. pc[t] \in DirPcs /\ pc'[t] \in DirPcs /\ cur[t].d \in Dentries
    BY Zenon, <1>d, <2>1 DEF DirPcs, OpPcs, IgetPcs
  <2>3. dent[cur[t].d].st \in InUse
    BY Zenon, <1>c, <2>1 DEF StageOK, RemoveOps, MakeOps, InUse
  <2>4. LET x == dent'[cur[t].d]  y == dent[cur[t].d] IN
        /\ \A v \in Dentries \ {cur[t].d} : dent'[v] = dent[v]
        /\ x.st = "unhashed" /\ x.ino = y.ino /\ x.l = y.l /\ x.n = y.n
        /\ x.ln = y.ln /\ x.path = y.path
    BY <2>1, <2>2 DEF Dentry
  <2> QED
    BY <1>2, <1>e, <2>1, <2>2, <2>3, <2>4 DEF HeldAt, InUse
<1>12. CASE OpRename(t)
  <2>1. /\ pc[t] = "op_do" /\ pc'[t] = "op_out" /\ UNCHANGED <<inode, icount, cur>>
        /\ cur[t].op = "rename"
        /\ \/ dent' = dent
           \/ dent' = Below(cur[t].d, cur[t].e, dent[cur[t].e].ln,
                            dent[cur[t].d].ln)
    BY Zenon, <1>12 DEF OpRename, Goto, Below
  <2>2. /\ pc[t] \in DirPcs /\ pc'[t] \in DirPcs
        /\ cur[t].d \in Dentries /\ cur[t].e \in Dentries /\ cur[t].d # cur[t].e
    BY <1>d, <2>1 DEF DirPcs, OpPcs
  <2>3. dent[cur[t].d].ln \in Names /\ dent[cur[t].e].ln \in Names
    BY Zenon, <1>c, <1>e, <2>1, <2>2 DEF StageOK, CallOK, OpPcs, InUse
  <2>4. PICK a \in Names, b \in Names, d \in Dentries, e \in Dentries :
          /\ a = dent[cur[t].e].ln /\ b = dent[cur[t].d].ln
          /\ d = cur[t].d /\ e = cur[t].e
    BY Zenon, <2>2, <2>3
  <2>5. d # e
    BY Zenon, <2>2, <2>4
  <2> DEFINE g == Below(d, e, a, b)
  <2>6. /\ \A x \in Dentries \ {d, e} : g[x] = dent[x]
        /\ \A x \in Dentries : /\ g[x].st = dent[x].st /\ g[x].n = dent[x].n
                               /\ g[x].l = dent[x].l /\ g[x].path = dent[x].path
                               /\ g[x].ino = dent[x].ino
        /\ g[d].ln = a /\ g[e].ln = b
    BY <2>5, RenamedBelow
  <2> HIDE DEF g
  <2>7. dent' = dent \/ dent' = g
    BY Zenon, <2>1, <2>4 DEF g
  <2>8. CASE dent' = dent
    BY Zenon, <1>1, <2>1, <2>2, <2>8 DEF HeldAt
  <2>9. CASE dent' = g
    <3>1. \A x \in Dentries : dent[x].st \in {"free", "dying"} => dent'[x] = dent[x]
      BY Zenon, <1>c, <2>1, <2>2, <2>4, <2>6, <2>9 DEF CallOK, InUse
    <3>2. \A x \in Dentries :
            dent[x].st \in InUse => dent'[x].ln \in Names
      BY <1>e, <2>4, <2>6, <2>9
    <3>3. \A x \in Dentries :
            /\ dent'[x].st = dent[x].st /\ dent'[x].n = dent[x].n
            /\ dent'[x].l = dent[x].l /\ dent'[x].path = dent[x].path
            /\ dent'[x].ino = dent[x].ino
      BY Zenon, <2>6, <2>9
    <3>4. ASSUME NEW x \in Dentries, dent[x].st \in InUse PROVE SteadyAt(t, x)
      BY Zenon, <1>e, <3>2, <3>3, <3>4 DEF SteadyAt, InUse
    <3>5. ASSUME NEW x \in Dentries, dent[x].st \notin InUse PROVE SteadyAt(t, x)
      BY Zenon, <1>e, <2>1, <2>2, <3>1, <3>3, <3>5 DEF SteadyAt
    <3> QED
      BY Zenon, <2>1, <3>4, <3>5 DEF Steady, HeldAt
  <2> QED
    BY Zenon, <2>7, <2>8, <2>9
<1>13. CASE OpReturn(t)
  <2>1. pc[t] = "op_return" /\ pc'[t] = "idle" /\ UNCHANGED <<inode, icount>>
    BY Zenon, <1>13 DEF OpReturn, Finish
  <2>2. pc[t] \in DirPcs
    BY Zenon, <2>1 DEF DirPcs, OpPcs
  <2>3. dent[cur[t].d].st \in InUse \cup {"fresh"}
    BY Zenon, <1>c, <2>2 DEF CallOK
  <2>4. CASE ~ (cur[t].op = "rename" /\ cur[t].ok)
    <3>1. \/ /\ dent[cur[t].d].ino # NULL /\ dent' = dent
          \/ /\ dent[cur[t].d].ino = NULL
             /\ dent' = [dent EXCEPT ![cur[t].d] = FreeDentry]
      BY <1>13, <2>4 DEF OpReturn
    <3>2. CASE dent' = dent /\ dent[cur[t].d].ino # NULL
      <4>1. dent[cur[t].d].st \in InUse
        BY Zenon, <1>d, <1>e, <2>2, <2>3, <3>2
      <4> QED
        BY Zenon, <1>2, <1>d, <1>e, <2>1, <2>2, <3>2, <4>1 DEF HeldAt, InUse
    <3>3. CASE /\ dent[cur[t].d].ino = NULL
               /\ dent' = [dent EXCEPT ![cur[t].d] = FreeDentry]
      <4>1. dent[cur[t].d].st \notin InUse
        BY Zenon, <1>d, <1>e, <2>2, <3>3, InodeAssumption
      <4>2. /\ \A x \in Dentries \ {cur[t].d} : dent'[x] = dent[x]
            /\ dent'[cur[t].d] = FreeDentry /\ dent'[cur[t].d].st = "free"
        BY Zenon, <1>d, <2>2, <3>3 DEF FreeDentry
      <4> QED
        BY Zenon, <1>2, <1>d, <2>1, <2>2, <4>1, <4>2 DEF HeldAt, InUse
    <3> QED
      BY Zenon, <3>1, <3>2, <3>3
  <2>5. CASE cur[t].op = "rename" /\ cur[t].ok
    <3>1. PICK a \in Names, b \in Names, d \in Dentries, e \in Dentries :
            /\ a = dent[cur[t].e].n /\ b = cur[t].n
            /\ d = cur[t].d /\ e = cur[t].e /\ dent[e].st \in InUse
      BY Zenon, <1>c, <1>d, <1>e, <2>2, <2>5 DEF CallOK, InUse
    <3>2. d # e
      BY Zenon, <1>d, <2>2, <2>5, <3>1
    <3> DEFINE g == Above(d, e, a, b)
    <3>m. MovedOnto(g, d, e, a, b)
      BY Zenon, <3>2, RenamedAbove
    <3>4. DOMAIN g = Dentries
      BY Zenon DEF Above
    <3> HIDE DEF g
    <3>3. /\ \A x \in Dentries \ {d, e} : g[x] = dent[x]
          /\ \A x \in Dentries : /\ g[x].l = dent[x].l /\ g[x].path = dent[x].path
                                 /\ g[x].ino = dent[x].ino /\ g[x].ln = dent[x].ln
                                 /\ x # d => g[x].st = dent[x].st
          /\ g[d].st = "unhashed" /\ g[d].n = a /\ g[e].n = b
      BY Zenon, <3>m DEF MovedOnto
    <3>5. \/ /\ dent[d].ino # NULL /\ dent' = g
          \/ /\ dent[d].ino = NULL /\ dent' = [g EXCEPT ![d] = FreeDentry]
      BY Zenon, <1>13, <2>5, <3>1 DEF OpReturn, g, Above
    <3>6. /\ dent[d].ino = NULL => dent[d].st \notin InUse
          /\ dent[d].ino # NULL => dent[d].st \in InUse
      <4>1. NULL \notin Slots
        BY Zenon, InodeAssumption
      <4>2. dent[d].st \in InUse => dent[d].ino # NULL
        BY Zenon, <1>e, <4>1
      <4>3. dent[d].st = "fresh" => dent[d].ino = NULL
        BY Zenon, <1>e
      <4>4. dent[d].st \in InUse \/ dent[d].st = "fresh"
        BY Zenon, <2>3, <3>1
      <4>5. "fresh" \notin InUse
        BY Zenon DEF InUse
      <4> QED
        BY Zenon, <4>2, <4>3, <4>4, <4>5
    <3>7. CASE dent[d].ino # NULL /\ dent' = g
      <4>1. \A x \in Dentries :
              dent'[x].st \in {"free", "dying", "fresh"} =>
                x \notin {d, e} /\ dent'[x] = dent[x]
        BY <3>1, <3>2, <3>3, <3>6, <3>7 DEF InUse
      <4>2. \A x \in Dentries :
              dent[x].st \in InUse => /\ dent'[x].st \in InUse
                                      /\ dent'[x].n \in Names
        BY <1>e, <3>3, <3>7 DEF InUse
      <4>3. \A x \in Dentries :
              dent[x].st \notin InUse => dent'[x].st \notin InUse
        BY Zenon, <3>1, <3>3, <3>6, <3>7
      <4>4. \A x \in Dentries :
              /\ dent'[x].ino = dent[x].ino /\ dent'[x].l = dent[x].l
              /\ dent'[x].path = dent[x].path /\ dent'[x].ln = dent[x].ln
        BY <3>3, <3>7
      <4>5. ASSUME NEW x \in Dentries, dent[x].st \in InUse PROVE SteadyAt(t, x)
        BY Zenon, <1>e, <4>2, <4>4, <4>5 DEF SteadyAt, InUse
      <4>6. ASSUME NEW x \in Dentries, dent[x].st \notin InUse
            PROVE  SteadyAt(t, x)
        BY Zenon, <1>e, <3>1, <4>1, <4>3, <4>6 DEF SteadyAt
      <4> QED
        BY Zenon, <2>1, <4>5, <4>6 DEF Steady, HeldAt
    <3>8. CASE dent[d].ino = NULL /\ dent' = [g EXCEPT ![d] = FreeDentry]
      <4>1. /\ dent'[d] = FreeDentry /\ dent'[d].st = "free"
            /\ \A x \in Dentries \ {d} : dent'[x] = g[x]
        BY Zenon, <3>4, <3>8 DEF FreeDentry
      <4>2. \A x \in Dentries : dent'[x].st \in {"free", "dying", "fresh"} =>
              x = d \/ (x # e /\ dent'[x] = dent[x])
        BY <3>1, <3>2, <3>3, <4>1 DEF InUse
      <4>3. \A x \in Dentries :
              dent[x].st \in InUse => /\ x # d /\ dent'[x].st \in InUse
                                      /\ dent'[x].n \in Names
        BY <1>e, <3>3, <3>6, <3>8, <4>1
      <4>4. \A x \in Dentries :
              dent[x].st \notin InUse => dent'[x].st \notin InUse
        BY Zenon, <3>3, <4>1 DEF InUse
      <4>5. \A x \in Dentries \ {d} :
              /\ dent'[x].ino = dent[x].ino /\ dent'[x].l = dent[x].l
              /\ dent'[x].path = dent[x].path /\ dent'[x].ln = dent[x].ln
        BY <3>3, <4>1
      <4>6. ASSUME NEW x \in Dentries, dent[x].st \in InUse PROVE SteadyAt(t, x)
        BY Zenon, <1>e, <4>3, <4>5, <4>6 DEF SteadyAt, InUse
      <4>7. ASSUME NEW x \in Dentries, dent[x].st \notin InUse
            PROVE  SteadyAt(t, x)
        <5>1. CASE x = d
          BY Zenon, <4>1, <4>7, <5>1 DEF SteadyAt, InUse
        <5>2. CASE x # d
          BY Zenon, <1>e, <3>1, <4>2, <4>4, <4>7, <5>2 DEF SteadyAt
        <5> QED
          BY Zenon, <5>1, <5>2
      <4> QED
        BY Zenon, <2>1, <4>6, <4>7 DEF Steady, HeldAt
    <3> QED
      BY Zenon, <3>5, <3>7, <3>8
  <2> QED
    BY Zenon, <2>4, <2>5
<1> QED
  BY Zenon, <1>3, <1>4, <1>6, <1>7, <1>8, <1>9, <1>10, <1>11, <1>12, <1>13
  DEF StartCall, Continue, OpCreate, OpMknod, OpSymlink, OpMkdir, OpLink, MakeOps

\* Only an inode in use is held; the last holder is alone.
LEMMA HolderFacts ==
  ASSUME OwnInv
  PROVE  /\ \A s \in Slots : IsFiniteSet(Holders(s))
         /\ \A s \in Slots : inode[s].st \notin {"new", "live"} =>
              Holders(s) = {} /\ icount[s] = 0
         /\ \A s \in Slots, d \in Dentries :
              d \in Holders(s) /\ icount[s] = 1 => Holders(s) = {d}
<1>1. ASSUME NEW s \in Slots PROVE IsFiniteSet(Holders(s))
  <2>1. Holders(s) \subseteq Dentries
    BY Zenon DEF Holders
  <2> QED
    BY Zenon, <2>1, InodeAssumption, FS_Subset
<1>2. ASSUME NEW s \in Slots, inode[s].st \notin {"new", "live"}
      PROVE  Holders(s) = {} /\ icount[s] = 0
  <2>1. \A d \in Dentries : ~ Holds(d, s)
    BY <1>2 DEF OwnInv, DentOK, IgetOK, Holds
  <2>2. Holders(s) = {}
    BY <2>1 DEF Holders
  <2> QED
    BY Zenon, <2>2, FS_EmptySet DEF OwnInv, HoldInv
<1>3. ASSUME NEW s \in Slots, NEW d \in Dentries, d \in Holders(s), icount[s] = 1
      PROVE  Holders(s) = {d}
  <2>1. Cardinality(Holders(s)) = 1
    BY <1>3 DEF OwnInv, HoldInv
  <2>2. \E x : Holders(s) = {x}
    BY Zenon, <1>1, <2>1, FS_Singleton
  <2> QED
    BY Zenon, <1>3, <2>2
<1> QED
  BY Zenon, <1>1, <1>2, <1>3

\* A live inode changes only when its last dentry is killed, one that is being
\* initialised only when that is done.
LEMMA InodeStep ==
  ASSUME OwnInv, [Next]_vars, NEW s \in Slots
  PROVE  /\ inode[s].st = "live" =>
              \/ inode'[s] = inode[s]
              \/ \E d \in Dentries : DentryKill(d) /\ Holders(s) = {d}
         /\ inode[s].st = "new" =>
              \/ inode'[s] = inode[s]
              \/ \E t \in Tasks : IgetInit(t) /\ cur[t].s = s
<1>0. inode \in [Slots -> Inode]
  BY DEF OwnInv, CoreType
<1>1. ASSUME NEW t \in Tasks, IgetNew(t)
      PROVE  inode[s].st # "free" => inode'[s] = inode[s]
  BY <1>0, <1>1 DEF IgetNew
<1>2. ASSUME NEW t \in Tasks, IgetInit(t)
      PROVE  s = cur[t].s \/ inode'[s] = inode[s]
  BY Zenon, <1>0, <1>2 DEF IgetInit
<1>3. ASSUME NEW t \in Tasks, IgetInit(t) PROVE inode[cur[t].s].st = "new"
  BY Zenon, <1>3 DEF IgetInit, Goto, OwnInv, IgetOK
<1>4. ASSUME NEW t \in Tasks, StartCall(t) \/ Continue(t), ~ IgetNew(t), ~ IgetInit(t)
      PROVE  inode' = inode
  BY Zenon, <1>4, SteadyStep DEF Steady, IgetFound, Interpose
<1>5. ASSUME NEW d \in Dentries, DentryKill(d), inode'[s] # inode[s]
      PROVE  inode[s].st = "live" /\ Holders(s) = {d}
  <2>1. dent[d].st \in InUse /\ dent[d].ino = s /\ icount[s] = 1
    BY <1>0, <1>5 DEF DentryKill, InUse
  <2>2. inode[s].st = "live"
    BY Zenon, <2>1 DEF OwnInv, DentOK
  <2>3. d \in Holders(s)
    BY Zenon, <2>1 DEF Holders, Holds
  <2> QED
    BY Zenon, <2>1, <2>2, <2>3, HolderFacts
<1>6. ASSUME NEW r \in Slots, EvictInode(r) \/ DestroyInode(r)
      PROVE  inode[s].st \in {"new", "live"} => inode'[s] = inode[s]
  BY <1>0, <1>6 DEF EvictInode, DestroyInode
<1>7. CASE \E t \in Tasks : StartCall(t) \/ Continue(t)
  BY Zenon, <1>1, <1>2, <1>3, <1>4, <1>7
<1>8. CASE \E d \in Dentries : FileRelease(d) \/ DentryKill(d) \/ DentryRelease(d)
  <2>1. CASE \E d \in Dentries : DentryKill(d)
    BY Zenon, <1>5, <2>1
  <2>2. CASE \E d \in Dentries : FileRelease(d) \/ DentryRelease(d)
    BY Zenon, <2>2 DEF FileRelease, DentryRelease
  <2> QED
    BY Zenon, <1>8, <2>1, <2>2
<1>9. CASE UNCHANGED vars
  BY Zenon, <1>9 DEF vars
<1> QED
  BY Zenon, <1>6, <1>7, <1>8, <1>9 DEF Next

\* Every step keeps what holds of the dentries.
LEMMA DentNext ==
  ASSUME OwnInv, [Next]_vars, NEW d \in Dentries
  PROVE  DentOK(d)'
<1>0. /\ dent \in [Dentries -> Dentry] /\ pc \in [Tasks -> PCs]
      /\ cur \in [Tasks -> Call] /\ inode \in [Slots -> Inode]
  BY DEF OwnInv, CoreType
<1>d. DentOK(d)
  BY Zenon DEF OwnInv
\* the inode of a dentry in use stays
<1>i. ASSUME dent[d].st \in InUse, ~ DentryKill(d)
      PROVE  inode'[dent[d].ino] = inode[dent[d].ino]
  <2>1. dent[d].ino \in Slots /\ inode[dent[d].ino].st = "live"
    BY Zenon, <1>d, <1>i DEF DentOK
  <2>2. d \in Holders(dent[d].ino)
    BY Zenon, <1>i DEF Holders, Holds
  <2> QED
    BY <1>i, <2>1, <2>2, InodeStep
<1>1. ASSUME NEW t \in Tasks, StartCall(t) \/ Continue(t) PROVE DentOK(d)'
  <2>1. \A u \in Tasks \ {t} : pc'[u] = pc[u] /\ cur'[u] = cur[u]
    BY Zenon, <1>1, LocalStep DEF Local
  <2>2. dent[d].st \in InUse => inode'[dent[d].ino] = inode[dent[d].ino]
    <3>1. CASE Steady(t)
      BY Zenon, <3>1 DEF Steady, SteadyAt
    <3>2. CASE IgetFound(t) \/ Interpose(t)
      BY Zenon, <3>2 DEF IgetFound, Interpose
    <3>3. CASE (IgetNew(t) \/ IgetInit(t)) /\ dent[d].st \in InUse
      <4>1. dent[d].ino \in Slots /\ inode[dent[d].ino].st = "live"
        BY Zenon, <1>d, <3>3 DEF DentOK
      <4>2. IgetInit(t) => inode[cur[t].s].st = "new"
        BY Zenon DEF IgetInit, Goto, OwnInv, IgetOK
      <4> QED
        BY Zenon, <1>0, <3>3, <4>1, <4>2 DEF IgetNew, IgetInit
    <3> QED
      BY Zenon, <1>1, <3>1, <3>2, <3>3, SteadyStep
  <2>3. CASE Steady(t)
    <3>1. LET x == dent[d]  y == dent'[d] IN
          /\ x.st \in InUse => /\ y.st \in InUse /\ y.ino = x.ino /\ y.l = x.l
                               /\ y.path /\ y.n \in Names /\ y.ln \in Names
          /\ x.st \notin InUse => y.st \notin InUse
          /\ y.st = "dying" => y = x
          /\ y.st = "free" => y = FreeDentry
          /\ y.st = "fresh" =>
               /\ y.ino = NULL
               /\ x.st # "fresh" \/ (pc[t] \in DirPcs /\ d = cur[t].d) =>
                    pc'[t] \in DirPcs /\ cur'[t].d = d
      BY <2>3, Zenon DEF Steady, SteadyAt
    <3>2. dent'[d].st = "fresh" =>
            \E u \in Tasks : pc'[u] \in DirPcs /\ cur'[u].d = d
      <4>1. CASE dent[d].st = "fresh"
        <5>1. PICK u \in Tasks : pc[u] \in DirPcs /\ cur[u].d = d
          BY <1>d, <4>1 DEF DentOK
        <5> QED
          BY Zenon, <2>1, <3>1, <5>1
      <4> QED
        BY Zenon, <3>1, <4>1
    <3>3. dent'[d].st \in InUse =>
            inode'[dent'[d].ino].st = "live" /\ inode'[dent'[d].ino].l = dent'[d].l
      BY Zenon, <1>d, <2>2, <3>1 DEF DentOK
    <3>4. dent'[d].st \in InUse \cup {"dying"} =>
            /\ dent'[d].n \in Names /\ dent'[d].ln \in Names /\ dent'[d].path
            /\ dent'[d].l \in LowerInodes /\ dent'[d].ino \in Slots
      BY Zenon, <1>d, <3>1 DEF DentOK, InUse
    <3> QED
      BY Zenon, <3>1, <3>2, <3>3, <3>4 DEF DentOK
  <2>4. CASE IgetFound(t) \/ IgetNew(t) \/ IgetInit(t)
    <3>1. /\ dent' = dent /\ pc'[t] \in DirPcs /\ cur'[t].d = cur[t].d
      BY <1>0, <2>4 DEF IgetFound, IgetNew, IgetInit, Goto, Call, DirPcs, IgetPcs
    <3>2. dent[d].st = "fresh" =>
            \E u \in Tasks : pc'[u] \in DirPcs /\ cur'[u].d = d
      BY Zenon, <1>d, <2>1, <3>1 DEF DentOK
    <3> QED
      BY Zenon, <1>d, <2>2, <3>1, <3>2 DEF DentOK
  <2>5. CASE Interpose(t)
    <3>1. /\ pc[t] = "ig_add" /\ inode' = inode
          /\ dent' = [dent EXCEPT ![cur[t].d].st = "hashed",
                                  ![cur[t].d].ino = cur[t].s]
      BY <2>5 DEF Interpose
    <3>2. /\ pc[t] \in DirPcs /\ cur[t].d \in Dentries
          /\ dent[cur[t].d].n \in Names /\ dent[cur[t].d].ln \in Names
          /\ dent[cur[t].d].path /\ dent[cur[t].d].l \in LowerInodes
      BY Zenon, <3>1 DEF OwnInv, CallOK, StageOK, DirPcs, IgetPcs
    <3>3. /\ cur[t].s \in Slots /\ inode[cur[t].s].st = "live"
          /\ inode[cur[t].s].l = dent[cur[t].d].l
      BY Zenon, <3>1 DEF OwnInv, IgetOK
    <3>4. CASE d = cur[t].d
      <4>1. LET x == dent[d]  y == dent'[d] IN
            /\ y.st = "hashed" /\ y.ino = cur[t].s /\ y.n = x.n /\ y.ln = x.ln
            /\ y.path = x.path /\ y.l = x.l
        BY <1>0, <3>1, <3>4 DEF Dentry
      <4> QED
        BY Zenon, <3>1, <3>2, <3>3, <3>4, <4>1 DEF DentOK, InUse
    <3>5. CASE d # cur[t].d
      <4>1. dent'[d] = dent[d]
        BY <1>0, <3>1, <3>5
      <4>2. dent[d].st = "fresh" =>
              \E u \in Tasks : pc'[u] \in DirPcs /\ cur'[u].d = d
        BY Zenon, <1>d, <2>1, <3>5 DEF DentOK
      <4> QED
        BY Zenon, <1>d, <2>2, <4>1, <4>2 DEF DentOK
    <3> QED
      BY Zenon, <3>4, <3>5
  <2> QED
    BY Zenon, <1>1, <2>3, <2>4, <2>5, SteadyStep
<1>2. ASSUME NEW e \in Dentries, DentryKill(e) PROVE DentOK(d)'
  <2>1. UNCHANGED <<pc, cur>> /\ dent' = [dent EXCEPT ![e].st = "dying"]
    BY <1>2 DEF DentryKill
  <2>2. CASE d = e
    <3>1. LET x == dent[d]  y == dent'[d] IN
          /\ y.st = "dying" /\ y.ino = x.ino /\ y.n = x.n /\ y.ln = x.ln
          /\ y.path = x.path /\ y.l = x.l
      BY Zenon, <1>0, <2>1, <2>2 DEF Dentry
    <3>2. dent[d].st \in InUse
      BY Zenon, <1>2, <2>2 DEF DentryKill, InUse
    <3> QED
      BY Zenon, <1>d, <3>1, <3>2 DEF DentOK, InUse
  <2>3. CASE d # e
    <3>1. dent'[d] = dent[d]
      BY <1>0, <2>1, <2>3
    <3>2. ~ (DentryKill(d) /\ dent[d].st \in InUse)
      BY Zenon, <1>0, <2>3, <3>1 DEF DentryKill, InUse, Dentry
    <3> QED
      BY Zenon, <1>d, <1>i, <2>1, <3>1, <3>2 DEF DentOK
  <2> QED
    BY Zenon, <2>2, <2>3
<1>3. ASSUME NEW e \in Dentries, DentryRelease(e) PROVE DentOK(d)'
  <2>1. UNCHANGED <<pc, cur, inode>> /\ dent' = [dent EXCEPT ![e] = FreeDentry]
    BY <1>3 DEF DentryRelease, Release
  <2>2. CASE d = e
    BY Zenon, <1>0, <2>1, <2>2 DEF DentOK, FreeDentry, InUse
  <2>3. CASE d # e
    BY Zenon, <1>0, <1>d, <2>1, <2>3 DEF DentOK
  <2> QED
    BY Zenon, <2>2, <2>3
<1>4. ASSUME UNCHANGED <<pc, cur, dent>>,
             dent[d].st \in InUse => inode'[dent[d].ino] = inode[dent[d].ino]
      PROVE  DentOK(d)'
  BY Zenon, <1>d, <1>4 DEF DentOK
<1>5. CASE UNCHANGED vars \/ \E e \in Dentries : FileRelease(e)
  BY <1>4, <1>5 DEF vars, FileRelease
<1>6. CASE \E s \in Slots : EvictInode(s) \/ DestroyInode(s)
  <2>1. UNCHANGED <<pc, cur, dent>>
    BY Zenon, <1>6 DEF EvictInode, DestroyInode
  <2>2. dent[d].st \in InUse =>
          dent[d].ino \in Slots /\ inode[dent[d].ino].st = "live"
    BY Zenon, <1>d DEF DentOK
  <2> QED
    BY Zenon, <1>0, <1>4, <1>6, <2>1, <2>2 DEF EvictInode, DestroyInode
<1> QED
  BY Zenon, <1>1, <1>2, <1>3, <1>5, <1>6 DEF Next

\* Every step keeps what holds of the inodes.
LEMMA SlotNext ==
  ASSUME OwnInv, [Next]_vars, NEW s \in Slots
  PROVE  SlotOK(s)'
<1>0. inode \in [Slots -> Inode] /\ SlotOK(s)
  BY DEF OwnInv, CoreType
<1>1. ASSUME NEW t \in Tasks, IgetNew(t) PROVE SlotOK(s)'
  <2>1. PICK r \in Slots : /\ inode[r].st = "free"
                           /\ inode' = [inode EXCEPT ![r].st = "new"]
    BY Zenon, <1>1 DEF IgetNew
  <2>2. r = s => inode'[s].st = "new" /\ inode'[s].l = inode[s].l
    BY <1>0, <2>1 DEF Inode
  <2>3. r # s => inode'[s] = inode[s]
    BY <1>0, <2>1
  <2> QED
    BY Zenon, <1>0, <2>1, <2>2, <2>3 DEF SlotOK
<1>2. ASSUME NEW t \in Tasks, IgetInit(t) PROVE SlotOK(s)'
  <2>1. dent[cur[t].d].l \in LowerInodes
    BY Zenon, <1>2 DEF IgetInit, Goto, OwnInv, StageOK, IgetPcs
  <2> QED
    BY Zenon, <1>0, <1>2, <2>1 DEF IgetInit, SlotOK
<1>3. ASSUME NEW d \in Dentries, DentryKill(d) PROVE SlotOK(s)'
  <2>1. inode[dent[d].ino].st = "live" /\ dent[d].ino \in Slots
    BY <1>3 DEF DentryKill, OwnInv, DentOK, InUse
  <2>2. \/ inode'[s] = inode[s]
        \/ /\ s = dent[d].ino /\ inode'[s].st = "freeing"
           /\ inode'[s].l = inode[s].l
    BY Zenon, <1>0, <1>3 DEF DentryKill, Inode
  <2> QED
    BY Zenon, <1>0, <2>1, <2>2 DEF SlotOK
<1>4. ASSUME NEW r \in Slots, EvictInode(r) \/ DestroyInode(r) PROVE SlotOK(s)'
  BY <1>0, <1>4 DEF EvictInode, DestroyInode, SlotOK, FreeInode
<1>5. ASSUME UNCHANGED inode PROVE SlotOK(s)'
  BY Zenon, <1>0, <1>5 DEF SlotOK
<1>6. CASE \E t \in Tasks : StartCall(t) \/ Continue(t)
  BY Zenon, <1>1, <1>2, <1>5, <1>6, SteadyStep DEF Steady, IgetFound, Interpose
<1>7. CASE \E d \in Dentries : FileRelease(d) \/ DentryKill(d) \/ DentryRelease(d)
  BY Zenon, <1>3, <1>5, <1>7 DEF FileRelease, DentryRelease
<1>8. CASE UNCHANGED vars
  BY <1>5, <1>8 DEF vars
<1> QED
  BY Zenon, <1>4, <1>6, <1>7, <1>8 DEF Next

\* What a lookup has from iget5_locked stays its own until it is interposed.
LEMMA IgetOther ==
  ASSUME OwnInv, [Next]_vars, NEW u \in Tasks, pc'[u] = pc[u], cur'[u] = cur[u],
         pc[u] \in HeldAt
  PROVE  inode'[cur[u].s] = inode[cur[u].s]
<1>0. IgetOK(u) /\ CallOK(u) /\ pc \in [Tasks -> PCs]
  BY Zenon DEF OwnInv, CoreType
<1>1. CASE pc[u] = "ig_init"
  <2>1. cur[u].s \in Slots /\ inode[cur[u].s].st = "new"
    BY Zenon, <1>0, <1>1 DEF IgetOK
  <2>2. ASSUME NEW t \in Tasks, IgetInit(t), cur[t].s = cur[u].s PROVE FALSE
    BY Zenon, <1>0, <1>1, <2>2 DEF IgetInit, Goto, IgetOK
  <2> QED
    BY Zenon, <2>1, <2>2, InodeStep
<1>2. CASE pc[u] = "ig_add"
  <2>1. cur[u].s \in Slots /\ inode[cur[u].s].st = "live" /\ cur[u].d \in Dentries
    BY Zenon, <1>0, <1>2 DEF IgetOK, CallOK, DirPcs, IgetPcs
  <2>2. cur[u].d \in Holders(cur[u].s)
    BY Zenon, <1>2, <2>1 DEF Holders, Holds
  <2>3. ASSUME NEW d \in Dentries, DentryKill(d), Holders(cur[u].s) = {d} PROVE FALSE
    BY Zenon, <2>2, <2>3 DEF DentryKill, Pinned
  <2> QED
    BY Zenon, <2>1, <2>3, InodeStep
<1> QED
  BY Zenon, <1>1, <1>2 DEF HeldAt

\* Where a step of a task takes it.
LEMMA IgetAt ==
  ASSUME OwnInv, NEW t \in Tasks, StartCall(t) \/ Continue(t)
  PROVE  /\ pc'[t] = "ig_init" => IgetNew(t)
         /\ pc'[t] = "ig_add" => IgetFound(t) \/ IgetInit(t)
<1>0. pc \in [Tasks -> PCs]
  BY Zenon DEF OwnInv, CoreType
<1>1. Steady(t) => pc'[t] \notin {"ig_init", "ig_add"}
  BY Zenon DEF Steady, HeldAt
<1>2. IgetFound(t) \/ IgetInit(t) => pc'[t] = "ig_add"
  BY <1>0 DEF IgetFound, IgetInit, Goto
<1>3. IgetNew(t) => pc'[t] = "ig_init"
  BY Zenon, <1>0 DEF IgetNew, Goto
<1>4. Interpose(t) => pc'[t] \in {"idle", "op_lock", "op_out"}
  BY Zenon, <1>0 DEF Interpose, Finish
<1> QED
  BY Zenon, <1>1, <1>2, <1>3, <1>4, SteadyStep

\* Every step keeps what holds of the inodes lookups have got.
LEMMA IgetNext ==
  ASSUME OwnInv, [Next]_vars, NEW u \in Tasks
  PROVE  IgetOK(u)'
<1>0. /\ dent \in [Dentries -> Dentry] /\ pc \in [Tasks -> PCs]
      /\ cur \in [Tasks -> Call] /\ inode \in [Slots -> Inode]
      /\ IgetOK(u) /\ CallOK(u)
  BY DEF OwnInv, CoreType
<1>1. ASSUME pc'[u] = pc[u], cur'[u] = cur[u],
             pc[u] \in DirPcs => dent'[cur[u].d] = dent[cur[u].d],
             \A v \in Tasks \ {u} :
               \/ pc'[v] = pc[v] /\ cur'[v] = cur[v]
               \/ pc'[v] = "ig_init" => /\ cur'[v].s \in Slots
                                        /\ inode[cur'[v].s].st = "free"
      PROVE  IgetOK(u)'
  <2>1. pc[u] \in HeldAt => inode'[cur[u].s] = inode[cur[u].s]
    BY Zenon, <1>1, IgetOther
  <2>2. pc[u] \in HeldAt => pc[u] \in DirPcs
    BY DEF HeldAt, DirPcs, IgetPcs
  <2>3. CASE pc[u] = "ig_init"
    BY Zenon, <1>0, <1>1, <2>1, <2>3 DEF IgetOK, HeldAt
  <2>4. CASE pc[u] # "ig_init"
    BY Zenon, <1>0, <1>1, <2>1, <2>2, <2>4 DEF IgetOK, HeldAt
  <2> QED
    BY Zenon, <2>3, <2>4
<1>2. ASSUME NEW t \in Tasks, StartCall(t) \/ Continue(t), t # u PROVE IgetOK(u)'
  <2>1. \A v \in Tasks \ {t} : pc'[v] = pc[v] /\ cur'[v] = cur[v]
    BY Zenon, <1>2, LocalStep DEF Local
  <2>2. pc[u] \in DirPcs => dent'[cur[u].d] = dent[cur[u].d]
    <3>1. ASSUME pc[u] \in DirPcs PROVE cur[u].d \in Dentries
      BY Zenon, <1>0, <3>1 DEF OwnInv, CallOK
    <3>2. \A d \in Dentries : dent'[d] # dent[d] => Mine(t, d)
      BY Zenon, <1>2, LocalStep DEF Local
    <3> QED
      BY Zenon, <1>2, <3>1, <3>2, Apart
  <2>3. pc'[t] = "ig_init" => cur'[t].s \in Slots /\ inode[cur'[t].s].st = "free"
    <3>1. ASSUME IgetNew(t) PROVE cur'[t].s \in Slots /\ inode[cur'[t].s].st = "free"
      BY <1>0, <3>1 DEF IgetNew, Call
    <3> QED
      BY Zenon, <1>2, <3>1, IgetAt
  <2> QED
    BY Zenon, <1>1, <1>2, <2>1, <2>2, <2>3
<1>3. ASSUME StartCall(u) \/ Continue(u) PROVE IgetOK(u)'
  <2>1. \A v \in Tasks \ {u} : pc'[v] = pc[v] /\ cur'[v] = cur[v]
    BY Zenon, <1>3, LocalStep DEF Local
  <2>2. CASE IgetFound(u)
    <3>1. PICK s \in Matches(dent[cur[u].d].l) :
            inode[s].st = "live" /\ cur' = [cur EXCEPT ![u].s = s]
      BY Zenon, <2>2 DEF IgetFound
    <3>2. /\ pc'[u] = "ig_add" /\ cur'[u].s = s /\ cur'[u].d = cur[u].d
          /\ UNCHANGED <<inode, dent>>
      BY <1>0, <2>2, <3>1 DEF IgetFound, Goto, Call
    <3> QED
      BY Zenon, <3>1, <3>2 DEF IgetOK, Matches
  <2>3. CASE IgetNew(u)
    <3>1. PICK s \in Slots : /\ inode[s].st = "free"
                             /\ inode' = [inode EXCEPT ![s].st = "new"]
                             /\ cur' = [cur EXCEPT ![u].s = s]
      BY Zenon, <2>3 DEF IgetNew
    <3>2. pc'[u] = "ig_init" /\ cur'[u].s = s /\ inode'[s].st = "new"
      BY <1>0, <2>3, <3>1 DEF IgetNew, Goto, Call, Inode
    <3>3. \A v \in Tasks \ {u} : pc[v] = "ig_init" => cur[v].s # s
      BY <3>1 DEF OwnInv, IgetOK
    <3> QED
      BY Zenon, <2>1, <3>2, <3>3 DEF IgetOK
  <2>4. CASE IgetInit(u)
    <3>1. /\ pc[u] = "ig_init" /\ pc'[u] = "ig_add" /\ UNCHANGED <<dent, cur>>
          /\ inode' = [inode EXCEPT ![cur[u].s] = [st |-> "live",
                                                   l |-> dent[cur[u].d].l]]
      BY Zenon, <1>0, <2>4 DEF IgetInit, Goto
    <3>2. cur[u].s \in Slots
      BY <1>0, <3>1 DEF IgetOK
    <3> QED
      BY Zenon, <1>0, <3>1, <3>2 DEF IgetOK
  <2>5. CASE pc'[u] \notin HeldAt
    BY Zenon, <2>5 DEF IgetOK, HeldAt
  <2> QED
    BY Zenon, <1>3, <2>2, <2>3, <2>4, <2>5, IgetAt DEF HeldAt
<1>4. ASSUME UNCHANGED <<pc, cur>>, NEW d \in Dentries,
             dent[d].st = "dying" \/ ~ Pinned(d),
             \A x \in Dentries \ {d} : dent'[x] = dent[x]
      PROVE  IgetOK(u)'
  <2>1. pc[u] \in DirPcs => cur[u].d \in Dentries \ {d}
    BY Zenon, <1>0, <1>4 DEF CallOK, InUse, Pinned
  <2> QED
    BY <1>1, <1>4, <2>1
<1>5. ASSUME NEW d \in Dentries, DentryKill(d) \/ DentryRelease(d) PROVE IgetOK(u)'
  <2>1. /\ UNCHANGED <<pc, cur>> /\ (dent[d].st = "dying" \/ ~ Pinned(d))
    BY Zenon, <1>5 DEF DentryKill, DentryRelease
  <2>2. \A x \in Dentries \ {d} : dent'[x] = dent[x]
    BY <1>0, <1>5 DEF DentryKill, DentryRelease, Release
  <2> QED
    BY Zenon, <1>4, <2>1, <2>2
<1>6. CASE \/ UNCHANGED vars \/ \E d \in Dentries : FileRelease(d)
           \/ \E s \in Slots : EvictInode(s) \/ DestroyInode(s)
  BY Zenon, <1>1, <1>6 DEF vars, FileRelease, EvictInode, DestroyInode
<1> QED
  BY Zenon, <1>2, <1>3, <1>5, <1>6 DEF Next

\* Most steps leave the holders of every inode alone.
LEMMA HoldersSame ==
  ASSUME OwnInv, [Next]_vars, NEW s,
         \A t \in Tasks : ~ IgetFound(t) /\ ~ IgetNew(t),
         \A d \in Dentries : ~ DentryKill(d)
  PROVE  Holders(s)' = Holders(s) /\ icount' = icount
<1>0. /\ dent \in [Dentries -> Dentry] /\ pc \in [Tasks -> PCs]
      /\ cur \in [Tasks -> Call]
  BY Zenon DEF OwnInv, CoreType
<1>1. SUFFICES /\ \A d \in Dentries : Holds(d, s)' <=> Holds(d, s)
               /\ icount' = icount
  BY DEF Holders
<1>2. ASSUME NEW t \in Tasks, Steady(t), StartCall(t) \/ Continue(t)
      PROVE  /\ \A d \in Dentries : Holds(d, s)' <=> Holds(d, s)
             /\ icount' = icount
  <2>1. \A u \in Tasks \ {t} : pc'[u] = pc[u] /\ cur'[u] = cur[u]
    BY Zenon, <1>2, LocalStep DEF Local
  <2>2. \A d \in Dentries :
          /\ dent'[d].st \in InUse <=> dent[d].st \in InUse
          /\ dent[d].st \in InUse => dent'[d].ino = dent[d].ino
    BY Zenon, <1>2 DEF Steady, SteadyAt
  <2>3. pc[t] \notin {"ig_init", "ig_add"} /\ pc'[t] \notin {"ig_init", "ig_add"}
    BY Zenon, <1>2 DEF Steady, HeldAt
  <2>4. \A u \in Tasks : pc'[u] \in {"ig_init", "ig_add"} \/ pc[u] \in {"ig_init", "ig_add"}
                         => pc'[u] = pc[u] /\ cur'[u] = cur[u]
    BY Zenon, <2>1, <2>3
  <2>5. ASSUME NEW d \in Dentries PROVE Holds(d, s)' <=> Holds(d, s)
    BY Zenon, <2>2, <2>4 DEF Holds
  <2> QED
    BY Zenon, <1>2, <2>5 DEF Steady
<1>3. ASSUME NEW t \in Tasks, IgetInit(t)
      PROVE  /\ \A d \in Dentries : Holds(d, s)' <=> Holds(d, s)
             /\ icount' = icount
  <2>1. /\ UNCHANGED <<dent, cur, icount>> /\ pc[t] = "ig_init"
        /\ pc' = [pc EXCEPT ![t] = "ig_add"]
    BY Zenon, <1>3 DEF IgetInit, Goto
  <2>2. \A u \in Tasks : pc'[u] \in {"ig_init", "ig_add"} <=>
                         pc[u] \in {"ig_init", "ig_add"}
    BY Zenon, <1>0, <2>1
  <2> QED
    BY Zenon, <2>1, <2>2 DEF Holds
<1>4. ASSUME NEW t \in Tasks, Interpose(t)
      PROVE  /\ \A d \in Dentries : Holds(d, s)' <=> Holds(d, s)
             /\ icount' = icount
  <2>1. /\ pc[t] = "ig_add" /\ UNCHANGED icount
        /\ pc'[t] \notin {"ig_init", "ig_add"}
        /\ dent' = [dent EXCEPT ![cur[t].d].st = "hashed",
                                ![cur[t].d].ino = cur[t].s]
    BY Zenon, <1>0, <1>4 DEF Interpose, Finish
  <2>2. \A u \in Tasks \ {t} : pc'[u] = pc[u] /\ cur'[u] = cur[u]
    BY <1>0, <1>4 DEF Interpose, Finish
  <2>3. cur[t].d \in Dentries /\ dent[cur[t].d].st = "fresh" /\ pc[t] \in DirPcs
    BY Zenon, <2>1 DEF OwnInv, CallOK, StageOK, DirPcs, IgetPcs
  <2>4. /\ dent'[cur[t].d].st = "hashed" /\ dent'[cur[t].d].ino = cur[t].s
        /\ \A d \in Dentries \ {cur[t].d} : dent'[d] = dent[d]
    BY <1>0, <2>1, <2>3 DEF Dentry
  <2>5. \A u \in Tasks \ {t} : pc[u] \in DirPcs => cur[u].d # cur[t].d
    BY Zenon, <2>3, Apart DEF Mine
  <2>6. \A d \in Dentries \ {cur[t].d} : Holds(d, s)' <=> Holds(d, s)
    BY Zenon, <2>1, <2>2, <2>4 DEF Holds
  <2>7. Holds(cur[t].d, s) <=> cur[t].s = s
    BY Zenon, <2>1, <2>3, <2>5 DEF Holds, InUse, DirPcs, IgetPcs
  <2>8. PICK d \in Dentries : d = cur[t].d
    BY Zenon, <2>3
  <2>9. Holds(d, s)' <=> cur[t].s = s
    BY Zenon, <2>1, <2>2, <2>4, <2>5, <2>8 DEF Holds, InUse, DirPcs, IgetPcs
  <2> QED
    BY Zenon, <2>1, <2>6, <2>7, <2>8, <2>9
<1>5. CASE \E t \in Tasks : StartCall(t) \/ Continue(t)
  BY Zenon, <1>2, <1>3, <1>4, <1>5, SteadyStep
<1>6. ASSUME NEW d \in Dentries, DentryRelease(d)
      PROVE  /\ \A x \in Dentries : Holds(x, s)' <=> Holds(x, s)
             /\ icount' = icount
  <2>1. /\ UNCHANGED <<pc, cur, icount>> /\ dent[d].st = "dying"
        /\ dent' = [dent EXCEPT ![d] = FreeDentry]
    BY Zenon, <1>6 DEF DentryRelease, Release
  <2>2. /\ dent'[d].st = "free" /\ \A x \in Dentries \ {d} : dent'[x] = dent[x]
    BY <1>0, <2>1 DEF FreeDentry
  <2> QED
    BY Zenon, <2>1, <2>2 DEF Holds, InUse
<1>7. CASE \/ UNCHANGED vars \/ \E d \in Dentries : FileRelease(d)
           \/ \E r \in Slots : EvictInode(r) \/ DestroyInode(r)
  BY Zenon, <1>7 DEF vars, FileRelease, EvictInode, DestroyInode, Holds
<1> QED
  BY Zenon, <1>5, <1>6, <1>7 DEF Next

\* iget5_locked gives the inode one more holder, the last dput takes one away.
LEMMA HoldersMore ==
  ASSUME OwnInv, NEW t \in Tasks, NEW s \in Slots,
         IgetFound(t) \/ IgetNew(t), cur' = [cur EXCEPT ![t].s = s]
  PROVE  /\ cur[t].d \notin Holders(s)
         /\ Holders(s)' = Holders(s) \cup {cur[t].d}
         /\ \A r \in Slots \ {s} : Holders(r)' = Holders(r)
<1>0. pc \in [Tasks -> PCs] /\ cur \in [Tasks -> Call]
  BY DEF OwnInv, CoreType
<1>1. /\ pc[t] = "ig_find" /\ pc'[t] \in {"ig_init", "ig_add"} /\ dent' = dent
      /\ \A u \in Tasks \ {t} : pc'[u] = pc[u]
  BY <1>0 DEF IgetFound, IgetNew, Goto
<1>2. /\ cur'[t].s = s /\ cur'[t].d = cur[t].d
      /\ \A u \in Tasks \ {t} : cur'[u] = cur[u]
  BY Zenon, <1>0 DEF Call
<1>3. cur[t].d \in Dentries /\ dent[cur[t].d].st = "fresh" /\ pc[t] \in DirPcs
  BY <1>1 DEF OwnInv, CallOK, StageOK, DirPcs, IgetPcs
<1>4. \A u \in Tasks \ {t} : pc[u] \in DirPcs => cur[u].d # cur[t].d
  BY Zenon, <1>3, Apart DEF Mine
<1>5. \A r \in Slots : cur[t].d \notin Holders(r)
  BY Zenon, <1>1, <1>3, <1>4 DEF Holders, Holds, InUse, DirPcs, IgetPcs
<1>6. \A r \in Slots, d \in Dentries :
        Holds(d, r)' <=> Holds(d, r) \/ (d = cur[t].d /\ r = s)
  BY <1>1, <1>2 DEF Holds
<1> QED
  BY Zenon, <1>3, <1>5, <1>6 DEF Holders

\* A dentry that is killed no longer holds its inode.
LEMMA HoldersLess ==
  ASSUME OwnInv, NEW d \in Dentries, DentryKill(d)
  PROVE  /\ dent[d].ino \in Slots
         /\ \A s \in Slots : s = dent[d].ino =>
              d \in Holders(s) /\ Holders(s)' = Holders(s) \ {d}
         /\ \A r \in Slots : r # dent[d].ino => Holders(r)' = Holders(r)
<1>0. dent \in [Dentries -> Dentry]
  BY Zenon DEF OwnInv, CoreType
<1>1. /\ dent[d].st \in InUse /\ ~ Pinned(d) /\ UNCHANGED <<pc, cur>>
      /\ dent' = [dent EXCEPT ![d].st = "dying"]
  BY DEF DentryKill, InUse
<1>2. /\ dent'[d].st = "dying" /\ \A x \in Dentries \ {d} : dent'[x] = dent[x]
  BY Zenon, <1>0, <1>1 DEF Dentry
<1>3. dent[d].ino \in Slots
  BY <1>1 DEF OwnInv, DentOK
<1>4. \A r \in Slots : Holds(d, r) <=> r = dent[d].ino
  BY <1>1 DEF Holds, Pinned
<1>5. \A r \in Slots : ~ Holds(d, r)'
  BY <1>1, <1>2 DEF Holds, Pinned, InUse
<1>6. \A r \in Slots, x \in Dentries \ {d} : Holds(x, r)' <=> Holds(x, r)
  BY Zenon, <1>1, <1>2 DEF Holds
<1> QED
  BY Zenon, <1>3, <1>4, <1>5, <1>6 DEF Holders

\* Every step keeps i_count the number of holders.
LEMMA HoldNext ==
  ASSUME OwnInv, [Next]_vars
  PROVE  HoldInv'
<1>0. HoldInv /\ inode \in [Slots -> Inode] /\ icount \in [Slots -> Nat]
  BY Zenon DEF OwnInv, CoreType, HoldInv
<1>1. ASSUME NEW t \in Tasks, IgetFound(t) \/ IgetNew(t) PROVE HoldInv'
  <2>1. PICK s \in Slots :
          /\ cur' = [cur EXCEPT ![t].s = s]
          /\ icount' = [icount EXCEPT ![s] = icount[s] + 1]
          /\ \A r \in Slots \ {s} : inode'[r] = inode[r]
    <3>1. CASE IgetFound(t)
      BY Zenon, <3>1 DEF IgetFound, Matches, Bump
    <3>2. CASE IgetNew(t)
      <4>1. PICK s \in Slots : /\ inode[s].st = "free"
                               /\ inode' = [inode EXCEPT ![s].st = "new"]
                               /\ icount' = [icount EXCEPT ![s] = 1]
                               /\ cur' = [cur EXCEPT ![t].s = s]
        BY Zenon, <3>2 DEF IgetNew
      <4>2. icount[s] + 1 = 1
        BY <4>1, HolderFacts
      <4>3. \A r \in Slots \ {s} : inode'[r] = inode[r]
        BY <1>0, <4>1
      <4> QED
        BY Zenon, <4>1, <4>2, <4>3
    <3> QED
      BY Zenon, <1>1, <3>1, <3>2
  <2>2. /\ cur[t].d \notin Holders(s) /\ IsFiniteSet(Holders(s))
        /\ Holders(s)' = Holders(s) \cup {cur[t].d}
        /\ \A r \in Slots \ {s} : Holders(r)' = Holders(r)
    BY Zenon, <1>1, <2>1, HoldersMore, HolderFacts
  <2>3. Cardinality(Holders(s)') = Cardinality(Holders(s)) + 1
    <3>1. Cardinality(Holders(s) \cup {cur[t].d}) =
            IF cur[t].d \in Holders(s) THEN Cardinality(Holders(s))
            ELSE Cardinality(Holders(s)) + 1
      BY Zenon, <2>2, FS_AddElement
    <3> QED
      BY Zenon, <2>2, <3>1
  <2>4. icount' \in [Slots -> Nat]
    BY <1>0, <2>1
  <2>5. ASSUME NEW r \in Slots
        PROVE  /\ icount'[r] = Cardinality(Holders(r)')
               /\ inode'[r].st \in {"new", "live"} => Holders(r)' # {}
    BY Zenon, <1>0, <2>1, <2>2, <2>3 DEF HoldInv
  <2> QED
    BY <2>4, <2>5 DEF HoldInv
<1>2. ASSUME NEW d \in Dentries, DentryKill(d) PROVE HoldInv'
  <2>1. PICK s \in Slots : s = dent[d].ino
    BY Zenon, <1>2, HoldersLess
  <2>2. /\ d \in Holders(s) /\ Holders(s)' = Holders(s) \ {d}
        /\ \A r \in Slots \ {s} : Holders(r)' = Holders(r)
    BY Zenon, <1>2, <2>1, HoldersLess
  <2>3. /\ icount' = [icount EXCEPT ![s] = icount[s] - 1]
        /\ \A r \in Slots \ {s} : inode'[r] = inode[r]
        /\ icount[s] = 1 => inode'[s].st = "freeing"
    BY Zenon, <1>0, <1>2, <2>1 DEF DentryKill, Bump, Inode
  <2>4. Cardinality(Holders(s)') = Cardinality(Holders(s)) - 1
    BY Zenon, <2>2, HolderFacts, FS_RemoveElement
  <2>5. icount[s] = Cardinality(Holders(s)) /\ Cardinality(Holders(s)) > 0
    <3>1. Cardinality(Holders(s)) # 0
      BY Zenon, <2>2, HolderFacts, FS_EmptySet
    <3> QED
      BY <1>0, <3>1 DEF HoldInv
  <2>6. icount' \in [Slots -> Nat]
    BY <1>0, <2>3, <2>5
  <2>7. icount[s] # 1 => Holders(s)' # {}
    <3>1. Cardinality({}) = 0
      BY Zenon, FS_EmptySet
    <3> QED
      BY <1>0, <2>4, <2>5, <3>1
  <2>8. ASSUME NEW r \in Slots
        PROVE  /\ icount'[r] = Cardinality(Holders(r)')
               /\ inode'[r].st \in {"new", "live"} => Holders(r)' # {}
    <3>1. CASE r = s
      BY Zenon, <1>0, <2>3, <2>4, <2>5, <2>7, <3>1
    <3>2. CASE r # s
      BY Zenon, <1>0, <2>2, <2>3, <3>2 DEF HoldInv
    <3> QED
      BY Zenon, <3>1, <3>2
  <2> QED
    BY <2>6, <2>8 DEF HoldInv
<1>3. ASSUME \A t \in Tasks : ~ IgetFound(t) /\ ~ IgetNew(t),
             \A d \in Dentries : ~ DentryKill(d)
      PROVE  HoldInv'
  <2>1. \A s \in Slots : Holders(s)' = Holders(s) /\ icount' = icount
    BY <1>3, HoldersSame
  <2>2. ASSUME NEW s \in Slots
        PROVE  inode'[s].st \in {"new", "live"} => inode[s].st \in {"new", "live"}
    <3>1. CASE \E t \in Tasks : StartCall(t) \/ Continue(t)
      <4>1. ASSUME NEW t \in Tasks, IgetInit(t)
            PROVE  inode[cur[t].s].st = "new" /\ cur[t].s \in Slots
        BY Zenon, <4>1 DEF IgetInit, Goto, OwnInv, IgetOK
      <4>2. CASE \E t \in Tasks : IgetInit(t)
        BY Zenon, <1>0, <4>1, <4>2 DEF IgetInit
      <4>3. CASE \A t \in Tasks : ~ IgetInit(t)
        BY Zenon, <1>3, <3>1, <4>3, SteadyStep DEF Steady, Interpose
      <4> QED
        BY <4>2, <4>3
    <3>2. CASE \E r \in Slots : EvictInode(r) \/ DestroyInode(r)
      BY <1>0, <3>2 DEF EvictInode, DestroyInode, FreeInode
    <3>3. CASE \E d \in Dentries : FileRelease(d) \/ DentryKill(d) \/ DentryRelease(d)
      BY Zenon, <1>3, <3>3 DEF FileRelease, DentryRelease
    <3> QED
      BY Zenon, <3>1, <3>2, <3>3 DEF Next, vars
  <2>3. icount' = icount
    BY Zenon, <1>3, HoldersSame
  <2> QED
    BY Zenon, <1>0, <2>1, <2>2, <2>3 DEF HoldInv
<1> QED
  BY Zenon, <1>1, <1>2, <1>3

\* In the first state nothing is owned.
LEMMA OwnInvInit == Init => OwnInv
<1> SUFFICES ASSUME Init PROVE OwnInv
  OBVIOUS
<1> USE DEF Init
<1>1. CoreType
  BY Zenon, InodeAssumption DEF CoreType, Dentry, FreeDentry, Inode, FreeInode, PCs,
     Call, NoCall
<1>2. \A t \in Tasks : CallOK(t) /\ StageOK(t) /\ IgetOK(t)
  BY Zenon DEF CallOK, StageOK, IgetOK, DirPcs, LookPcs, IgetPcs, OpPcs, OpenPcs
<1>3. \A d \in Dentries : DentOK(d)
  BY Zenon DEF DentOK, FreeDentry, InUse
<1>4. \A s \in Slots : SlotOK(s)
  BY Zenon DEF SlotOK, FreeInode
<1>5. \A s \in Slots : Holders(s) = {} /\ inode[s].st = "free" /\ icount[s] = 0
  BY Zenon DEF Holders, Holds, FreeDentry, InUse, FreeInode
<1>6. HoldInv
  BY Zenon, <1>5, FS_EmptySet DEF HoldInv
<1> QED
  BY Zenon, <1>1, <1>2, <1>3, <1>4, <1>6 DEF OwnInv

\* One step keeps the invariant.
LEMMA OwnInvNext ==
  ASSUME OwnInv, [Next]_vars
  PROVE  OwnInv'
<1>1. CoreType'
  BY CoreTypeNext
<1>2. \A t \in Tasks : CallOK(t)' /\ StageOK(t)'
  BY CallNext
<1>3. \A t \in Tasks : IgetOK(t)'
  BY IgetNext
<1>4. \A d \in Dentries : DentOK(d)'
  BY DentNext
<1>5. \A s \in Slots : SlotOK(s)'
  BY SlotNext
<1>6. HoldInv'
  BY HoldNext
<1> QED
  BY Zenon, <1>1, <1>2, <1>3, <1>4, <1>5, <1>6 DEF OwnInv

\* Whatever calls, failures and reclaim come together: a directory operation
\* has its dentries to itself, a dentry in use has a live inode of the lower
\* inode its path leads to, and i_count is the number of dentries that have
\* the inode or are about to, so that no inode is freed under a dentry.
THEOREM Ownership == Spec => []OwnInv
<1>1. Init => OwnInv
  BY OwnInvInit
<1>2. OwnInv /\ [Next]_vars => OwnInv'
  BY OwnInvNext
<1> QED
  BY <1>1, <1>2, PTL DEF Spec

-----------------------------------------------------------------------------
(***************************************************************************)
(* Facts about single steps that the invariants of the other modules use.  *)
(***************************************************************************)

\* A call starts in an idle task and changes no lower name and no count.
LEMMA CallStarts ==
  ASSUME NEW t \in Tasks, StartCall(t)
  PROVE  pc[t] = "idle" /\ UNCHANGED <<target, lowerRef, attrVars>>
<1>1. CASE LookupBegin(t)
  <2>1. PICK op, n, d, e : LookupFor(t, op, n, d, e)
    BY Zenon, <1>1 DEF LookupBegin
  <2> QED
    BY Zenon, <2>1 DEF LookupFor, Begin, Goto
<1>2. CASE RemoveBegin(t)
  BY Zenon, <1>2 DEF RemoveBegin, Begin, Goto
<1>3. CASE RenameBegin(t)
  BY Zenon, <1>3 DEF RenameBegin, Begin, Goto
<1>4. CASE OpenBegin(t)
  BY Zenon, <1>4 DEF OpenBegin, Begin, Goto
<1> QED
  BY Zenon, <1>1, <1>2, <1>3, <1>4 DEF StartCall

\* Only wrapfs_iget changes references to a lower inode or makes a second
\* wrapfs inode for one.
LEMMA OnlyIget ==
  ASSUME NEW t \in Tasks, StartCall(t) \/ Continue(t)
  PROVE  IgetNoMemory(t) \/ IgetInit(t) \/ UNCHANGED <<lowerRef, doubled>>
<1> USE DEF attrVars
<1>1. CASE StartCall(t)
  BY Zenon, <1>1, CallStarts
<1>2. CASE \/ LookupInfo(t) \/ LookupPositive(t) \/ LookupNegative(t) \/ LookupError(t)
           \/ IgetFound(t) \/ IgetNew(t)
  BY Zenon, <1>2 DEF LookupInfo, LookupPositive, LookupNegative, LookupError, LookupFails,
     IgetFound, IgetNew
<1>3. CASE Interpose(t) \/ InterposeFails(t) \/ RenameRefused(t) \/ OpLock(t)
  BY Zenon, <1>3 DEF Interpose, InterposeFails, LookupFails, RenameRefused, OpLock
<1>4. CASE OpWantWrite(t) \/ OpWantNewWrite(t) \/ OpFails(t)
  BY <1>4 DEF OpWantWrite, OpWantNewWrite, OpFails
<1>5. CASE OpCreate(t) \/ OpMknod(t) \/ OpSymlink(t) \/ OpMkdir(t) \/ OpLink(t)
  BY Zenon, <1>5 DEF OpCreate, OpMknod, OpSymlink, OpMkdir, OpLink, OpMake
<1>6. CASE OpUnlink(t) \/ OpUnlinkBug(t) \/ OpRmdir(t) \/ OpRename(t)
  BY Zenon, <1>6 DEF OpUnlink, OpUnlinkBug, OpRmdir, OpRename
<1>7. CASE OpDropWrite(t) \/ OpUnlock(t) \/ OpReturn(t) \/ OpenCheck(t) \/ OpenLower(t)
  BY Zenon, <1>7 DEF OpDropWrite, OpUnlock, OpReturn, OpenCheck, OpenLower
<1> QED
  BY Zenon, <1>1, <1>2, <1>3, <1>4, <1>5, <1>6, <1>7 DEF Continue

\* What vfs_rename does to the dentries: d and e trade their lower names.
LEMMA RenameEffect ==
  ASSUME OwnInv, NEW t \in Tasks, OpRename(t)
  PROVE  \E d, e \in Dentries :
           /\ d # e /\ d = cur[t].d /\ e = cur[t].e /\ dent[e].st = "hashed"
           /\ dent[d].ln \in Names /\ dent[e].ln \in Names
           /\ \A x \in Dentries \ {d, e} : dent'[x] = dent[x]
           /\ \A x \in Dentries :
                /\ dent'[x].st = dent[x].st /\ dent'[x].n = dent[x].n
                /\ dent'[x].l = dent[x].l /\ dent'[x].path = dent[x].path
                /\ dent'[x].ino = dent[x].ino
           /\ IF dent[d].l = dent[e].l
              THEN dent' = dent /\ target' = target
              ELSE /\ dent'[d].ln = dent[e].ln /\ dent'[e].ln = dent[d].ln
                   /\ target' = [target EXCEPT ![dent[d].ln] = dent[e].l,
                                               ![dent[e].ln] = NULL]
<1>0. dent \in [Dentries -> Dentry] /\ CallOK(t) /\ StageOK(t)
  BY DEF OwnInv, CoreType
<1>1. pc[t] = "op_do" /\ cur[t].op = "rename"
  BY Zenon DEF OpRename, Goto
<1>2. pc[t] \in DirPcs /\ pc[t] \in OpPcs
  BY <1>1 DEF DirPcs, OpPcs
<1>3. /\ cur[t].d \in Dentries /\ cur[t].e \in Dentries \ {cur[t].d}
      /\ dent[cur[t].e].st = "hashed"
  BY Zenon, <1>0, <1>1, <1>2 DEF CallOK
<1>4. PICK d \in Dentries, e \in Dentries : d = cur[t].d /\ e = cur[t].e
  BY Zenon, <1>3
<1>5. d # e /\ dent[e].st = "hashed"
  BY Zenon, <1>3, <1>4
<1>6. dent[d].ln \in Names
  BY Zenon, <1>0, <1>2, <1>4 DEF StageOK
<1>7. dent[e].ln \in Names
  BY Zenon, <1>5 DEF OwnInv, DentOK, InUse
<1>8. PICK a, b : a = dent[e].ln /\ b = dent[d].ln
  BY Zenon
<1>g. PICK g : g = Below(d, e, a, b)
  BY Zenon
<1>9. /\ \A x \in Dentries \ {d, e} : g[x] = dent[x]
      /\ \A x \in Dentries :
           /\ g[x].st = dent[x].st /\ g[x].n = dent[x].n
           /\ g[x].l = dent[x].l /\ g[x].path = dent[x].path
           /\ g[x].ino = dent[x].ino
      /\ g[d].ln = a /\ g[e].ln = b
  BY <1>0, <1>5, <1>g, RenamedBelow
<1>10. IF dent[d].l = dent[e].l
       THEN dent' = dent /\ target' = target
       ELSE /\ dent' = g
            /\ target' = [target EXCEPT ![dent[d].ln] = dent[e].l,
                                        ![dent[e].ln] = NULL]
  BY Zenon, <1>4, <1>8, <1>g DEF OpRename, Below
<1>11. CASE dent[d].l = dent[e].l
  BY Zenon, <1>4, <1>5, <1>6, <1>7, <1>10, <1>11
<1>12. CASE dent[d].l # dent[e].l
  <2>1. /\ dent' = g
        /\ target' = [target EXCEPT ![dent[d].ln] = dent[e].l,
                                    ![dent[e].ln] = NULL]
    BY Zenon, <1>10, <1>12
  <2>2. dent'[d].ln = dent[e].ln /\ dent'[e].ln = dent[d].ln
    BY Zenon, <1>8, <1>9, <2>1
  <2>3. /\ \A x \in Dentries \ {d, e} : dent'[x] = dent[x]
        /\ \A x \in Dentries :
             /\ dent'[x].st = dent[x].st /\ dent'[x].n = dent[x].n
             /\ dent'[x].l = dent[x].l /\ dent'[x].path = dent[x].path
             /\ dent'[x].ino = dent[x].ino
    BY Zenon, <1>9, <2>1
  <2> QED
    BY Zenon, <1>4, <1>5, <1>6, <1>7, <1>12, <2>1, <2>2, <2>3
<1> QED
  BY Zenon, <1>11, <1>12

\* What the return of a call does: d_move after a rename, d_release of a
\* dentry that is still negative.
LEMMA ReturnEffect ==
  ASSUME OwnInv, NEW t \in Tasks, OpReturn(t)
  PROVE  \E d \in Dentries :
           /\ d = cur[t].d /\ dent[d].path
           /\ \A x \in Dentries \ {d} :
                /\ dent'[x].st = dent[x].st /\ dent'[x].l = dent[x].l
                /\ dent'[x].path = dent[x].path /\ dent'[x].ino = dent[x].ino
                /\ dent'[x].ln = dent[x].ln
                /\ IF cur[t].op = "rename" /\ cur[t].ok /\ x = cur[t].e
                   THEN dent'[x].n = cur[t].n ELSE dent'[x] = dent[x]
           /\ IF dent[d].ino = NULL
              THEN /\ dent[d].st = "fresh" /\ dent'[d] = FreeDentry
                   /\ pathRef' = Bump(pathRef, d, -1)
              ELSE /\ dent[d].st \in InUse /\ UNCHANGED pathRef
                   /\ dent'[d].l = dent[d].l /\ dent'[d].path
                   /\ dent'[d].ino = dent[d].ino /\ dent'[d].ln = dent[d].ln
                   /\ IF cur[t].op = "rename" /\ cur[t].ok
                      THEN dent'[d].st = "unhashed" ELSE dent'[d] = dent[d]
<1>0. dent \in [Dentries -> Dentry] /\ CallOK(t) /\ StageOK(t)
  BY DEF OwnInv, CoreType
<1>1. pc[t] = "op_return"
  BY Zenon DEF OpReturn
<1>2. pc[t] \in DirPcs /\ pc[t] \in OpPcs
  BY <1>1 DEF DirPcs, OpPcs
<1>3. PICK d \in Dentries : d = cur[t].d
  BY Zenon, <1>0, <1>2 DEF CallOK
<1>4. dent[d].path /\ dent[d].st \in InUse \cup {"fresh"}
  BY Zenon, <1>0, <1>2, <1>3 DEF StageOK, CallOK
<1>5. IF dent[d].ino = NULL THEN dent[d].st = "fresh" ELSE dent[d].st \in InUse
  BY <1>4, InodeAssumption DEF OwnInv, DentOK
<1>6. CASE cur[t].op = "rename" /\ cur[t].ok
  <2>1. PICK e \in Dentries : e = cur[t].e
    BY Zenon, <1>0, <1>2, <1>6 DEF CallOK
  <2>2. d # e
    BY Zenon, <1>0, <1>2, <1>3, <1>6, <2>1 DEF CallOK
  <2>3. PICK a \in Names \cup {NULL}, b \in Names \cup {NULL} :
          a = dent[e].n /\ b = cur[t].n
    <3>1. dent[e].n \in Names \cup {NULL} /\ cur[t].n \in Names
      BY Zenon, <1>0, <1>2 DEF CallOK, Dentry
    <3> QED
      BY Zenon, <3>1
  <2>a. dent \in [Dentries -> Dentry]
    BY Zenon, <1>0
  <2> DEFINE g == Above(d, e, a, b)
  <2>m. MovedOnto(g, d, e, a, b)
    BY Zenon, <2>2, <2>a, RenamedAbove
  <2>5. DOMAIN g = Dentries
    BY Zenon, <2>a DEF Above
  <2> HIDE DEF g
  <2>4. /\ \A x \in Dentries \ {d, e} : g[x] = dent[x]
        /\ \A x \in Dentries : /\ g[x].l = dent[x].l /\ g[x].path = dent[x].path
                               /\ g[x].ino = dent[x].ino /\ g[x].ln = dent[x].ln
                               /\ x # d => g[x].st = dent[x].st
        /\ g[d].st = "unhashed" /\ g[d].n = a /\ g[e].n = b
    BY Zenon, <2>m DEF MovedOnto
  <2>6. IF dent[d].ino = NULL
        THEN dent' = [g EXCEPT ![d] = FreeDentry] /\ pathRef' = Bump(pathRef, d, -1)
        ELSE dent' = g /\ UNCHANGED pathRef
    BY Zenon, <1>3, <1>6, <2>1, <2>3 DEF OpReturn, Above, g
  <2>7. \A x \in Dentries \ {d} : dent'[x] = g[x]
    BY Zenon, <2>5, <2>6
  <2>8. IF dent[d].ino = NULL THEN dent'[d] = FreeDentry ELSE dent'[d] = g[d]
    BY Zenon, <2>5, <2>6
  <2>9. /\ \A x \in Dentries \ {d} :
             /\ dent'[x].st = dent[x].st /\ dent'[x].l = dent[x].l
             /\ dent'[x].path = dent[x].path /\ dent'[x].ino = dent[x].ino
             /\ dent'[x].ln = dent[x].ln
             /\ IF x = e THEN dent'[x].n = b ELSE dent'[x] = dent[x]
    BY Zenon, <2>4, <2>7
  <2> QED
    <3>1. IF dent[d].ino = NULL
          THEN /\ dent[d].st = "fresh" /\ dent'[d] = FreeDentry
               /\ pathRef' = Bump(pathRef, d, -1)
          ELSE /\ dent[d].st \in InUse /\ UNCHANGED pathRef
               /\ dent'[d].l = dent[d].l /\ dent'[d].path
               /\ dent'[d].ino = dent[d].ino /\ dent'[d].ln = dent[d].ln
               /\ dent'[d].st = "unhashed"
      BY Zenon, <1>4, <1>5, <2>4, <2>6, <2>8
    <3> QED
      BY Zenon, <1>3, <1>4, <1>6, <2>1, <2>3, <2>9, <3>1
<1>7. CASE ~ (cur[t].op = "rename" /\ cur[t].ok)
  <2>1. IF dent[d].ino = NULL
        THEN /\ dent' = [dent EXCEPT ![d] = FreeDentry]
             /\ pathRef' = Bump(pathRef, d, -1)
        ELSE dent' = dent /\ UNCHANGED pathRef
    BY Zenon, <1>3, <1>7 DEF OpReturn
  <2>2. \A x \in Dentries \ {d} : dent'[x] = dent[x]
    BY Zenon, <1>0, <2>1
  <2>3. IF dent[d].ino = NULL THEN dent'[d] = FreeDentry ELSE dent'[d] = dent[d]
    BY Zenon, <1>0, <2>1
  <2> QED
    BY Zenon, <1>3, <1>4, <1>5, <1>7, <2>1, <2>2, <2>3
<1> QED
  BY Zenon, <1>6, <1>7

-----------------------------------------------------------------------------
(***************************************************************************)
(* Types of the rest.                                                      *)
(***************************************************************************)
RestType ==
  /\ lowerLock \in [Dirs -> Tasks \cup {NoTask}]
  /\ lowerRef \in [LowerInodes -> Int]
  /\ nlink \in [Slots -> Nat] /\ dirLinks \in [Dirs -> Nat]
  /\ behind \subseteq Slots \cup Dirs /\ doubled \subseteq LowerInodes
  /\ opsLeft \in 0 .. MaxOps /\ faultsLeft \in 0 .. MaxFaults

\* What a step of a call leaves alone.
Frame(t) ==
  /\ OpLock(t) \/ OpUnlock(t) \/ UNCHANGED lowerLock
  /\ \/ IgetInit(t) \/ Interpose(t) \/ InterposeFails(t)
     \/ OpUnlink(t) \/ OpRmdir(t) \/ OpRename(t)
     \/ UNCHANGED <<nlink, dirLinks, behind>>
  /\ OpWantWrite(t) \/ OpWantNewWrite(t) \/ OpDropWrite(t) \/ UNCHANGED mntWriters
  /\ OpMake(t) \/ OpUnlink(t) \/ OpRmdir(t) \/ OpRename(t) \/ UNCHANGED target
  /\ OpenLower(t) \/ UNCHANGED opens
  /\ \/ LookupBegin(t) \/ LookupFails(t) \/ LookupNegative(t) \/ Interpose(t)
     \/ UNCHANGED parentRef
  /\ \/ LookupFails(t) \/ LookupPositive(t) \/ LookupNegative(t) \/ OpLock(t)
     \/ OpUnlock(t) \/ OpReturn(t) \/ OpenCheck(t) \/ OpenLower(t)
     \/ UNCHANGED pathRef
  /\ opsLeft' = opsLeft \/ (opsLeft > 0 /\ opsLeft' = opsLeft - 1)
  /\ faultsLeft' = faultsLeft \/ (faultsLeft > 0 /\ faultsLeft' = faultsLeft - 1)

\* Every step of a call is such a step.
LEMMA FrameStep ==
  ASSUME NEW t \in Tasks, StartCall(t) \/ Continue(t)
  PROVE  Frame(t)
<1> USE DEF Frame, attrVars, lockVars, Fails, NoFailure
<1>1. CASE LookupBegin(t)
  <2>1. PICK op, n, d, e : LookupFor(t, op, n, d, e)
    BY <1>1 DEF LookupBegin
  <2> QED
    BY <1>1, <2>1 DEF LookupFor, Begin
<1>2. CASE RemoveBegin(t) \/ RenameBegin(t) \/ OpenBegin(t)
  BY Zenon, <1>2 DEF RemoveBegin, RenameBegin, OpenBegin, Begin
<1>3. CASE LookupInfo(t) \/ LookupError(t)
  BY Zenon, <1>3 DEF LookupInfo, LookupError, LookupFails
<1>4. CASE LookupPositive(t)
  BY Zenon, <1>4 DEF LookupPositive
<1>5. CASE LookupNegative(t)
  BY Zenon, <1>5 DEF LookupNegative, LookupFails
<1>6. CASE IgetFound(t) \/ IgetNew(t) \/ IgetNoMemory(t)
  BY Zenon, <1>6 DEF IgetFound, IgetNew, IgetNoMemory
<1>7. CASE IgetInit(t)
  BY Zenon, <1>7 DEF IgetInit
<1>8. CASE Interpose(t)
  BY <1>8 DEF Interpose
<1>9. CASE InterposeFails(t)
  BY <1>9 DEF InterposeFails, LookupFails
<1>10. CASE RenameRefused(t) \/ OpUnlinkBug(t)
  BY Zenon, <1>10 DEF RenameRefused, OpUnlinkBug
<1>11. CASE OpLock(t) \/ OpUnlock(t)
  BY Zenon, <1>11 DEF OpLock, OpUnlock
<1>12. CASE OpWantWrite(t) \/ OpWantNewWrite(t) \/ OpDropWrite(t)
  BY <1>12 DEF OpWantWrite, OpWantNewWrite, OpDropWrite
<1>13. CASE OpFails(t)
  BY Zenon, <1>13 DEF OpFails
<1>14. CASE OpMake(t)
  BY Zenon, <1>14 DEF OpMake
<1>15. CASE OpUnlink(t) \/ OpRmdir(t)
  BY Zenon, <1>15 DEF OpUnlink, OpRmdir
<1>16. CASE OpRename(t)
  BY Zenon, <1>16 DEF OpRename
<1>17. CASE OpReturn(t)
  BY Zenon, <1>17 DEF OpReturn
<1>18. CASE OpenCheck(t)
  BY Zenon, <1>18 DEF OpenCheck
<1>19. CASE OpenLower(t)
  BY Zenon, <1>19 DEF OpenLower
<1> HIDE DEF Frame
<1> QED
  BY Zenon, <1>1, <1>2, <1>3, <1>4, <1>5, <1>6, <1>7, <1>8, <1>9, <1>10, <1>11, <1>12,
     <1>13, <1>14, <1>15, <1>16, <1>17, <1>18, <1>19
  DEF StartCall, Continue, OpCreate, OpMknod, OpSymlink, OpMkdir, OpLink

\* Link counts are numbers of names.
LEMMA LinksNat ==
  \A to, l : Links(to, l) \in Nat /\ DirLinks(to, l) \in Nat
<1>1. ASSUME NEW to, NEW l PROVE Links(to, l) \in Nat
  <2>1. {n \in Names : to[n] = l} \subseteq Names
    OBVIOUS
  <2> QED
    BY Zenon, <2>1, InodeAssumption, FS_Subset, FS_CardinalityType DEF Links
<1>2. ASSUME NEW to, NEW i PROVE DirLinks(to, i) \in Nat
  <2>1. {n \in Names : DirOf[n] = i /\ to[n] \in DirInodes} \subseteq Names
    OBVIOUS
  <2> QED
    BY Zenon, <2>1, InodeAssumption, FS_Subset, FS_CardinalityType DEF DirLinks
<1> QED
  BY <1>1, <1>2

\* Link counts and their exceptions keep their types.
LEMMA AttrTypes ==
  ASSUME OwnInv, RestType, [Next]_vars
  PROVE  /\ nlink' \in [Slots -> Nat] /\ dirLinks' \in [Dirs -> Nat]
         /\ behind' \subseteq Slots \cup Dirs
<1>0. /\ nlink \in [Slots -> Nat] /\ dirLinks \in [Dirs -> Nat]
      /\ behind \subseteq Slots \cup Dirs
  BY DEF RestType
<1>a. ASSUME NEW t \in Tasks, pc[t] \in DirPcs
      PROVE  /\ CountOf(cur[t]) \subseteq Slots \cup Dirs
             /\ dent[cur[t].d].ino \in Slots \cup {NULL}
  <2>1. /\ cur[t].n \in Names /\ cur[t].d \in Dentries
        /\ cur[t].op = "link" => cur[t].e \in Dentries /\ dent[cur[t].e].st \in InUse
    BY Zenon, <1>a DEF OwnInv, CallOK
  <2>2. dent[cur[t].d].ino \in Slots \cup {NULL}
    BY Zenon, <2>1 DEF OwnInv, CoreType, Dentry
  <2>3. cur[t].op = "link" => dent[cur[t].e].ino \in Slots
    BY Zenon, <2>1 DEF OwnInv, DentOK
  <2>4. DirOf[cur[t].n] \in Dirs
    BY Zenon, <2>1, InodeAssumption
  <2> QED
    BY Zenon, <2>2, <2>3, <2>4 DEF CountOf
<1>1. ASSUME NEW t \in Tasks, IgetInit(t)
      PROVE  /\ nlink' \in [Slots -> Nat] /\ dirLinks' \in [Dirs -> Nat]
             /\ behind' \subseteq Slots \cup Dirs
  BY Zenon, <1>0, <1>1, LinksNat DEF IgetInit
<1>2. ASSUME NEW t \in Tasks, Interpose(t)
      PROVE  /\ nlink' \in [Slots -> Nat] /\ dirLinks' \in [Dirs -> Nat]
             /\ behind' \subseteq Slots \cup Dirs
  BY Zenon, <1>0, <1>2, LinksNat DEF Interpose
<1>3. ASSUME NEW t \in Tasks, InterposeFails(t)
      PROVE  /\ nlink' \in [Slots -> Nat] /\ dirLinks' \in [Dirs -> Nat]
             /\ behind' \subseteq Slots \cup Dirs
  BY Zenon, <1>0, <1>3, <1>a DEF InterposeFails, LookupFails, attrVars, DirPcs, IgetPcs
<1>4. ASSUME NEW t \in Tasks, OpUnlink(t) \/ OpRmdir(t)
      PROVE  /\ nlink' \in [Slots -> Nat] /\ dirLinks' \in [Dirs -> Nat]
             /\ behind' \subseteq Slots \cup Dirs
  <2>1. dirLinks' \in [Dirs -> Nat]
    <3>1. CASE OpUnlink(t)
      BY Zenon, <1>0, <3>1 DEF OpUnlink
    <3>2. CASE OpRmdir(t)
      <4>1. PICK k \in Nat : dirLinks' = [dirLinks EXCEPT ![DirOf[cur[t].n]] = k]
        BY Zenon, <3>2, LinksNat DEF OpRmdir
      <4> QED
        BY Zenon, <1>0, <4>1
    <3> QED
      BY Zenon, <1>4, <3>1, <3>2
  <2>3. behind' \subseteq behind
    BY Zenon, <1>4 DEF OpUnlink, OpRmdir
  <2>2. nlink' \in [Slots -> Nat]
    <3>1. PICK k \in Nat : nlink' = [nlink EXCEPT ![dent[cur[t].d].ino] = k]
      BY Zenon, <1>4, LinksNat DEF OpUnlink, OpRmdir
    <3> QED
      BY Zenon, <1>0, <3>1
  <2> QED
    BY Zenon, <1>0, <2>1, <2>2, <2>3
<1>5. ASSUME NEW t \in Tasks, OpRename(t)
      PROVE  /\ nlink' \in [Slots -> Nat] /\ dirLinks' \in [Dirs -> Nat]
             /\ behind' \subseteq Slots \cup Dirs
  <2>1. dent[cur[t].d].ino \in Slots \cup {NULL}
    BY Zenon, <1>5, <1>a DEF OpRename, Goto, DirPcs, OpPcs
  <2>2. nlink' = nlink /\ dirLinks' \in [Dirs -> Nat]
    BY Zenon, <1>0, <1>5, LinksNat DEF OpRename
  <2>3. behind' \subseteq behind \cup ({dent[cur[t].d].ino} \ {NULL})
    BY Zenon, <1>5 DEF OpRename
  <2> QED
    BY Zenon, <1>0, <2>1, <2>2, <2>3
<1>6. ASSUME NEW s \in Slots, EvictInode(s) \/ DestroyInode(s)
      PROVE  /\ nlink' \in [Slots -> Nat] /\ dirLinks' \in [Dirs -> Nat]
             /\ behind' \subseteq Slots \cup Dirs
  BY <1>0, <1>6 DEF EvictInode, DestroyInode, attrVars
<1>7. ASSUME UNCHANGED <<nlink, dirLinks, behind>>
      PROVE  /\ nlink' \in [Slots -> Nat] /\ dirLinks' \in [Dirs -> Nat]
             /\ behind' \subseteq Slots \cup Dirs
  BY Zenon, <1>0, <1>7
<1>8. CASE \E t \in Tasks : StartCall(t) \/ Continue(t)
  BY Zenon, <1>1, <1>2, <1>3, <1>4, <1>5, <1>7, <1>8, FrameStep DEF Frame
<1>9. CASE \E d \in Dentries : FileRelease(d) \/ DentryKill(d) \/ DentryRelease(d)
  BY Zenon, <1>7, <1>9 DEF FileRelease, DentryKill, DentryRelease, attrVars
<1> QED
  BY Zenon, <1>6, <1>7, <1>8, <1>9 DEF Next, vars, attrVars

\* A count of references stays an integer when one is taken or put.
LEMMA BumpType ==
  ASSUME NEW S, NEW f \in [S -> Int], NEW x \in S
  PROVE  Bump(f, x, 1) \in [S -> Int] /\ Bump(f, x, -1) \in [S -> Int]
BY DEF Bump

\* One step keeps the types that OwnInv says nothing of.
LEMMA RestTypeNext ==
  ASSUME OwnInv, RestType, [Next]_vars
  PROVE  RestType'
<1>0. /\ lowerLock \in [Dirs -> Tasks \cup {NoTask}]
      /\ lowerRef \in [LowerInodes -> Int] /\ doubled \subseteq LowerInodes
      /\ opsLeft \in 0 .. MaxOps /\ faultsLeft \in 0 .. MaxFaults
  BY DEF RestType
<1>1. lowerLock' \in [Dirs -> Tasks \cup {NoTask}]
  <2>1. ASSUME NEW t \in Tasks, StartCall(t) \/ Continue(t)
        PROVE  lowerLock' \in [Dirs -> Tasks \cup {NoTask}]
    <3>1. OpLock(t) \/ OpUnlock(t) \/ UNCHANGED lowerLock
      BY Zenon, <2>1, FrameStep DEF Frame
    <3> QED
      BY Zenon, <1>0, <3>1 DEF OpLock, OpUnlock
  <2>2. CASE \E d \in Dentries : FileRelease(d) \/ DentryKill(d) \/ DentryRelease(d)
    BY Zenon, <1>0, <2>2 DEF FileRelease, DentryKill, DentryRelease, lockVars
  <2>3. CASE \E s \in Slots : EvictInode(s) \/ DestroyInode(s)
    BY Zenon, <1>0, <2>3 DEF EvictInode, DestroyInode, lockVars
  <2> QED
    BY Zenon, <1>0, <2>1, <2>2, <2>3 DEF Next, vars, lockVars
<1>2. lowerRef' \in [LowerInodes -> Int] /\ doubled' \subseteq LowerInodes
  <2>1. ASSUME NEW t \in Tasks, StartCall(t) \/ Continue(t)
        PROVE  lowerRef' \in [LowerInodes -> Int] /\ doubled' \subseteq LowerInodes
    <3>1. pc[t] \in IgetPcs => dent[cur[t].d].l \in LowerInodes
      BY Zenon DEF OwnInv, StageOK
    <3>2. CASE IgetNoMemory(t)
      <4>1. /\ pc[t] = "ig_find" /\ doubled' = doubled
            /\ lowerRef' = Bump(lowerRef, dent[cur[t].d].l, -1)
        BY Zenon, <3>2 DEF IgetNoMemory, Goto, attrVars
      <4>2. dent[cur[t].d].l \in LowerInodes
        BY Zenon, <3>1, <4>1 DEF IgetPcs
      <4> QED
        BY Zenon, <1>0, <4>1, <4>2, BumpType
    <3>3. CASE IgetInit(t)
      <4>1. /\ pc[t] = "ig_init"
            /\ doubled' = doubled \/ doubled' = doubled \cup {dent[cur[t].d].l}
            /\ lowerRef' = Bump(lowerRef, dent[cur[t].d].l, 1)
        BY Zenon, <3>3 DEF IgetInit, Goto
      <4>2. dent[cur[t].d].l \in LowerInodes
        BY Zenon, <3>1, <4>1 DEF IgetPcs
      <4> QED
        BY Zenon, <1>0, <4>1, <4>2, BumpType
    <3> QED
      BY Zenon, <1>0, <2>1, <3>2, <3>3, OnlyIget
  <2>2. CASE \E d \in Dentries : FileRelease(d) \/ DentryKill(d) \/ DentryRelease(d)
    BY Zenon, <1>0, <2>2 DEF FileRelease, DentryKill, DentryRelease, attrVars
  <2>3. CASE \E s \in Slots : EvictInode(s) \/ DestroyInode(s)
    BY <1>0, <2>3 DEF EvictInode, DestroyInode, Bump, attrVars
  <2> QED
    BY Zenon, <1>0, <2>1, <2>2, <2>3 DEF Next, vars, attrVars
<1>3. opsLeft' \in 0 .. MaxOps /\ faultsLeft' \in 0 .. MaxFaults
  <2>1. ASSUME NEW t \in Tasks, StartCall(t) \/ Continue(t)
        PROVE  opsLeft' \in 0 .. MaxOps /\ faultsLeft' \in 0 .. MaxFaults
    <3>1. /\ opsLeft' = opsLeft \/ (opsLeft > 0 /\ opsLeft' = opsLeft - 1)
          /\ \/ faultsLeft' = faultsLeft
             \/ faultsLeft > 0 /\ faultsLeft' = faultsLeft - 1
      BY Zenon, <2>1, FrameStep DEF Frame
    <3> QED
      BY <1>0, <3>1, InodeAssumption
  <2>2. CASE \E d \in Dentries : FileRelease(d) \/ DentryKill(d) \/ DentryRelease(d)
    BY Zenon, <1>0, <2>2 DEF FileRelease, DentryKill, DentryRelease
  <2>3. CASE \E s \in Slots : EvictInode(s) \/ DestroyInode(s)
    BY Zenon, <1>0, <2>3 DEF EvictInode, DestroyInode
  <2> QED
    BY Zenon, <1>0, <2>1, <2>2, <2>3 DEF Next, vars
<1> QED
  BY Zenon, <1>1, <1>2, <1>3, AttrTypes DEF RestType

\* The first state has them.
LEMMA RestTypeInit == Init => RestType
<1> SUFFICES ASSUME Init PROVE RestType
  BY Zenon
<1>1. dirLinks \in [Dirs -> Nat]
  BY Zenon, LinksNat DEF Init
<1> QED
  BY <1>1, InodeAssumption DEF RestType, Init
=============================================================================
