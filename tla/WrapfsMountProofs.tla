-------------------------- MODULE WrapfsMountProofs --------------------------
(***************************************************************************)
(* Proofs about WrapfsMount for any number of tasks, superblocks, key      *)
(* strings and buffers, any options, any failing calls and any bounds.     *)
(***************************************************************************)
EXTENDS WrapfsMount, FiniteSetTheorems, TLAPS

-----------------------------------------------------------------------------
(***************************************************************************)
(* Kernel buffers.                                                         *)
(***************************************************************************)

\* Where a task has a buffer to itself, and what the buffer holds.
OwnPcs == {"k_args", "k_update"} \cup LinkPcs
BufPcs == KeyPcs \cup LinkPcs

KeyTypes ==
  /\ key \in [Supers -> Bufs \cup {NULL}]
  /\ mem \in [Bufs -> Strings \cup {"free", "zero", "path"}]
  /\ pc \in [Tasks -> PCs]
  /\ integ \in [Tasks -> Bufs \cup {NULL}]
  /\ seen \in [Tasks -> Strings \cup {NULL}]

TaskBuffer(t) ==
  /\ pc[t] \in {"k_args", "k_update"} =>
       integ[t] \in Bufs /\ mem[integ[t]] = "zero"
  /\ pc[t] \in LinkPcs => integ[t] \in Bufs /\ mem[integ[t]] = "path"
  /\ pc[t] = "k_store" => integ[t] \in Bufs /\ mem[integ[t]] \in Strings
  /\ pc[t] = "d_use" => /\ integ[t] \in Bufs /\ seen[t] \in Strings
                        /\ mem[integ[t]] = seen[t]

Buffers ==
  /\ \A t \in Tasks : TaskBuffer(t)
  /\ \A t, u \in Tasks : pc[t] \in OwnPcs /\ pc[u] \in OwnPcs /\ t # u
                           => integ[t] # integ[u]
  /\ \A b \in Bufs : mem[b] = "path" =>
       \E t \in Tasks : pc[t] \in LinkPcs /\ integ[t] = b

\* The inductive invariant: a digest is written to a buffer that is nobody
\* else's and not yet a key.
KeyInv == KeyTypes /\ Buffers /\ KeyIsDigest

\* What every step outside the key and the links leaves of them.
Aside ==
  /\ mem' = mem /\ seen' = seen
  /\ key' \in [Supers -> Bufs \cup {NULL}]
  /\ pc' \in [Tasks -> PCs]
  /\ integ' \in [Tasks -> Bufs \cup {NULL}]
  /\ \A s \in Supers : key'[s] = key[s] \/ key'[s] = NULL
  /\ \A u \in Tasks :
       \/ pc'[u] = pc[u] /\ integ'[u] = integ[u]
       \/ pc[u] \notin BufPcs /\ pc'[u] \notin BufPcs

\* A step of a mount, of the module or of a file keeps every buffer as it is
\* and at most clears a key.
LEMMA AsideKeeps == KeyInv /\ Aside => KeyInv'
<1> SUFFICES ASSUME KeyInv, Aside PROVE KeyInv'
  OBVIOUS
<1> USE DEF KeyInv, Aside, OwnPcs, BufPcs, KeyPcs, LinkPcs
<1>1. KeyTypes'
  BY DEF KeyTypes
<1>2. KeyIsDigest'
  BY DEF KeyTypes, KeyIsDigest
<1>3. ASSUME NEW b \in Bufs, mem'[b] = "path"
      PROVE  \E t \in Tasks : pc'[t] \in LinkPcs /\ integ'[t] = b
  <2>1. PICK t \in Tasks : pc[t] \in LinkPcs /\ integ[t] = b
    BY <1>3 DEF Buffers
  <2> QED
    BY <2>1
<1>4. ASSUME NEW t \in Tasks
      PROVE  (TaskBuffer(t))'
  BY DEF Buffers, KeyTypes, TaskBuffer
<1>5. ASSUME NEW t \in Tasks, NEW u \in Tasks, pc'[t] \in OwnPcs,
             pc'[u] \in OwnPcs, t # u
      PROVE  integ'[t] # integ'[u]
  BY <1>5 DEF Buffers
<1> QED
  BY <1>1, <1>2, <1>3, <1>4, <1>5 DEF Buffers

\* The steps of init_wrapfs_fs and exit_wrapfs_fs are such steps.
LEMMA ModuleAside == KeyInv /\ ModuleStep => Aside
  BY DEF KeyInv, KeyTypes, ModuleStep, InitCaches, InitRegister, InitError,
         ModuleStop, ExitCaches, ExitUnregister, keyVars, Aside

\* The steps of wrapfs_mount, wrapfs_read_super and put_super are such steps.
LEMMA MountAside == ASSUME KeyInv, NEW t \in Tasks, MountStep(t) PROVE Aside
<1> USE DEF KeyInv, KeyTypes, Aside, keyVars, mountVars, Goto, Leave, BufPcs,
            KeyPcs, LinkPcs, PCs, MountPcs, SetupPcs, PathPcs
<1>1. CASE MountBegin(t)
  BY <1>1 DEF MountBegin
<1>2. CASE MountSget(t)
  BY <1>2 DEF MountSget
<1>3. CASE MountNoSuper(t)
  BY <1>3 DEF MountNoSuper
<1>4. CASE ReadSuperPath(t)
  BY <1>4 DEF ReadSuperPath
<1>5. CASE ReadSuperInfo(t)
  BY <1>5 DEF ReadSuperInfo
<1>6. CASE ReadSuperIget(t)
  BY <1>6 DEF ReadSuperIget
<1>7. CASE ReadSuperRoot(t)
  BY <1>7 DEF ReadSuperRoot
<1>8. CASE ReadSuperLink(t)
  BY <1>8 DEF ReadSuperLink
<1>9. CASE MountFailed(t)
  BY <1>9 DEF MountFailed
<1>10. CASE MountOops(t)
  BY <1>10 DEF MountOops
<1>11. CASE MountOptions(t)
  BY <1>11 DEF MountOptions
<1>12. CASE UmountBegin(t)
  BY <1>12 DEF UmountBegin
<1>13. CASE UmountDcache(t)
  BY <1>13 DEF UmountDcache
<1>14. CASE UmountSuper(t)
  BY <1>14 DEF UmountSuper
<1> QED
  BY Zenon, <1>1, <1>2, <1>3, <1>4, <1>5, <1>6, <1>7, <1>8, <1>9, <1>10, <1>11,
     <1>12, <1>13, <1>14 DEF MountStep

\* A step of an ioctl or of a data operation that ends without writing a
\* buffer keeps the invariant: its own buffer, if any, is never used again.
LEMMA LeaveKeeps ==
  ASSUME KeyInv, NEW t \in Tasks, pc[t] \in KeyPcs,
         pc' \in {[pc EXCEPT ![t] = "idle"], [pc EXCEPT ![t] = "dead"]},
         integ' = [integ EXCEPT ![t] = NULL],
         mem' = mem,
         seen' \in {seen, [seen EXCEPT ![t] = NULL]},
         key' \in [Supers -> Bufs \cup {NULL}],
         \A s \in Supers : \/ key'[s] \in {key[s], NULL}
                           \/ pc[t] = "k_store" /\ key'[s] = integ[t]
  PROVE  KeyInv'
<1> USE DEF KeyInv, OwnPcs, KeyPcs, LinkPcs
<1>1. KeyTypes'
  BY DEF KeyTypes, PCs
<1>2. KeyIsDigest'
  BY DEF KeyTypes, KeyIsDigest, Buffers, TaskBuffer
<1>3. ASSUME NEW u \in Tasks PROVE TaskBuffer(u)'
  BY DEF Buffers, KeyTypes, TaskBuffer
<1>4. ASSUME NEW u \in Tasks, NEW v \in Tasks, pc'[u] \in OwnPcs,
             pc'[v] \in OwnPcs, u # v
      PROVE  integ'[u] # integ'[v]
  BY <1>4 DEF Buffers, KeyTypes
<1>5. ASSUME NEW b \in Bufs, mem'[b] = "path"
      PROVE  \E u \in Tasks : pc'[u] \in LinkPcs /\ integ'[u] = b
  <2>1. PICK u \in Tasks : pc[u] \in LinkPcs /\ integ[u] = b
    BY <1>5 DEF Buffers
  <2> QED
    BY <2>1 DEF KeyTypes
<1> QED
  BY <1>1, <1>2, <1>3, <1>4, <1>5 DEF Buffers

\* A task that allocates a free buffer, for integ_val or for the path of a
\* link, has it to itself.
LEMMA AllocateKeeps ==
  ASSUME KeyInv, NEW t \in Tasks, pc[t] = "idle", NEW b \in Bufs, mem[b] = "free",
         \/ pc' = [pc EXCEPT ![t] = "k_args"] /\ mem' = [mem EXCEPT ![b] = "zero"]
         \/ pc' = [pc EXCEPT ![t] = "l_read"] /\ mem' = [mem EXCEPT ![b] = "path"],
         integ' = [integ EXCEPT ![t] = b],
         key' = key, seen' = seen
  PROVE  KeyInv'
<1> USE DEF KeyInv, OwnPcs, KeyPcs, LinkPcs
<1>1. KeyTypes'
  BY DEF KeyTypes, PCs
<1>2. KeyIsDigest'
  BY KeyAssumption DEF KeyTypes, KeyIsDigest
<1>3. ASSUME NEW u \in Tasks PROVE TaskBuffer(u)'
  BY KeyAssumption DEF Buffers, KeyTypes, TaskBuffer
<1>4. ASSUME NEW u \in Tasks, NEW v \in Tasks, pc'[u] \in OwnPcs,
             pc'[v] \in OwnPcs, u # v
      PROVE  integ'[u] # integ'[v]
  BY <1>4 DEF Buffers, KeyTypes, TaskBuffer
<1>5. ASSUME NEW c \in Bufs, mem'[c] = "path"
      PROVE  \E u \in Tasks : pc'[u] \in LinkPcs /\ integ'[u] = c
  <2>1. CASE c = b
    BY <1>5, <2>1 DEF KeyTypes
  <2>2. CASE c # b
    <3>1. PICK u \in Tasks : pc[u] \in LinkPcs /\ integ[u] = c
      BY <1>5, <2>2 DEF Buffers, KeyTypes
    <3> QED
      BY <3>1 DEF KeyTypes
  <2> QED
    BY <2>1, <2>2
<1> QED
  BY <1>1, <1>2, <1>3, <1>4, <1>5 DEF Buffers

\* FollowError and PutLink free the path of the walk, which nobody else uses.
LEMMA FreeKeeps ==
  ASSUME KeyInv, NEW t \in Tasks, pc[t] \in LinkPcs,
         pc' = [pc EXCEPT ![t] = "idle"],
         integ' = [integ EXCEPT ![t] = NULL],
         mem' = [mem EXCEPT ![integ[t]] = "free"],
         key' = key, seen' = seen
  PROVE  KeyInv'
<1> USE DEF KeyInv, OwnPcs, KeyPcs, LinkPcs
<1>1. KeyTypes'
  BY Zenon DEF KeyTypes, PCs
<1>2. KeyIsDigest'
  BY KeyAssumption DEF KeyTypes, KeyIsDigest, Buffers, TaskBuffer
<1>3. ASSUME NEW u \in Tasks PROVE TaskBuffer(u)'
  BY KeyAssumption DEF Buffers, KeyTypes, TaskBuffer
<1>4. ASSUME NEW u \in Tasks, NEW v \in Tasks, pc'[u] \in OwnPcs,
             pc'[v] \in OwnPcs, u # v
      PROVE  integ'[u] # integ'[v]
  BY <1>4 DEF Buffers, KeyTypes
<1>5. ASSUME NEW c \in Bufs, mem'[c] = "path"
      PROVE  \E u \in Tasks : pc'[u] \in LinkPcs /\ integ'[u] = c
  <2>1. PICK u \in Tasks : pc[u] \in LinkPcs /\ integ[u] = c
    BY <1>5 DEF Buffers, KeyTypes
  <2>2. u # t
    BY Zenon, <1>5, <2>1 DEF KeyTypes
  <2> QED
    BY Zenon, <2>1, <2>2 DEF KeyTypes
<1> QED
  BY <1>1, <1>2, <1>3, <1>4, <1>5 DEF Buffers

\* Md5End writes the digest to the buffer of the ioctl, which is not a key yet.
LEMMA Md5EndKeeps == ASSUME KeyInv, NEW t \in Tasks, Md5End(t) PROVE KeyInv'
<1> USE DEF KeyInv, OwnPcs, KeyPcs, LinkPcs
<1>1. PICK x \in Strings : mem' = [mem EXCEPT ![integ[t]] = x]
  BY Zenon DEF Md5End
<1>2. /\ pc[t] = "k_update" /\ pc' = [pc EXCEPT ![t] = "k_store"]
      /\ key' = key /\ integ' = integ /\ seen' = seen
  BY DEF Md5End, Goto
<1>3. KeyTypes'
  BY Zenon, <1>1, <1>2 DEF KeyTypes, PCs
<1>4. KeyIsDigest'
  BY <1>1, <1>2, KeyAssumption DEF KeyTypes, KeyIsDigest, Buffers, TaskBuffer
<1>5. ASSUME NEW u \in Tasks PROVE TaskBuffer(u)'
  BY <1>1, <1>2, KeyAssumption DEF Buffers, KeyTypes, TaskBuffer
<1>6. ASSUME NEW u \in Tasks, NEW v \in Tasks, pc'[u] \in OwnPcs,
             pc'[v] \in OwnPcs, u # v
      PROVE  integ'[u] # integ'[v]
  BY <1>2, <1>6 DEF Buffers, KeyTypes
<1>7. ASSUME NEW c \in Bufs, mem'[c] = "path"
      PROVE  \E u \in Tasks : pc'[u] \in LinkPcs /\ integ'[u] = c
  <2>1. mem[c] = "path"
    BY <1>1, <1>7, KeyAssumption DEF KeyTypes
  <2>2. PICK u \in Tasks : pc[u] \in LinkPcs /\ integ[u] = c
    BY <2>1 DEF Buffers
  <2> QED
    BY <1>2, <2>2 DEF KeyTypes
<1> QED
  BY <1>3, <1>4, <1>5, <1>6, <1>7 DEF Buffers

\* A step that changes only where a task is within its call.
LEMMA MoveKeeps ==
  ASSUME KeyInv, NEW t \in Tasks,
         \/ pc[t] = "k_args" /\ pc' = [pc EXCEPT ![t] = "k_update"]
         \/ pc[t] = "l_read" /\ pc' = [pc EXCEPT ![t] = "l_put"],
         key' = key, mem' = mem, integ' = integ, seen' = seen
  PROVE  KeyInv'
<1> USE DEF KeyInv, OwnPcs, KeyPcs, LinkPcs
<1>1. KeyTypes'
  BY DEF KeyTypes, PCs
<1>2. KeyIsDigest'
  BY DEF KeyIsDigest
<1>3. ASSUME NEW u \in Tasks PROVE TaskBuffer(u)'
  BY DEF Buffers, KeyTypes, TaskBuffer
<1>4. ASSUME NEW u \in Tasks, NEW v \in Tasks, pc'[u] \in OwnPcs,
             pc'[v] \in OwnPcs, u # v
      PROVE  integ'[u] # integ'[v]
  BY <1>4 DEF Buffers, KeyTypes
<1>5. ASSUME NEW c \in Bufs, mem'[c] = "path"
      PROVE  \E u \in Tasks : pc'[u] \in LinkPcs /\ integ'[u] = c
  <2>1. PICK u \in Tasks : pc[u] \in LinkPcs /\ integ[u] = c
    BY <1>5 DEF Buffers
  <2> QED
    BY <2>1 DEF KeyTypes
<1> QED
  BY <1>1, <1>2, <1>3, <1>4, <1>5 DEF Buffers

\* A data operation that starts finds a digest behind the key.
LEMMA UseBeginKeeps ==
  ASSUME KeyInv, NEW t \in Tasks, NEW s \in Supers, UseBegin(t, s)
  PROVE  KeyInv'
<1> USE DEF KeyInv, OwnPcs, KeyPcs, LinkPcs
<1>1. /\ pc[t] = "idle" /\ pc' = [pc EXCEPT ![t] = "d_use"]
      /\ key' = key /\ mem' = mem /\ key[s] # NULL
      /\ integ' = [integ EXCEPT ![t] = key[s]]
      /\ seen' = [seen EXCEPT ![t] = mem[key[s]]]
  BY DEF UseBegin, Goto
<1>2. key[s] \in Bufs /\ mem[key[s]] \in Strings
  BY <1>1 DEF KeyTypes, KeyIsDigest
<1>3. KeyTypes'
  BY Zenon, <1>1, <1>2 DEF KeyTypes, PCs
<1>4. KeyIsDigest'
  BY Zenon, <1>1 DEF KeyIsDigest
<1>5. ASSUME NEW u \in Tasks PROVE TaskBuffer(u)'
  BY <1>1, <1>2 DEF Buffers, KeyTypes, TaskBuffer
<1>6. ASSUME NEW u \in Tasks, NEW v \in Tasks, pc'[u] \in OwnPcs,
             pc'[v] \in OwnPcs, u # v
      PROVE  integ'[u] # integ'[v]
  BY <1>1, <1>6 DEF Buffers, KeyTypes
<1>7. ASSUME NEW c \in Bufs, mem'[c] = "path"
      PROVE  \E u \in Tasks : pc'[u] \in LinkPcs /\ integ'[u] = c
  <2>1. PICK u \in Tasks : pc[u] \in LinkPcs /\ integ[u] = c
    BY Zenon, <1>1, <1>7 DEF Buffers
  <2> QED
    BY Zenon, <1>1, <2>1 DEF KeyTypes
<1> QED
  BY Zenon, <1>3, <1>4, <1>5, <1>6, <1>7 DEF Buffers

\* The steps of the ioctl, the data operations and the walks of links.
LEMMA UseKeeps == ASSUME KeyInv, NEW t \in Tasks, UseMount(t) PROVE KeyInv'
<1> USE DEF Goto, Leave
<1>1. ASSUME NEW s \in Supers, IoctlEnter(t, s) PROVE KeyInv'
  BY Zenon, <1>1, AllocateKeeps DEF IoctlEnter
<1>2. ASSUME NEW s \in Supers, FollowBegin(t, s) PROVE KeyInv'
  BY Zenon, <1>2, AllocateKeeps DEF FollowBegin
<1>3. ASSUME NEW s \in Supers, UseBegin(t, s) PROVE KeyInv'
  BY <1>3, UseBeginKeeps
<1>4. CASE IoctlNoMemory(t) \/ FollowNoMemory(t)
  <2>1. Aside
    BY Zenon, <1>4 DEF IoctlNoMemory, FollowNoMemory, keyVars, Aside, KeyInv, KeyTypes
  <2> QED
    BY Zenon, <2>1, AsideKeeps
<1>5. CASE IoctlOther(t)
  BY Zenon, <1>5, LeaveKeeps DEF IoctlOther, KeyPcs, KeyInv, KeyTypes
<1>6. CASE IoctlBadArgs(t)
  BY <1>6, LeaveKeeps DEF IoctlBadArgs, KeyPcs, KeyInv, KeyTypes
<1>7. CASE IoctlClear(t)
  BY Zenon, <1>7, LeaveKeeps DEF IoctlClear, KeyPcs, KeyInv, KeyTypes
<1>8. CASE Md5Begin(t)
  BY Zenon, <1>8, MoveKeeps DEF Md5Begin
<1>9. CASE Md5End(t)
  BY <1>9, Md5EndKeeps
<1>10. CASE Md5Error(t)
  BY Zenon, <1>10, LeaveKeeps DEF Md5Error, Md5At, KeyPcs, KeyInv, KeyTypes
<1>11. CASE KeyStore(t)
  BY Zenon, <1>11, LeaveKeeps DEF KeyStore, KeyPcs, KeyInv, KeyTypes
<1>12. CASE KeyNoMemory(t)
  BY Zenon, <1>12, LeaveKeeps DEF KeyNoMemory, KeyPcs, KeyInv, KeyTypes
<1>13. CASE UseEnd(t)
  BY Zenon, <1>13, LeaveKeeps DEF UseEnd, KeyPcs, KeyInv, KeyTypes
<1>14. CASE FollowRead(t)
  BY Zenon, <1>14, MoveKeeps DEF FollowRead
<1>15. CASE FollowError(t)
  BY Zenon, <1>15, FreeKeeps DEF FollowError, LinkPcs
<1>16. CASE PutLink(t)
  BY Zenon, <1>16, FreeKeeps DEF PutLink, LinkPcs
<1> QED
  BY Zenon, <1>1, <1>2, <1>3, <1>4, <1>5, <1>6, <1>7, <1>8, <1>9, <1>10, <1>11, <1>12,
     <1>13, <1>14, <1>15, <1>16 DEF UseMount, KeyStep, LinkStep

\* KeyInv is an invariant of the composed system.
THEOREM KeyInvariant == Spec => []KeyInv
<1>1. Init => KeyInv
  BY KeyAssumption DEF Init, KeyInit, KeyInv, KeyTypes, KeyIsDigest, Buffers, TaskBuffer,
     OwnPcs, LinkPcs, PCs
<1>2. KeyInv /\ [Next]_vars => KeyInv'
  <2> SUFFICES ASSUME KeyInv, [Next]_vars PROVE KeyInv'
    OBVIOUS
  <2>1. CASE ModuleStep
    BY <2>1, ModuleAside, AsideKeeps
  <2>2. ASSUME NEW t \in Tasks, MountStep(t) PROVE KeyInv'
    BY <2>2, MountAside, AsideKeeps
  <2>3. ASSUME NEW t \in Tasks, UseMount(t) PROVE KeyInv'
    BY <2>3, UseKeeps
  <2>4. ASSUME NEW s \in Supers, LookupFile(s) \/ EvictFiles(s) \/ Remount(s)
        PROVE  KeyInv'
    <3>1. Aside
      BY <2>4 DEF LookupFile, EvictFiles, Remount, keyVars, Aside, KeyInv, KeyTypes
    <3> QED
      BY Zenon, <3>1, AsideKeeps
  <2>5. CASE UNCHANGED vars
    <3>1. Aside
      BY <2>5 DEF vars, keyVars, Aside, KeyInv, KeyTypes
    <3> QED
      BY <3>1, AsideKeeps
  <2> QED
    BY <2>1, <2>2, <2>3, <2>4, <2>5 DEF Next
<1> QED
  BY <1>1, <1>2, PTL DEF Spec

\* For any tasks, superblocks, buffers and failing calls, a key never points
\* to memory without a finished digest.
THEOREM KeysAreDigests == Spec => []KeyIsDigest
  BY KeyInvariant, PTL DEF KeyInv

\* The key a readpage or write_end works with never changes under it, however
\* many ioctls replace it without a lock.
THEOREM KeysInUseStable == Spec => []KeyInUseStable
<1>1. KeyInv => KeyInUseStable
  BY DEF KeyInv, Buffers, TaskBuffer, KeyInUseStable
<1> QED
  BY <1>1, KeyInvariant, PTL

\* Each buffer of wrapfs_follow_link belongs to exactly one walk, which has
\* not freed it.
THEOREM LinkBuffersFreed == Spec => []LinkBufsFreed
<1>1. KeyInv => LinkBufsFreed
  <2> SUFFICES ASSUME KeyInv PROVE LinkBufsFreed
    OBVIOUS
  <2> USE DEF KeyInv, Buffers
  <2> DEFINE walks == {t \in Tasks : pc[t] \in LinkPcs}
  <2>1. {b \in Bufs : mem[b] = "path"} \subseteq {integ[t] : t \in walks}
    OBVIOUS
  <2>2. {integ[t] : t \in walks} \subseteq {b \in Bufs : mem[b] = "path"}
    BY DEF TaskBuffer
  <2>3. \A t, u \in walks : integ[t] = integ[u] => t = u
    BY DEF OwnPcs
  <2> QED
    BY <2>1, <2>2, <2>3 DEF LinkBufsFreed
<1> QED
  BY <1>1, KeyInvariant, PTL

-----------------------------------------------------------------------------
(***************************************************************************)
(* Address limits.                                                         *)
(***************************************************************************)

\* Only a task inside wrapfs_compute_md5 or wrapfs_follow_link has the raised
\* address limit.
LimitInv ==
  /\ pc \in [Tasks -> PCs]
  /\ limit \in [Tasks -> {"user", "kernel"}]
  /\ \A t \in Tasks : limit[t] = "kernel" => pc[t] \in {"k_update", "l_read"}

\* If crypto_hash_update does not fail, no call returns with the address limit
\* raised, whatever else fails.
THEOREM LimitsRestored == "hash_update" \notin Faults => (Spec => []AddrLimitRestored)
<1> SUFFICES ASSUME "hash_update" \notin Faults PROVE Spec => []AddrLimitRestored
  OBVIOUS
<1>1. Init => LimitInv
  BY DEF Init, KeyInit, LimitInv, PCs
<1>2. LimitInv /\ [Next]_vars => LimitInv'
  <2> SUFFICES ASSUME LimitInv, [Next]_vars PROVE LimitInv'
    BY Zenon
  <2> USE DEF LimitInv, Goto, Leave, keyVars, mountVars,
              PCs, KeyPcs, LinkPcs, MountPcs, SetupPcs, PathPcs
  <2>1. CASE ModuleStep
    BY <2>1 DEF ModuleStep, InitCaches, InitRegister, InitError, ModuleStop,
                ExitCaches, ExitUnregister
  <2>2. ASSUME NEW t \in Tasks, MountStep(t) PROVE LimitInv'
    <3>1. /\ limit' = limit
          /\ pc[t] \notin {"k_update", "l_read"}
          /\ \E p \in PCs : pc' = [pc EXCEPT ![t] = p]
      BY Zenon, <2>2 DEF MountStep, MountBegin, MountSget, MountNoSuper, ReadSuperPath,
                  ReadSuperInfo, ReadSuperIget, ReadSuperRoot, ReadSuperLink,
                  MountFailed, MountOops, MountOptions, UmountBegin, UmountDcache,
                  UmountSuper
    <3> QED
      BY <3>1
  <2>3. ASSUME NEW t \in Tasks, UseMount(t) PROVE LimitInv'
    <3>1. ASSUME NEW s \in Supers,
                 IoctlEnter(t, s) \/ UseBegin(t, s) \/ FollowBegin(t, s)
          PROVE  LimitInv'
      BY <3>1 DEF IoctlEnter, UseBegin, FollowBegin
    <3>2. CASE \/ IoctlNoMemory(t) \/ IoctlOther(t) \/ IoctlBadArgs(t)
               \/ IoctlClear(t) \/ Md5Begin(t) \/ Md5End(t)
      BY <3>2 DEF IoctlNoMemory, IoctlOther, IoctlBadArgs, IoctlClear, Md5Begin,
                  Md5End
    <3>3. CASE Md5Error(t)
      <4>1. limit' = [limit EXCEPT ![t] = "user"]
        BY Zenon, <3>3 DEF Md5Error, Fails
      <4> QED
        BY Zenon, <3>3, <4>1 DEF Md5Error
    <3>4. CASE KeyStore(t) \/ KeyNoMemory(t) \/ UseEnd(t)
      BY Zenon, <3>4 DEF KeyStore, KeyNoMemory, UseEnd
    <3>5. CASE LinkStep(t)
      BY <3>5 DEF LinkStep, FollowNoMemory, FollowRead, FollowError, PutLink
    <3> QED
      BY Zenon, <2>3, <3>1, <3>2, <3>3, <3>4, <3>5 DEF UseMount, KeyStep
  <2>4. ASSUME NEW s \in Supers, LookupFile(s) \/ EvictFiles(s) \/ Remount(s)
        PROVE  LimitInv'
    BY <2>4 DEF LookupFile, EvictFiles, Remount
  <2>5. CASE UNCHANGED vars
    BY <2>5 DEF vars
  <2> QED
    BY Zenon, <2>1, <2>2, <2>3, <2>4, <2>5 DEF Next
<1>3. LimitInv => AddrLimitRestored
  BY DEF LimitInv, AddrLimitRestored
<1> QED
  BY <1>1, <1>2, <1>3, PTL DEF Spec

-----------------------------------------------------------------------------
(***************************************************************************)
(* Stages: what a superblock has at each point of its mount and umount.    *)
(***************************************************************************)
UmountPcs == {"u_dcache", "u_super"}

\* The call of the task is setting its superblock up or tearing it down.
Mid(t) == pc[t] \in SetupPcs \cup UmountPcs

\* What the task of a mount or umount has done to its superblock so far.
Stage(t) ==
  /\ Mid(t) => on[t] \in Supers
  /\ pc[t] \in SetupPcs =>
       /\ st[on[t]] = "setup"
       /\ IF pc[t] \in {"m_path", "m_info", "m_fail"} THEN ~ info[on[t]]
                                                     ELSE info[on[t]]
       /\ IF pc[t] \in {"m_root", "m_link", "m_options"} THEN inode[on[t]]
                                                        ELSE ~ inode[on[t]]
       /\ root[on[t]] = IF pc[t] = "m_link" THEN "bare"
                        ELSE IF pc[t] = "m_options" THEN "linked" ELSE "none"
  /\ pc[t] \in UmountPcs => st[on[t]] = "dying" /\ info[on[t]]
  /\ pc[t] = "u_dcache" => root[on[t]] = "linked"
  /\ pc[t] = "u_super" => /\ root[on[t]] = "none" /\ ~ inode[on[t]]
                          /\ files[on[t]] = {}

\* What a superblock has by its own state.
SuperStage(s) ==
  /\ st[s] = "free" => ~ info[s] /\ ~ inode[s] /\ root[s] = "none"
  /\ st[s] \in {"free", "setup"} => files[s] = {}
  /\ st[s] = "active" => info[s] /\ root[s] = "linked"

StageTypes ==
  /\ pc \in [Tasks -> PCs]
  /\ on \in [Tasks -> Supers \cup {NULL}]
  /\ st \in [Supers -> {"free", "setup", "active", "dying"}]
  /\ info \in [Supers -> BOOLEAN]
  /\ inode \in [Supers -> BOOLEAN]
  /\ root \in [Supers -> {"none", "bare", "linked"}]
  /\ files = [s \in Supers |-> files[s]]

\* No two calls work on the same superblock.
Stages ==
  /\ StageTypes
  /\ \A t \in Tasks : Stage(t)
  /\ \A s \in Supers : SuperStage(s)
  /\ \A t, u \in Tasks : Mid(t) /\ Mid(u) /\ t # u => on[t] # on[u]

\* The step is one of task t and leaves the other superblocks than s alone.
Frame(t, s) ==
  /\ \A u \in Tasks \ {t} : pc'[u] = pc[u] /\ on'[u] = on[u]
  /\ \A r \in Supers \ {s} : /\ st'[r] = st[r] /\ info'[r] = info[r]
                             /\ inode'[r] = inode[r] /\ root'[r] = root[r]
                             /\ files'[r] = files[r]

\* A step of one task on one superblock that no other task works on has to
\* be looked at for this task and this superblock only.
LEMMA OneMoves ==
  ASSUME Stages, StageTypes',
         NEW t \in Tasks, NEW s \in Supers,
         \A u \in Tasks \ {t} : Mid(u) => on[u] # s,
         Frame(t, s), Stage(t)', SuperStage(s)',
         Mid(t)' => on'[t] = s
  PROVE  Stages'
<1> USE DEF Frame
<1>1. ASSUME NEW u \in Tasks PROVE Stage(u)'
  <2>1. CASE u # t
    <3>1. Stage(u) /\ (Mid(u) => on[u] \in Supers \ {s})
      BY Zenon, <2>1 DEF Stages, Stage
    <3>2. pc'[u] = pc[u] /\ on'[u] = on[u]
      BY Zenon, <2>1
    <3>3. CASE Mid(u)
      <4>1. on[u] \in Supers \ {s}
        BY Zenon, <3>1, <3>3
      <4>2. /\ st'[on[u]] = st[on[u]] /\ info'[on[u]] = info[on[u]]
            /\ inode'[on[u]] = inode[on[u]] /\ root'[on[u]] = root[on[u]]
            /\ files'[on[u]] = files[on[u]]
        BY Zenon, <4>1
      <4> QED
        BY Zenon, <3>1, <3>2, <4>1, <4>2 DEF Stage, Mid
    <3>4. CASE ~ Mid(u)
      BY Zenon, <3>1, <3>2, <3>4 DEF Stage, Mid, UmountPcs
    <3> QED
      BY Zenon, <3>3, <3>4
  <2> QED
    BY Zenon, <2>1
<1>2. ASSUME NEW r \in Supers PROVE SuperStage(r)'
  BY Zenon DEF Stages, SuperStage
<1>3. ASSUME NEW u \in Tasks, NEW v \in Tasks, Mid(u)', Mid(v)', u # v
      PROVE  on'[u] # on'[v]
  <2>1. \A w \in Tasks \ {t} : Mid(w)' => Mid(w) /\ on'[w] = on[w]
    BY Zenon DEF Mid
  <2>2. CASE u # t /\ v # t
    <3>1. \A a, b \in Tasks : Mid(a) /\ Mid(b) /\ a # b => on[a] # on[b]
      BY Zenon DEF Stages
    <3>2. Mid(u) /\ on'[u] = on[u] /\ Mid(v) /\ on'[v] = on[v]
      BY Zenon, <1>3, <2>1, <2>2
    <3>3. on[u] # on[v]
      BY Zenon, <1>3, <3>1, <3>2
    <3> QED
      BY Zenon, <3>2, <3>3
  <2>3. CASE u = t \/ v = t
    BY Zenon, <1>3, <2>1, <2>3
  <2> QED
    BY Zenon, <2>2, <2>3
<1> QED
  BY Zenon, <1>1, <1>2, <1>3 DEF Stages

\* What a step that is not about a superblock leaves of the stages.
Beside ==
  /\ pc' \in [Tasks -> PCs]
  /\ on' \in [Tasks -> Supers \cup {NULL}]
  /\ UNCHANGED <<st, info, inode, root, files>>
  /\ \A u \in Tasks : \/ pc'[u] = pc[u] /\ on'[u] = on[u]
                      \/ ~ Mid(u) /\ ~ Mid(u)'

\* Such a step keeps the stages.
LEMMA BesideKeeps == Stages /\ Beside => Stages'
<1> SUFFICES ASSUME Stages, Beside PROVE Stages'
  OBVIOUS
<1>1. StageTypes'
  BY DEF Stages, StageTypes, Beside
<1>2. ASSUME NEW u \in Tasks PROVE Stage(u)'
  BY Zenon DEF Stages, Stage, Beside, Mid, UmountPcs
<1>3. ASSUME NEW r \in Supers PROVE SuperStage(r)'
  BY Zenon DEF Stages, SuperStage, Beside
<1>4. ASSUME NEW u \in Tasks, NEW v \in Tasks, Mid(u)', Mid(v)', u # v
      PROVE  on'[u] # on'[v]
  BY Zenon, <1>4 DEF Stages, Beside, Mid
<1> QED
  BY Zenon, <1>1, <1>2, <1>3, <1>4 DEF Stages

\* The other tasks do not work on the superblock of a mount or umount.
LEMMA Alone ==
  ASSUME Stages, NEW t \in Tasks, Mid(t)
  PROVE  /\ on[t] \in Supers
         /\ \A u \in Tasks \ {t} : Mid(u) => on[u] # on[t]
  BY Zenon DEF Stages, Stage

\* Every step of a mount or umount keeps the stages.
LEMMA MountKeepsStages ==
  ASSUME Stages, NEW t \in Tasks, MountStep(t) PROVE Stages'
<1> USE DEF Goto, Leave, superVars, mountVars, PathPcs, SetupPcs, UmountPcs
<1>1. CASE ReadSuperPath(t)
  <2>1. Mid(t)
    BY <1>1 DEF ReadSuperPath, Mid
  <2>2. PICK s \in Supers : s = on[t]
    BY Zenon, <2>1, Alone
  <2>3. StageTypes'
    BY Zenon, <1>1, <2>2 DEF ReadSuperPath, Stages, StageTypes, PCs, MountPcs
  <2>4. Frame(t, s)
    BY Zenon, <1>1, <2>2 DEF ReadSuperPath, Stages, StageTypes, Frame
  <2>5. Stage(t)' /\ SuperStage(s)' /\ (Mid(t)' => on'[t] = s)
    BY <1>1, <2>2 DEF ReadSuperPath, Stages, StageTypes, Stage, SuperStage, Mid
  <2> QED
    BY Zenon, <2>1, <2>2, <2>3, <2>4, <2>5, Alone, OneMoves
<1>2. CASE ReadSuperInfo(t)
  <2>1. Mid(t)
    BY Zenon, <1>2 DEF ReadSuperInfo, Mid
  <2>2. PICK s \in Supers : s = on[t]
    BY <2>1, Alone
  <2>3. StageTypes'
    BY Zenon, <1>2, <2>2 DEF ReadSuperInfo, Stages, StageTypes, PCs, MountPcs
  <2>4. Frame(t, s)
    BY Zenon, <1>2, <2>2 DEF ReadSuperInfo, Stages, StageTypes, Frame
  <2>5. Stage(t)' /\ SuperStage(s)' /\ (Mid(t)' => on'[t] = s)
    BY <1>2, <2>2 DEF ReadSuperInfo, Stages, StageTypes, Stage, SuperStage, Mid
  <2> QED
    BY Zenon, <2>1, <2>2, <2>3, <2>4, <2>5, Alone, OneMoves
<1>3. CASE ReadSuperIget(t)
  <2>1. Mid(t)
    BY Zenon, <1>3 DEF ReadSuperIget, Mid
  <2>2. PICK s \in Supers : s = on[t]
    BY <2>1, Alone
  <2>3. StageTypes'
    BY Zenon, <1>3, <2>2 DEF ReadSuperIget, DropLower, Stages, StageTypes, PCs, MountPcs
  <2>4. Frame(t, s)
    BY Zenon, <1>3, <2>2 DEF ReadSuperIget, DropLower, Stages, StageTypes, Frame
  <2>5. Stage(t)' /\ SuperStage(s)' /\ (Mid(t)' => on'[t] = s)
    BY <1>3, <2>2 DEF ReadSuperIget, DropLower, Stages, StageTypes, Stage, SuperStage, Mid
  <2> QED
    BY Zenon, <2>1, <2>2, <2>3, <2>4, <2>5, Alone, OneMoves
<1>4. CASE ReadSuperRoot(t)
  <2>1. Mid(t)
    BY Zenon, <1>4 DEF ReadSuperRoot, Mid
  <2>2. PICK s \in Supers : s = on[t]
    BY <2>1, Alone
  <2>3. StageTypes'
    <3>1. pc' \in [Tasks -> PCs]
      BY <1>4 DEF ReadSuperRoot, Stages, StageTypes, PCs, MountPcs
    <3>2. /\ info' \in [Supers -> BOOLEAN] /\ inode' \in [Supers -> BOOLEAN]
          /\ root' \in [Supers -> {"none", "bare", "linked"}]
      <4>1. \/ /\ root' = [root EXCEPT ![s] = "bare"] /\ UNCHANGED <<info, inode>>
            \/ /\ info' = [info EXCEPT ![s] = FALSE]
               /\ inode' = [inode EXCEPT ![s] = FALSE] /\ UNCHANGED root
        BY Zenon, <1>4, <2>2 DEF ReadSuperRoot, DropLower
      <4>2. /\ info \in [Supers -> BOOLEAN] /\ inode \in [Supers -> BOOLEAN]
            /\ root \in [Supers -> {"none", "bare", "linked"}]
        BY DEF Stages, StageTypes
      <4> QED
        BY Zenon, <4>1, <4>2
    <3>3. UNCHANGED <<on, st, files>>
      BY Zenon, <1>4 DEF ReadSuperRoot
    <3> QED
      BY Zenon, <3>1, <3>2, <3>3 DEF Stages, StageTypes
  <2>4. Frame(t, s)
    BY <1>4, <2>2 DEF ReadSuperRoot, DropLower, Stages, StageTypes, Frame
  <2>5. Stage(t)' /\ SuperStage(s)' /\ (Mid(t)' => on'[t] = s)
    <3>1. /\ pc[t] = "m_root" /\ on[t] = s
          /\ st[s] = "setup" /\ info[s] /\ inode[s] /\ files[s] = {}
          /\ root[s] = "none"
      <4>1. pc[t] = "m_root" /\ Stage(t) /\ SuperStage(s)
        BY Zenon, <1>4 DEF ReadSuperRoot, Stages
      <4> QED
        BY Zenon, <2>2, <4>1 DEF Stage, SuperStage
    <3>2. StageTypes
      BY Zenon DEF Stages
    <3>3. /\ on' = on /\ st' = st /\ files' = files
          /\ \/ /\ pc'[t] = "m_link" /\ root'[s] = "bare"
                /\ info'[s] = info[s] /\ inode'[s] = inode[s]
             \/ /\ pc'[t] = "m_fail" /\ root'[s] = root[s]
                /\ ~ info'[s] /\ ~ inode'[s]
      BY Zenon, <1>4, <2>2, <3>2 DEF ReadSuperRoot, DropLower, StageTypes
    <3> QED
      BY Zenon, <3>1, <3>3 DEF Stage, SuperStage, Mid, UmountPcs
  <2> QED
    BY Zenon, <2>1, <2>2, <2>3, <2>4, <2>5, Alone, OneMoves
<1>5. CASE ReadSuperLink(t)
  <2>1. Mid(t)
    BY Zenon, <1>5 DEF ReadSuperLink, Mid
  <2>2. PICK s \in Supers : s = on[t]
    BY <2>1, Alone
  <2>3. StageTypes'
    BY Zenon, <1>5, <2>2 DEF ReadSuperLink, Stages, StageTypes, PCs, MountPcs
  <2>4. Frame(t, s)
    BY Zenon, <1>5, <2>2 DEF ReadSuperLink, Stages, StageTypes, Frame
  <2>5. Stage(t)' /\ SuperStage(s)' /\ (Mid(t)' => on'[t] = s)
    BY <1>5, <2>2 DEF ReadSuperLink, Stages, StageTypes, Stage, SuperStage, Mid
  <2> QED
    BY Zenon, <2>1, <2>2, <2>3, <2>4, <2>5, Alone, OneMoves
<1>6. CASE MountFailed(t)
  <2>1. Mid(t)
    BY Zenon, <1>6 DEF MountFailed, Mid
  <2>2. PICK s \in Supers : s = on[t]
    BY <2>1, Alone
  <2>3. StageTypes'
    BY Zenon, <1>6, <2>2 DEF MountFailed, Stages, StageTypes, PCs, MountPcs
  <2>4. Frame(t, s)
    BY Zenon, <1>6, <2>2 DEF MountFailed, Stages, StageTypes, Frame
  <2>5. Stage(t)' /\ SuperStage(s)' /\ (Mid(t)' => on'[t] = s)
    BY Zenon, <1>6, <2>2 DEF MountFailed, Stages, StageTypes, Stage, SuperStage, Mid
  <2> QED
    BY Zenon, <2>1, <2>2, <2>3, <2>4, <2>5, Alone, OneMoves
<1>7. CASE MountOptions(t)
  <2>1. Mid(t)
    BY Zenon, <1>7 DEF MountOptions, Mid
  <2>2. PICK s \in Supers : s = on[t]
    BY <2>1, Alone
  <2>3. StageTypes'
    BY <1>7, <2>2 DEF MountOptions, Stages, StageTypes, PCs, MountPcs
  <2>4. Frame(t, s)
    BY <1>7, <2>2 DEF MountOptions, Stages, StageTypes, Frame
  <2>5. Stage(t)' /\ SuperStage(s)' /\ (Mid(t)' => on'[t] = s)
    <3>1. /\ pc[t] = "m_options" /\ on[t] = s
          /\ st[s] = "setup" /\ info[s] /\ inode[s] /\ files[s] = {}
          /\ root[s] = "linked"
      <4>1. pc[t] = "m_options" /\ Stage(t) /\ SuperStage(s)
        BY Zenon, <1>7 DEF MountOptions, Stages
      <4> QED
        BY Zenon, <2>2, <4>1 DEF Stage, SuperStage
    <3>2. StageTypes
      BY Zenon DEF Stages
    <3>3. /\ info' = info /\ root' = root /\ files' = files
          /\ \/ pc'[t] = "idle" /\ st'[s] = "active"
             \/ pc'[t] = "m_dead" /\ st' = st
      BY Zenon, <1>7, <2>2, <3>2 DEF MountOptions, Leave, StageTypes
    <3> QED
      BY Zenon, <3>1, <3>3 DEF Stage, SuperStage, Mid, UmountPcs
  <2> QED
    BY Zenon, <2>1, <2>2, <2>3, <2>4, <2>5, Alone, OneMoves
<1>8. CASE UmountDcache(t)
  <2>1. Mid(t)
    BY <1>8 DEF UmountDcache, Mid
  <2>2. PICK s \in Supers : s = on[t]
    BY <2>1, Alone
  <2>3. StageTypes'
    BY Zenon, <1>8, <2>2 DEF UmountDcache, Stages, StageTypes, PCs, MountPcs
  <2>4. Frame(t, s)
    BY <1>8, <2>2 DEF UmountDcache, Stages, StageTypes, Frame
  <2>5. Stage(t)' /\ SuperStage(s)' /\ (Mid(t)' => on'[t] = s)
    BY Zenon, <1>8, <2>2 DEF UmountDcache, Stages, StageTypes, Stage, SuperStage, Mid
  <2> QED
    BY Zenon, <2>1, <2>2, <2>3, <2>4, <2>5, Alone, OneMoves
<1>9. CASE UmountSuper(t)
  <2>1. Mid(t)
    BY Zenon, <1>9 DEF UmountSuper, Mid
  <2>2. PICK s \in Supers : s = on[t]
    BY <2>1, Alone
  <2>3. StageTypes'
    BY Zenon, <1>9, <2>2 DEF UmountSuper, Stages, StageTypes, PCs, MountPcs
  <2>4. Frame(t, s)
    BY Zenon, <1>9, <2>2 DEF UmountSuper, Stages, StageTypes, Frame
  <2>5. Stage(t)' /\ SuperStage(s)' /\ (Mid(t)' => on'[t] = s)
    BY Zenon, <1>9, <2>2 DEF UmountSuper, Stages, StageTypes, Stage, SuperStage, Mid
  <2> QED
    BY Zenon, <2>1, <2>2, <2>3, <2>4, <2>5, Alone, OneMoves
<1>10. CASE MountSget(t)
  <2>1. PICK s \in Supers : /\ st[s] = "free" /\ st' = [st EXCEPT ![s] = "setup"]
                            /\ on' = [on EXCEPT ![t] = s]
    BY Zenon, <1>10 DEF MountSget
  <2>2. \A u \in Tasks \ {t} : Mid(u) => on[u] # s
    BY Zenon, <2>1 DEF Stages, Stage, Mid
  <2>3. StageTypes'
    BY Zenon, <1>10, <2>1 DEF MountSget, Stages, StageTypes, PCs, MountPcs
  <2>4. Frame(t, s)
    BY Zenon, <1>10, <2>1 DEF MountSget, Stages, StageTypes, Frame
  <2>5. Stage(t)' /\ SuperStage(s)' /\ (Mid(t)' => on'[t] = s)
    BY <1>10, <2>1 DEF MountSget, Stages, StageTypes, Stage, SuperStage, Mid
  <2> QED
    BY Zenon, <2>2, <2>3, <2>4, <2>5, OneMoves
<1>11. CASE UmountBegin(t)
  <2>1. PICK s \in Supers : /\ st[s] = "active" /\ st' = [st EXCEPT ![s] = "dying"]
                            /\ on' = [on EXCEPT ![t] = s]
    BY Zenon, <1>11 DEF UmountBegin
  <2>2. \A u \in Tasks \ {t} : Mid(u) => on[u] # s
    BY Zenon, <2>1 DEF Stages, Stage, Mid
  <2>3. StageTypes'
    BY Zenon, <1>11, <2>1 DEF UmountBegin, Stages, StageTypes, PCs, MountPcs
  <2>4. Frame(t, s)
    BY Zenon, <1>11, <2>1 DEF UmountBegin, Stages, StageTypes, Frame
  <2>5. Stage(t)' /\ SuperStage(s)' /\ (Mid(t)' => on'[t] = s)
    BY <1>11, <2>1 DEF UmountBegin, Stages, StageTypes, Stage, SuperStage, Mid
  <2> QED
    BY Zenon, <2>2, <2>3, <2>4, <2>5, OneMoves
<1>12. CASE MountBegin(t) \/ MountNoSuper(t) \/ MountOops(t)
  <2>1. /\ UNCHANGED <<on, st, info, inode, root, files>>
        /\ ~ Mid(t) /\ \E p \in {"m_sget", "m_oops", "m_dead"} : pc' = [pc EXCEPT ![t] = p]
    BY Zenon, <1>12 DEF MountBegin, MountNoSuper, MountOops, Mid
  <2>2. pc' \in [Tasks -> PCs] /\ ~ Mid(t)'
    BY <2>1 DEF Stages, StageTypes, Mid, PCs, MountPcs
  <2>3. \A u \in Tasks \ {t} : pc'[u] = pc[u]
    BY Zenon, <2>1 DEF Stages, StageTypes
  <2>4. Beside
    BY Zenon, <2>1, <2>2, <2>3 DEF Stages, StageTypes, Beside, Mid
  <2> QED
    BY <2>4, BesideKeeps
<1> QED
  BY Zenon, <1>1, <1>2, <1>3, <1>4, <1>5, <1>6, <1>7, <1>8, <1>9, <1>10, <1>11, <1>12 DEF MountStep

\* Where a task is that is in a call on a mounted superblock, or in none.
UsePcs == KeyPcs \cup LinkPcs \cup {"idle", "dead"}

\* The calls on a mounted superblock move the task within UsePcs.
LEMMA UseMoves ==
  ASSUME Stages, NEW t \in Tasks, UseMount(t)
  PROVE  /\ UNCHANGED mountVars
         /\ pc[t] \in UsePcs
         /\ \E p \in UsePcs : pc' = [pc EXCEPT ![t] = p]
         /\ \E s \in Supers \cup {NULL} : on' = [on EXCEPT ![t] = s]
<1> USE DEF UseMount, Goto, Leave, UsePcs, KeyPcs, LinkPcs, Stages, StageTypes
<1> DEFINE Moves == /\ UNCHANGED mountVars
                    /\ pc[t] \in UsePcs
                    /\ \E p \in UsePcs : pc' = [pc EXCEPT ![t] = p]
                    /\ \E s \in Supers \cup {NULL} : on' = [on EXCEPT ![t] = s]
<1>1. ASSUME NEW s \in Supers,
             IoctlEnter(t, s) \/ UseBegin(t, s) \/ FollowBegin(t, s)
      PROVE  Moves
  BY Zenon, <1>1 DEF IoctlEnter, UseBegin, FollowBegin
<1>2. ASSUME IoctlNoMemory(t) \/ FollowNoMemory(t) PROVE Moves
  BY <1>2 DEF IoctlNoMemory, FollowNoMemory
<1>3. ASSUME \/ IoctlOther(t) \/ IoctlBadArgs(t) \/ IoctlClear(t)
             \/ Md5Error(t) \/ KeyStore(t) \/ KeyNoMemory(t) \/ UseEnd(t)
             \/ FollowError(t) \/ PutLink(t)
      PROVE  Moves
  BY Zenon, <1>3 DEF IoctlOther, IoctlBadArgs, IoctlClear, Md5Error, Md5At, KeyStore,
              KeyNoMemory, UseEnd, FollowError, PutLink
<1>4. ASSUME Md5Begin(t) \/ Md5End(t) \/ FollowRead(t) PROVE Moves
  BY <1>4 DEF Md5Begin, Md5End, FollowRead
<1> QED
  BY Zenon, <1>1, <1>2, <1>3, <1>4 DEF KeyStep, LinkStep

\* They do not touch the superblock, and the task is in no mount before and
\* after.
LEMMA UseBeside == ASSUME Stages, NEW t \in Tasks, UseMount(t) PROVE Beside
<1>1. /\ UNCHANGED mountVars
      /\ pc[t] \in UsePcs
      /\ \E p \in UsePcs : pc' = [pc EXCEPT ![t] = p]
      /\ \E s \in Supers \cup {NULL} : on' = [on EXCEPT ![t] = s]
  BY Zenon, UseMoves
<1>2. ~ Mid(t) /\ ~ Mid(t)' /\ pc' \in [Tasks -> PCs]
  BY <1>1 DEF Stages, StageTypes, Mid, PCs, UsePcs, KeyPcs, LinkPcs, SetupPcs,
              PathPcs, UmountPcs
<1>3. on' \in [Tasks -> Supers \cup {NULL}]
  BY Zenon, <1>1 DEF Stages, StageTypes
<1>4. \A u \in Tasks \ {t} : pc'[u] = pc[u] /\ on'[u] = on[u]
  BY <1>1 DEF Stages, StageTypes
<1> QED
  BY Zenon, <1>1, <1>2, <1>3, <1>4 DEF Beside, Mid, mountVars, superVars

\* The stages are an invariant.
LEMMA StagesKept == Stages /\ [Next]_vars => Stages'
<1> SUFFICES ASSUME Stages, [Next]_vars PROVE Stages'
  OBVIOUS
<1>1. CASE ModuleStep \/ UNCHANGED vars
  <2>1. UNCHANGED <<pc, on, st, info, inode, root, files>>
    BY Zenon, <1>1 DEF ModuleStep, InitCaches, InitRegister, InitError, ModuleStop,
                ExitCaches, ExitUnregister, superVars, mountVars, vars
  <2>2. Beside
    BY Zenon, <2>1 DEF Beside, Stages, StageTypes
  <2> QED
    BY <2>2, BesideKeeps
<1>2. ASSUME NEW t \in Tasks, MountStep(t) PROVE Stages'
  BY <1>2, MountKeepsStages
<1>3. ASSUME NEW t \in Tasks, UseMount(t) PROVE Stages'
  BY <1>3, UseBeside, BesideKeeps
<1>4. ASSUME NEW s \in Supers, LookupFile(s) \/ EvictFiles(s) PROVE Stages'
  <2>1. /\ UNCHANGED <<pc, on, st, info, inode, root>>
        /\ st[s] = "active"
        /\ \E F : files' = [files EXCEPT ![s] = F]
    BY Zenon, <1>4 DEF LookupFile, EvictFiles
  <2>2. ASSUME NEW u \in Tasks PROVE Stage(u)'
    <3>1. \A r \in Supers \ {s} : files'[r] = files[r]
      BY <2>1 DEF Stages, StageTypes
    <3>2. Stage(u)
      BY Zenon DEF Stages
    <3> QED
      BY Zenon, <2>1, <3>1, <3>2 DEF Stage, Mid, UmountPcs
  <2>3. ASSUME NEW r \in Supers PROVE SuperStage(r)'
    <3>1. SuperStage(r) /\ SuperStage(s)
      BY Zenon DEF Stages
    <3>2. CASE r = s
      BY Zenon, <2>1, <3>1, <3>2 DEF SuperStage
    <3>3. CASE r # s
      <4>1. files'[r] = files[r]
        BY <2>1, <3>3 DEF Stages, StageTypes
      <4> QED
        BY Zenon, <2>1, <3>1, <4>1 DEF SuperStage
    <3> QED
      BY Zenon, <3>2, <3>3
  <2> QED
    BY Zenon, <2>1, <2>2, <2>3 DEF Stages, StageTypes, Mid
<1>5. ASSUME NEW s \in Supers, Remount(s) PROVE Stages'
  <2>1. UNCHANGED <<pc, on, st, info, inode, root, files>>
    BY Zenon, <1>5 DEF Remount, superVars, mountVars
  <2>2. Beside
    BY Zenon, <2>1 DEF Beside, Stages, StageTypes
  <2> QED
    BY <2>2, BesideKeeps
<1> QED
  BY Zenon, <1>1, <1>2, <1>3, <1>4, <1>5 DEF Next

-----------------------------------------------------------------------------
(***************************************************************************)
(* Counts: the references on the lower file system and on the module.      *)
(***************************************************************************)
Informed == {s \in Supers : info[s]}
Rooted   == {s \in Supers : root[s] # "none"}
Walking  == {t \in Tasks : pc[t] \in PathPcs}
InUse    == {s \in Supers : st[s] # "free"}
Mounting == {t \in Tasks : pc[t] \in MountPcs \cup {"m_dead"}}

Counts ==
  /\ lowerActive = Cardinality(Informed)
  /\ lowerPath = Cardinality(Rooted) + Cardinality(Walking)
  /\ modRef = Cardinality(InUse) + Cardinality(Mounting)

\* How the size of a set changes when at most one element comes or goes.
LEMMA OneElement ==
  ASSUME NEW Base, IsFiniteSet(Base), NEW A \in SUBSET Base, NEW B \in SUBSET Base,
         NEW x \in Base, \A y \in Base \ {x} : y \in A <=> y \in B
  PROVE  /\ Cardinality(A) \in Nat /\ Cardinality(B) \in Nat
         /\ x \in A /\ x \notin B => Cardinality(B) = Cardinality(A) - 1
         /\ x \notin A /\ x \in B => Cardinality(B) = Cardinality(A) + 1
         /\ (x \in A <=> x \in B) => Cardinality(B) = Cardinality(A)
<1>1. IsFiniteSet(A) /\ IsFiniteSet(B)
  BY FS_Subset
<1>2. Cardinality(A) \in Nat /\ Cardinality(B) \in Nat
  BY Zenon, <1>1, FS_CardinalityType
<1>3. CASE x \in A /\ x \notin B
  <2>1. B = A \ {x}
    BY Zenon, <1>3
  <2> QED
    BY Zenon, <1>1, <1>2, <1>3, <2>1, FS_RemoveElement
<1>4. CASE x \notin A /\ x \in B
  <2>1. B = A \cup {x}
    BY Zenon, <1>4
  <2> QED
    BY Zenon, <1>1, <1>2, <1>4, <2>1, FS_AddElement
<1>5. CASE x \in A <=> x \in B
  <2>1. B = A
    BY <1>5
  <2> QED
    BY Zenon, <1>2, <1>5, <2>1
<1> QED
  BY Zenon, <1>2, <1>3, <1>4, <1>5

One(b) == IF b THEN 1 ELSE 0

\* How the sizes change when a step is one of task t.
LEMMA TaskCounts ==
  ASSUME NEW t \in Tasks, \A u \in Tasks \ {t} : pc'[u] = pc[u]
  PROVE  /\ Cardinality(Walking) \in Nat /\ Cardinality(Mounting) \in Nat
         /\ Cardinality(Walking)' = Cardinality(Walking)
              + One(pc'[t] \in PathPcs) - One(pc[t] \in PathPcs)
         /\ Cardinality(Mounting)' = Cardinality(Mounting)
              + One(pc'[t] \in MountPcs \cup {"m_dead"})
              - One(pc[t] \in MountPcs \cup {"m_dead"})
<1>1. IsFiniteSet(Tasks)
  BY Zenon, MountAssumption
<1>2. /\ Walking \in SUBSET Tasks /\ Walking' \in SUBSET Tasks
      /\ \A u \in Tasks \ {t} : u \in Walking <=> u \in Walking'
      /\ t \in Walking <=> pc[t] \in PathPcs
      /\ t \in Walking' <=> pc'[t] \in PathPcs
  BY Zenon DEF Walking
<1>3. /\ Mounting \in SUBSET Tasks /\ Mounting' \in SUBSET Tasks
      /\ \A u \in Tasks \ {t} : u \in Mounting <=> u \in Mounting'
      /\ t \in Mounting <=> pc[t] \in MountPcs \cup {"m_dead"}
      /\ t \in Mounting' <=> pc'[t] \in MountPcs \cup {"m_dead"}
  BY Zenon DEF Mounting
<1>4. /\ Cardinality(Walking) \in Nat
      /\ Cardinality(Walking)' = Cardinality(Walking)
           + One(pc'[t] \in PathPcs) - One(pc[t] \in PathPcs)
  BY <1>1, <1>2, OneElement DEF One
<1>5. /\ Cardinality(Mounting) \in Nat
      /\ Cardinality(Mounting)' = Cardinality(Mounting)
           + One(pc'[t] \in MountPcs \cup {"m_dead"})
           - One(pc[t] \in MountPcs \cup {"m_dead"})
  BY <1>1, <1>3, OneElement DEF One
<1> QED
  BY Zenon, <1>4, <1>5

\* How the sizes change when a step is about superblock s.
LEMMA SuperCounts ==
  ASSUME NEW s \in Supers,
         \A r \in Supers \ {s} : /\ st'[r] = st[r] /\ info'[r] = info[r]
                                 /\ root'[r] = root[r]
  PROVE  /\ Cardinality(Informed) \in Nat /\ Cardinality(Rooted) \in Nat
         /\ Cardinality(InUse) \in Nat
         /\ Cardinality(Informed)' = Cardinality(Informed)
              + One(info'[s]) - One(info[s])
         /\ Cardinality(Rooted)' = Cardinality(Rooted)
              + One(root'[s] # "none") - One(root[s] # "none")
         /\ Cardinality(InUse)' = Cardinality(InUse)
              + One(st'[s] # "free") - One(st[s] # "free")
<1>1. IsFiniteSet(Supers)
  BY Zenon, MountAssumption
<1>2. /\ Informed \in SUBSET Supers /\ Informed' \in SUBSET Supers
      /\ \A r \in Supers \ {s} : r \in Informed <=> r \in Informed'
      /\ s \in Informed <=> info[s]
      /\ s \in Informed' <=> info'[s]
  BY Zenon DEF Informed
<1>3. /\ Rooted \in SUBSET Supers /\ Rooted' \in SUBSET Supers
      /\ \A r \in Supers \ {s} : r \in Rooted <=> r \in Rooted'
      /\ s \in Rooted <=> root[s] # "none"
      /\ s \in Rooted' <=> root'[s] # "none"
  BY Zenon DEF Rooted
<1>4. /\ InUse \in SUBSET Supers /\ InUse' \in SUBSET Supers
      /\ \A r \in Supers \ {s} : r \in InUse <=> r \in InUse'
      /\ s \in InUse <=> st[s] # "free"
      /\ s \in InUse' <=> st'[s] # "free"
  BY Zenon DEF InUse
<1>5. /\ Cardinality(Informed) \in Nat
      /\ Cardinality(Informed)' = Cardinality(Informed)
           + One(info'[s]) - One(info[s])
  BY <1>1, <1>2, OneElement DEF One
<1>6. /\ Cardinality(Rooted) \in Nat
      /\ Cardinality(Rooted)' = Cardinality(Rooted)
           + One(root'[s] # "none") - One(root[s] # "none")
  BY <1>1, <1>3, OneElement DEF One
<1>7. /\ Cardinality(InUse) \in Nat
      /\ Cardinality(InUse)' = Cardinality(InUse)
           + One(st'[s] # "free") - One(st[s] # "free")
  BY <1>1, <1>4, OneElement DEF One
<1> QED
  BY Zenon, <1>5, <1>6, <1>7

\* The three counts change with what task t and superblock s hold.
Accounts(t, s) ==
  /\ lowerActive' = lowerActive + One(info'[s]) - One(info[s])
  /\ lowerPath' = lowerPath + One(root'[s] # "none") - One(root[s] # "none")
                            + One(pc'[t] \in PathPcs) - One(pc[t] \in PathPcs)
  /\ modRef' = modRef + One(st'[s] # "free") - One(st[s] # "free")
                      + One(pc'[t] \in MountPcs \cup {"m_dead"})
                      - One(pc[t] \in MountPcs \cup {"m_dead"})

\* The counts are integers.
LEMMA CountsInt ==
  Counts => lowerActive \in Int /\ lowerPath \in Int /\ modRef \in Int
<1>1. /\ IsFiniteSet(Informed) /\ IsFiniteSet(Rooted) /\ IsFiniteSet(InUse)
      /\ IsFiniteSet(Walking) /\ IsFiniteSet(Mounting)
  BY MountAssumption, FS_Subset DEF Informed, Rooted, InUse, Walking, Mounting
<1> QED
  BY <1>1, FS_CardinalityType DEF Counts

\* A step of task t on superblock s alone keeps the counts if it takes and gives
\* up what the two then have or no longer have.
LEMMA StepCounts ==
  ASSUME Counts, NEW t \in Tasks, NEW s \in Supers, Frame(t, s), Accounts(t, s)
  PROVE  Counts'
<1>1. \A b : One(b) \in Int
  BY DEF One
<1>2. /\ \A u \in Tasks \ {t} : pc'[u] = pc[u]
      /\ \A r \in Supers \ {s} : /\ st'[r] = st[r] /\ info'[r] = info[r]
                                 /\ root'[r] = root[r]
  BY Zenon DEF Frame
<1>3. /\ Cardinality(Walking) \in Nat /\ Cardinality(Mounting) \in Nat
      /\ Cardinality(Walking)' = Cardinality(Walking)
           + One(pc'[t] \in PathPcs) - One(pc[t] \in PathPcs)
      /\ Cardinality(Mounting)' = Cardinality(Mounting)
           + One(pc'[t] \in MountPcs \cup {"m_dead"})
           - One(pc[t] \in MountPcs \cup {"m_dead"})
  BY Zenon, <1>2, TaskCounts
<1>4. /\ Cardinality(Informed) \in Nat /\ Cardinality(Rooted) \in Nat
      /\ Cardinality(InUse) \in Nat
      /\ Cardinality(Informed)' = Cardinality(Informed)
           + One(info'[s]) - One(info[s])
      /\ Cardinality(Rooted)' = Cardinality(Rooted)
           + One(root'[s] # "none") - One(root[s] # "none")
      /\ Cardinality(InUse)' = Cardinality(InUse)
           + One(st'[s] # "free") - One(st[s] # "free")
  BY Zenon, <1>2, SuperCounts
<1>5. lowerActive' = Cardinality(Informed)'
  BY Zenon, <1>1, <1>4 DEF Counts, Accounts
<1>6. lowerPath' = Cardinality(Rooted)' + Cardinality(Walking)'
  <2>1. PICK a \in Int, b \in Int, c \in Int, d \in Int :
          /\ a = One(root'[s] # "none") /\ b = One(root[s] # "none")
          /\ c = One(pc'[t] \in PathPcs) /\ d = One(pc[t] \in PathPcs)
    BY Zenon, <1>1
  <2>2. /\ lowerPath = Cardinality(Rooted) + Cardinality(Walking)
        /\ lowerPath' = lowerPath + a - b + c - d
    BY Zenon, <2>1 DEF Counts, Accounts
  <2>3. /\ Cardinality(Rooted)' = Cardinality(Rooted) + a - b
        /\ Cardinality(Walking)' = Cardinality(Walking) + c - d
        /\ Cardinality(Rooted) \in Nat /\ Cardinality(Walking) \in Nat
    BY Zenon, <1>3, <1>4, <2>1
  <2> QED
    BY <2>2, <2>3
<1>7. modRef' = Cardinality(InUse)' + Cardinality(Mounting)'
  <2>1. PICK a \in Int, b \in Int, c \in Int, d \in Int :
          /\ a = One(st'[s] # "free") /\ b = One(st[s] # "free")
          /\ c = One(pc'[t] \in MountPcs \cup {"m_dead"})
          /\ d = One(pc[t] \in MountPcs \cup {"m_dead"})
    BY Zenon, <1>1
  <2>2. /\ modRef = Cardinality(InUse) + Cardinality(Mounting)
        /\ modRef' = modRef + a - b + c - d
    BY Zenon, <2>1 DEF Counts, Accounts
  <2>3. /\ Cardinality(InUse)' = Cardinality(InUse) + a - b
        /\ Cardinality(Mounting)' = Cardinality(Mounting) + c - d
        /\ Cardinality(InUse) \in Nat /\ Cardinality(Mounting) \in Nat
    BY Zenon, <1>3, <1>4, <2>1
  <2> QED
    BY <2>2, <2>3
<1> QED
  BY Zenon, <1>5, <1>6, <1>7 DEF Counts

\* Every step of a mount or umount keeps the counts: what it takes or gives up
\* is what its superblock and its task then have or no longer have.
LEMMA MountKeepsCounts ==
  ASSUME Stages, Counts, NEW t \in Tasks, MountStep(t) PROVE Counts'
<1> USE DEF Goto, Leave, Pin, superVars, lowerVars, mountVars, PathPcs, SetupPcs,
            MountPcs, UmountPcs
<1>1. CASE ReadSuperPath(t)
  <2>1. Mid(t)
    BY <1>1 DEF ReadSuperPath, Mid
  <2>2. PICK s \in Supers : s = on[t]
    BY Zenon, <2>1, Alone
  <2>3. Frame(t, s)
    BY Zenon, <1>1, <2>2 DEF ReadSuperPath, Stages, StageTypes, Frame
  <2>4. Stage(t) /\ StageTypes
    BY Zenon DEF Stages
  <2>5. Accounts(t, s)
    BY <1>1, <2>2, <2>4, CountsInt DEF ReadSuperPath, StageTypes, Stage, Accounts, One
  <2> QED
    BY Zenon, <2>3, <2>5, StepCounts
<1>2. CASE ReadSuperInfo(t)
  <2>1. Mid(t)
    BY Zenon, <1>2 DEF ReadSuperInfo, Mid
  <2>2. PICK s \in Supers : s = on[t]
    BY <2>1, Alone
  <2>3. Frame(t, s)
    BY Zenon, <1>2, <2>2 DEF ReadSuperInfo, Stages, StageTypes, Frame
  <2>4. Stage(t) /\ StageTypes
    BY Zenon DEF Stages
  <2>5. Accounts(t, s)
    BY <1>2, <2>2, <2>4, CountsInt DEF ReadSuperInfo, StageTypes, Stage, Accounts, One
  <2> QED
    BY <2>3, <2>5, StepCounts
<1>3. CASE ReadSuperIget(t)
  <2>1. Mid(t)
    BY Zenon, <1>3 DEF ReadSuperIget, Mid
  <2>2. PICK s \in Supers : s = on[t]
    BY <2>1, Alone
  <2>3. Frame(t, s)
    BY Zenon, <1>3, <2>2 DEF ReadSuperIget, DropLower, Stages, StageTypes, Frame
  <2>4. Stage(t) /\ StageTypes
    BY DEF Stages
  <2>5. Accounts(t, s)
    BY <1>3, <2>2, <2>4, CountsInt
    DEF ReadSuperIget, DropLower, StageTypes, Stage, Accounts, One
  <2> QED
    BY <2>3, <2>5, StepCounts
<1>4. CASE ReadSuperRoot(t)
  <2>1. Mid(t)
    BY Zenon, <1>4 DEF ReadSuperRoot, Mid
  <2>2. PICK s \in Supers : s = on[t]
    BY <2>1, Alone
  <2>3. Frame(t, s)
    BY Zenon, <1>4, <2>2 DEF ReadSuperRoot, DropLower, Stages, StageTypes, Frame
  <2>4. Stage(t) /\ StageTypes
    BY DEF Stages
  <2>5. Accounts(t, s)
    BY <1>4, <2>2, <2>4, CountsInt
    DEF ReadSuperRoot, DropLower, StageTypes, Stage, Accounts, One
  <2> QED
    BY <2>3, <2>5, StepCounts
<1>5. CASE ReadSuperLink(t)
  <2>1. Mid(t)
    BY Zenon, <1>5 DEF ReadSuperLink, Mid
  <2>2. PICK s \in Supers : s = on[t]
    BY <2>1, Alone
  <2>3. Frame(t, s)
    BY Zenon, <1>5, <2>2 DEF ReadSuperLink, Stages, StageTypes, Frame
  <2>4. Stage(t) /\ StageTypes
    BY DEF Stages
  <2>5. Accounts(t, s)
    BY <1>5, <2>2, <2>4, CountsInt DEF ReadSuperLink, StageTypes, Stage, Accounts, One
  <2> QED
    BY <2>3, <2>5, StepCounts
<1>6. CASE MountFailed(t)
  <2>1. Mid(t)
    BY Zenon, <1>6 DEF MountFailed, Mid
  <2>2. PICK s \in Supers : s = on[t]
    BY <2>1, Alone
  <2>3. Frame(t, s)
    BY Zenon, <1>6, <2>2 DEF MountFailed, Stages, StageTypes, Frame
  <2>4. Stage(t) /\ StageTypes
    BY DEF Stages
  <2>5. Accounts(t, s)
    BY <1>6, <2>2, <2>4, CountsInt DEF MountFailed, StageTypes, Stage, Accounts, One
  <2> QED
    BY <2>3, <2>5, StepCounts
<1>7. CASE MountOptions(t)
  <2>1. Mid(t)
    BY Zenon, <1>7 DEF MountOptions, Mid
  <2>2. PICK s \in Supers : s = on[t]
    BY <2>1, Alone
  <2>3. Frame(t, s)
    BY Zenon, <1>7, <2>2 DEF MountOptions, Stages, StageTypes, Frame
  <2>4. Stage(t) /\ StageTypes
    BY DEF Stages
  <2>5. Accounts(t, s)
    BY <1>7, <2>2, <2>4, CountsInt DEF MountOptions, StageTypes, Stage, Accounts, One
  <2> QED
    BY Zenon, <2>3, <2>5, StepCounts
<1>8. CASE UmountDcache(t)
  <2>1. Mid(t)
    BY Zenon, <1>8 DEF UmountDcache, Mid
  <2>2. PICK s \in Supers : s = on[t]
    BY <2>1, Alone
  <2>3. Frame(t, s)
    BY Zenon, <1>8, <2>2 DEF UmountDcache, Stages, StageTypes, Frame
  <2>4. Stage(t) /\ StageTypes
    BY DEF Stages
  <2>5. Accounts(t, s)
    BY <1>8, <2>2, <2>4, CountsInt DEF UmountDcache, StageTypes, Stage, Accounts, One
  <2> QED
    BY <2>3, <2>5, StepCounts
<1>9. CASE UmountSuper(t)
  <2>1. Mid(t)
    BY Zenon, <1>9 DEF UmountSuper, Mid
  <2>2. PICK s \in Supers : s = on[t]
    BY <2>1, Alone
  <2>3. Frame(t, s)
    BY Zenon, <1>9, <2>2 DEF UmountSuper, Stages, StageTypes, Frame
  <2>4. Stage(t) /\ StageTypes
    BY DEF Stages
  <2>5. /\ info[s] /\ ~ info'[s] /\ root'[s] = root[s]
        /\ st[s] = "dying" /\ st'[s] = "free"
        /\ pc[t] = "u_super" /\ pc'[t] = "idle"
    BY Zenon, <1>9, <2>2, <2>4 DEF UmountSuper, StageTypes, Stage
  <2>6. Accounts(t, s)
    BY <1>9, <2>2, <2>5, CountsInt DEF UmountSuper, Accounts, One
  <2> QED
    BY <2>3, <2>6, StepCounts
<1>10. CASE MountSget(t)
  <2>1. PICK s \in Supers : st[s] = "free" /\ st' = [st EXCEPT ![s] = "setup"]
    BY Zenon, <1>10 DEF MountSget
  <2>2. Frame(t, s)
    BY Zenon, <1>10, <2>1 DEF MountSget, Stages, StageTypes, Frame
  <2>3. Accounts(t, s)
    BY <1>10, <2>1, CountsInt DEF MountSget, Stages, StageTypes, Accounts, One
  <2> QED
    BY <2>2, <2>3, StepCounts
<1>11. CASE UmountBegin(t)
  <2>1. PICK s \in Supers : st[s] = "active" /\ st' = [st EXCEPT ![s] = "dying"]
    BY Zenon, <1>11 DEF UmountBegin
  <2>2. Frame(t, s)
    BY Zenon, <1>11, <2>1 DEF UmountBegin, Stages, StageTypes, Frame
  <2>3. Accounts(t, s)
    <3>1. /\ UNCHANGED <<info, root, modRef, lowerActive, lowerPath>>
          /\ pc[t] = "idle" /\ pc' = [pc EXCEPT ![t] = "u_dcache"]
      BY Zenon, <1>11 DEF UmountBegin, Goto, lowerVars
    <3>2. pc'[t] = "u_dcache" /\ st'[s] = "dying"
      BY Zenon, <2>1, <3>1 DEF Stages, StageTypes
    <3>3. /\ One(pc[t] \in PathPcs) = 0 /\ One(pc'[t] \in PathPcs) = 0
          /\ One(pc[t] \in MountPcs \cup {"m_dead"}) = 0
          /\ One(pc'[t] \in MountPcs \cup {"m_dead"}) = 0
          /\ One(st[s] # "free") = 1 /\ One(st'[s] # "free") = 1
      BY Zenon, <2>1, <3>1, <3>2 DEF One, MountPcs, SetupPcs, PathPcs
    <3>4. /\ One(info[s]) \in Int /\ One(root[s] # "none") \in Int
          /\ lowerActive \in Int /\ lowerPath \in Int /\ modRef \in Int
      BY CountsInt DEF One
    <3>5. One(info'[s]) = One(info[s]) /\ One(root'[s] # "none") = One(root[s] # "none")
      BY Zenon, <3>1
    <3> QED
      BY <3>1, <3>3, <3>4, <3>5 DEF Accounts
  <2> QED
    BY <2>2, <2>3, StepCounts
<1>12. CASE MountBegin(t) \/ MountNoSuper(t) \/ MountOops(t)
  <2>1. \A u \in Tasks \ {t} : pc'[u] = pc[u]
    BY <1>12 DEF MountBegin, MountNoSuper, MountOops, Stages, StageTypes
  <2>2. UNCHANGED <<Informed, Rooted, InUse>>
    BY Zenon, <1>12 DEF MountBegin, MountNoSuper, MountOops, Informed, Rooted, InUse
  <2>3. /\ Cardinality(Informed)' = Cardinality(Informed)
        /\ Cardinality(Rooted)' = Cardinality(Rooted)
        /\ Cardinality(InUse)' = Cardinality(InUse)
    BY <2>2
  <2>4. Cardinality(Rooted) \in Nat /\ Cardinality(InUse) \in Nat
    BY Zenon, MountAssumption, FS_Subset, FS_CardinalityType DEF Rooted, InUse
  <2> QED
    BY <1>12, <2>1, <2>3, <2>4, TaskCounts
    DEF MountBegin, MountNoSuper, MountOops, Stages, StageTypes, Counts, One
<1> QED
  BY Zenon, <1>1, <1>2, <1>3, <1>4, <1>5, <1>6, <1>7, <1>8, <1>9, <1>10, <1>11, <1>12 DEF MountStep

-----------------------------------------------------------------------------
(***************************************************************************)
(* The module: it is only removed when nothing is left that needs it.      *)
(***************************************************************************)
Modular ==
  /\ registered => module \in {"live", "going"}
  /\ module = "live" => icache /\ dcache
  /\ module # "live" => InUse = {} /\ Mounting = {}

\* The inductive invariant.
RefInv == Stages /\ Counts /\ Modular

\* delete_module finds a reference count of zero only when there is no
\* superblock and no mount in progress.
LEMMA NoneLeft == Counts /\ modRef = 0 => InUse = {} /\ Mounting = {}
<1>1. IsFiniteSet(InUse) /\ IsFiniteSet(Mounting)
  BY Zenon, MountAssumption, FS_Subset DEF InUse, Mounting
<1>2. Cardinality(InUse) \in Nat /\ Cardinality(Mounting) \in Nat
  BY Zenon, <1>1, FS_CardinalityType
<1> QED
  BY <1>1, <1>2, FS_EmptySet DEF Counts

\* The module is live while a mount or umount runs.
LEMMA MountIsLive ==
  ASSUME RefInv, NEW t \in Tasks, MountStep(t) PROVE module = "live"
<1> USE DEF RefInv, Modular
<1>1. CASE MountBegin(t)
  BY Zenon, <1>1 DEF MountBegin
<1>2. CASE UmountBegin(t)
  BY Zenon, <1>2 DEF UmountBegin, InUse
<1>3. CASE UmountDcache(t) \/ UmountSuper(t)
  <2>1. on[t] \in Supers /\ st[on[t]] = "dying"
    BY Zenon, <1>3 DEF UmountDcache, UmountSuper, Goto, Stages, Stage, Mid, UmountPcs
  <2> QED
    BY <2>1 DEF InUse
<1>4. CASE \/ MountSget(t) \/ MountNoSuper(t) \/ ReadSuperPath(t) \/ ReadSuperInfo(t)
           \/ ReadSuperIget(t) \/ ReadSuperRoot(t) \/ ReadSuperLink(t)
           \/ MountFailed(t) \/ MountOops(t) \/ MountOptions(t)
  <2>1. pc[t] \in MountPcs
    BY Zenon, <1>4 DEF MountSget, MountNoSuper, ReadSuperPath, ReadSuperInfo, ReadSuperIget,
       ReadSuperRoot, ReadSuperLink, MountFailed, MountOops, MountOptions, Goto,
       MountPcs, SetupPcs, PathPcs
  <2> QED
    BY <2>1 DEF Mounting
<1> QED
  BY Zenon, <1>1, <1>2, <1>3, <1>4 DEF MountStep

\* A step that leaves the sets of users alone keeps the counts.
LEMMA SameCounts ==
  Counts /\ UNCHANGED <<Informed, Rooted, Walking, InUse, Mounting,
                        lowerActive, lowerPath, modRef>> => Counts'
  BY DEF Counts

\* The calls on a mounted superblock are no mounts.
LEMMA UseSame ==
  ASSUME Stages, NEW t \in Tasks, UseMount(t)
  PROVE  UNCHANGED <<Informed, Rooted, Walking, InUse, Mounting, mountVars>>
<1>1. /\ UNCHANGED mountVars
      /\ pc[t] \in UsePcs
      /\ \E p \in UsePcs : pc' = [pc EXCEPT ![t] = p]
  BY Zenon, UseMoves
<1>2. \A u \in Tasks : /\ pc'[u] \in PathPcs <=> pc[u] \in PathPcs
                       /\ pc'[u] \in MountPcs \cup {"m_dead"}
                            <=> pc[u] \in MountPcs \cup {"m_dead"}
  BY Zenon, <1>1 DEF Stages, StageTypes, UsePcs, KeyPcs, LinkPcs, PathPcs, SetupPcs,
              MountPcs
<1>3. UNCHANGED <<Walking, Mounting>>
  BY Zenon, <1>2 DEF Walking, Mounting
<1>4. UNCHANGED <<Informed, Rooted, InUse>>
  BY Zenon, <1>1 DEF mountVars, superVars, Informed, Rooted, InUse
<1> QED
  BY Zenon, <1>1, <1>3, <1>4

\* RefInv is an invariant of the composed system.
THEOREM ReferencesInvariant == Spec => []RefInv
<1>1. Init => RefInv
  <2> SUFFICES ASSUME Init PROVE RefInv
    BY Zenon
  <2>1. Stages
    BY Zenon DEF Init, Stages, StageTypes, Stage, SuperStage, Mid, PCs, MountPcs, SetupPcs,
           PathPcs, UmountPcs
  <2>2. /\ Informed = {} /\ Rooted = {} /\ Walking = {} /\ InUse = {}
        /\ Mounting = {}
    BY Zenon DEF Init, Informed, Rooted, Walking, InUse, Mounting, MountPcs, SetupPcs,
           PathPcs
  <2>3. Counts
    BY <2>2, FS_EmptySet DEF Init, Counts
  <2> QED
    BY Zenon, <2>1, <2>2, <2>3 DEF Init, RefInv, Modular
<1>2. RefInv /\ [Next]_vars => RefInv'
  <2> SUFFICES ASSUME RefInv, [Next]_vars PROVE RefInv'
    OBVIOUS
  <2>1. Stages'
    BY StagesKept DEF RefInv
  <2>2. CASE ModuleStep
    <3>1. /\ UNCHANGED <<pc, st, info, root, lowerActive, lowerPath, modRef>>
      BY Zenon, <2>2 DEF ModuleStep, InitCaches, InitRegister, InitError, ModuleStop,
         ExitCaches, ExitUnregister, superVars, lowerVars
    <3>2. UNCHANGED <<Informed, Rooted, Walking, InUse, Mounting>>
      BY Zenon, <3>1 DEF Informed, Rooted, Walking, InUse, Mounting
    <3>3. Counts'
      BY Zenon, <3>1, <3>2, SameCounts DEF RefInv
    <3>4. Modular'
      <4> USE DEF RefInv, Modular
      <4>1. CASE InitCaches
        BY Zenon, <3>2, <4>1 DEF InitCaches
      <4>2. CASE InitRegister
        BY Zenon, <3>2, <4>2 DEF InitRegister
      <4>3. CASE InitError
        BY Zenon, <3>2, <4>3 DEF InitError
      <4>4. CASE ModuleStop
        BY Zenon, <3>2, <4>4, NoneLeft DEF ModuleStop
      <4>5. CASE ExitCaches
        BY Zenon, <3>2, <4>5 DEF ExitCaches
      <4>6. CASE ExitUnregister
        BY Zenon, <3>2, <4>6 DEF ExitUnregister
      <4> QED
        BY Zenon, <2>2, <4>1, <4>2, <4>3, <4>4, <4>5, <4>6 DEF ModuleStep
    <3> QED
      BY Zenon, <2>1, <3>3, <3>4 DEF RefInv
  <2>3. ASSUME NEW t \in Tasks, MountStep(t) PROVE RefInv'
    <3>1. module = "live"
      BY <2>3, MountIsLive
    <3>2. UNCHANGED moduleVars
      BY Zenon, <2>3 DEF MountStep, MountBegin, MountSget, MountNoSuper, ReadSuperPath,
         ReadSuperInfo, ReadSuperIget, ReadSuperRoot, ReadSuperLink, MountFailed,
         MountOops, MountOptions, UmountBegin, UmountDcache, UmountSuper, mountVars
    <3>3. Modular'
      BY Zenon, <3>1, <3>2 DEF RefInv, Modular, moduleVars
    <3> QED
      BY Zenon, <2>1, <2>3, <3>3, MountKeepsCounts DEF RefInv
  <2>4. ASSUME NEW t \in Tasks, UseMount(t) PROVE RefInv'
    <3>1. UNCHANGED <<Informed, Rooted, Walking, InUse, Mounting, mountVars>>
      BY Zenon, <2>4, UseSame DEF RefInv
    <3>2. Counts'
      BY Zenon, <3>1, SameCounts DEF RefInv, mountVars, lowerVars
    <3>3. Modular'
      BY <3>1 DEF RefInv, Modular, mountVars, moduleVars
    <3> QED
      BY Zenon, <2>1, <3>2, <3>3 DEF RefInv
  <2>5. CASE \/ \E s \in Supers : LookupFile(s) \/ EvictFiles(s) \/ Remount(s)
             \/ UNCHANGED vars
    <3>1. UNCHANGED <<pc, st, info, root, lowerActive, lowerPath, modRef, moduleVars>>
      BY Zenon, <2>5 DEF LookupFile, EvictFiles, Remount, vars, mountVars, superVars,
         lowerVars
    <3>2. UNCHANGED <<Informed, Rooted, Walking, InUse, Mounting>>
      BY Zenon, <3>1 DEF Informed, Rooted, Walking, InUse, Mounting
    <3>3. Counts'
      BY Zenon, <3>1, <3>2, SameCounts DEF RefInv
    <3>4. Modular'
      BY <3>1, <3>2 DEF RefInv, Modular, moduleVars
    <3> QED
      BY <2>1, <3>3, <3>4 DEF RefInv
  <2> QED
    BY Zenon, <2>2, <2>3, <2>4, <2>5 DEF Next
<1> QED
  BY <1>1, <1>2, PTL DEF Spec

\* Every error label of wrapfs_read_super, and put_super, give up exactly what
\* was taken of the lower file system and of the module, for any number of
\* mounts in progress and any calls that fail.
THEOREM LowerIsAccounted == Spec => []LowerAccounted
<1>1. RefInv => LowerAccounted
  BY Zenon DEF RefInv, Stages, SuperStage, Counts, Informed, Rooted, Walking, InUse,
         Mounting, LowerAccounted
<1> QED
  BY <1>1, ReferencesInvariant, PTL

\* exit_wrapfs_fs never destroys a slab cache that an inode or a dentry, or a
\* mount in progress, still needs.
THEOREM CachesLastLongest == Spec => []CachesOutliveObjects
<1>1. RefInv => CachesOutliveObjects
  <2> SUFFICES ASSUME RefInv,
                      \/ \E s \in Supers : inode[s] \/ files[s] # {} \/ root[s] = "linked"
                      \/ \E t \in Tasks : pc[t] \in MountPcs
               PROVE  icache /\ dcache
    BY Zenon DEF CachesOutliveObjects
  <2>1. CASE \E s \in Supers : inode[s] \/ files[s] # {} \/ root[s] = "linked"
    <3>1. InUse # {}
      BY Zenon, <2>1 DEF RefInv, Stages, SuperStage, InUse
    <3> QED
      BY Zenon, <3>1 DEF RefInv, Modular
  <2>2. CASE \E t \in Tasks : pc[t] \in MountPcs
    <3>1. Mounting # {}
      BY <2>2 DEF Mounting
    <3> QED
      BY Zenon, <3>1 DEF RefInv, Modular
  <2> QED
    BY Zenon, <2>1, <2>2
<1> QED
  BY <1>1, ReferencesInvariant, PTL
=============================================================================
