--------------------------- MODULE WrapfsFileProofs ---------------------------
(***************************************************************************)
(* Proofs about WrapfsFile: type correctness, the life of lower files and  *)
(* their vm_ops, the size of the upper inode, and fsync.                   *)
(***************************************************************************)
EXTENDS WrapfsFile, TLAPS

\* A mapping's file has vm_ops.  A task in a call on a file holds its
\* descriptor; a task in wrapfs_mmap has found vm_ops or brings some, and the
\* mapping it is about to link is its own.
MapInv ==
  /\ \A v \in Vmas : vma[v] # NULL => file[vma[v]].ops
  /\ \A f \in Files : file[f].open <=> file[f].lower
  /\ \A t \in Tasks : call[t].file # NULL => file[call[t].file].fd
  /\ \A t \in Tasks : pc[t] = "m_save" =>
       /\ call[t].file # NULL /\ call[t].vma # NULL
       /\ vma[call[t].vma] = NULL
       /\ \A u \in Tasks \ {t} : call[u].vma # call[t].vma
       /\ call[t].saved \/ file[call[t].file].ops
  /\ LowerFilesReleased
  /\ FaultFindsLower

\* Of two calls that set the size both know that they met.  While the size is
\* sure to be right no call that changes it is under way, and a call that met
\* no other has seen the size as it is.
SizeInv ==
  /\ mixed \subseteq Sizing
  /\ \A t, u \in Sizing : t # u => t \in mixed
  /\ sure => \A t \in Sizing : pc[t] = "n_make" /\ call[t].size = isize
  /\ \A t \in Sizing \ mixed :
       /\ pc[t] = "w_store" => call[t].size = lsize
       /\ pc[t] \in {"t_lock", "t_lower"} => call[t].size = isize
  /\ SizeRepaired

\* The page is on the disk, or will be when its write-back ends.
Settled(p) == wb[p] \subseteq {mem[p]} /\ (wb[p] = {} => disk[p] = mem[p])
DirtyEntry(p) == \E v \in Vmas : pte[v][p] = "dirty"

\* What fsync leaves behind: a page it has passed is settled, and one it does
\* not wait for is on the disk.
Passed(t, p) ==
  /\ pc[t] = "s_write" /\ p \notin call[t].todo => DirtyEntry(p) \/ Settled(p)
  /\ pc[t] = "s_wait" =>
       \/ DirtyEntry(p)
       \/ Settled(p) /\ (p \notin call[t].todo => disk[p] = mem[p])

\* A page that is not dirty, nor dirty in a page table, is settled; what fsync
\* leaves behind stays so until the page changes.
SyncInv ==
  /\ \A p \in Pages : p \in dirty \/ DirtyEntry(p) \/ Settled(p)
  /\ \A t \in Tasks : \A p \in Pages \ since[t] : Passed(t, p)

-----------------------------------------------------------------------------
(***************************************************************************)
(* Type correctness.                                                       *)
(***************************************************************************)
\* A write or a page fault is about a page of the file.
PageInFile ==
  \A t \in Tasks : pc[t] \in {"w_lower", "f_lower"} => call[t].page \in Pages

\* Opening, closing, stores to mapped memory and write-back concern no call.
LEMMA Aside ==
  ASSUME \/ \E f \in Files : Open(f) \/ Close(f)
         \/ \E v \in Vmas : StoreNotify(v) \/ Store(v) \/ Munmap(v)
         \/ \E p \in Pages : WritebackBegin(p) \/ WritebackEnd(p)
         \/ Unlink
  PROVE  UNCHANGED <<pc, call, isize, lsize, mixed, sure>>
BY Zenon DEF Open, Close, StoreNotify, Store, Munmap, WritebackBegin, WritebackEnd,
       Unlink, lower, maps, history, bounds

\* The calls users make have the type of a call.
LEMMA NoCallType == NoCall \in Call
BY FileAssumption DEF NoCall, Call

\* The calls that tasks begin have their types.
LEMMA CallTypes ==
  /\ \A f \in Files, p \in Pages : [NoCall EXCEPT !.file = f, !.page = p] \in Call
  /\ \A n \in 0 .. NumPages : [NoCall EXCEPT !.size = n] \in Call
  /\ \A f \in Files, v \in Vmas, b \in BOOLEAN :
       [NoCall EXCEPT !.file = f, !.vma = v, !.saved = b] \in Call
  /\ \A v \in Vmas, p \in Pages, b \in BOOLEAN :
       [NoCall EXCEPT !.vma = v, !.page = p, !.write = b] \in Call
  /\ \A f \in Files : [NoCall EXCEPT !.file = f, !.todo = Pages] \in Call
<1>1. 0 \in 0 .. NumPages /\ \A p \in Pages : p \in 0 .. NumPages
  BY FileAssumption DEF Pages
<1>2. QED
  BY Zenon, <1>1 DEF NoCall, Call

\* A call stays one when its size or its pages left to do are set.
LEMMA CallUpdates ==
  ASSUME NEW c \in Call
  PROVE  /\ \A n \in 0 .. NumPages : [c EXCEPT !.size = n] \in Call
         /\ \A P \in SUBSET Pages : [c EXCEPT !.todo = P] \in Call
BY DEF Call

\* Files that are opened, closed or given vm_ops have their types.
LEMMA FileTypes ==
  /\ Closed \in File
  /\ [open |-> TRUE, fd |-> TRUE, lower |-> TRUE, ops |-> FALSE] \in File
  /\ \A x \in File, b \in BOOLEAN : /\ [x EXCEPT !.fd = b] \in File
                                    /\ [x EXCEPT !.ops = b] \in File
BY DEF Closed, File

\* A task that begins a call, returns or goes on keeps pc and call in type.
LEMMA BeginType ==
  ASSUME TypeOK, NEW t \in Tasks, NEW c \in Call, NEW to \in PCs, Begin(t, c, to)
  PROVE  pc' \in [Tasks -> PCs] /\ call' \in [Tasks -> Call]
BY DEF TypeOK, Begin

\* So does a task that returns.
LEMMA ReturnType ==
  ASSUME TypeOK, NEW t \in Tasks, Return(t)
  PROVE  /\ pc' \in [Tasks -> PCs] /\ call' \in [Tasks -> Call]
         /\ mixed' \subseteq Tasks
<1>1. "idle" \in PCs
  BY DEF PCs
<1>2. QED
  BY <1>1, NoCallType DEF TypeOK, Return

\* What fsync takes note of is pages.
LEMMA ChangedType ==
  ASSUME TypeOK, NEW P \in SUBSET Pages, Changed(P)
  PROVE  since' \in [Tasks -> SUBSET Pages]
BY DEF TypeOK, Changed

\* A store to a page keeps the page cache and the write-back in type.
LEMMA ModifyType ==
  ASSUME TypeOK, NEW p \in Pages, Modify(p)
  PROVE  /\ mem' \in [Pages -> Values \cup {Zero}]
         /\ wb' \in [Pages -> SUBSET (Values \cup {Zero})]
         /\ since' \in [Tasks -> SUBSET Pages]
BY ChangedType DEF TypeOK, Modify

\* Calls and failures are counted down.
LEMMA BoundType ==
  ASSUME TypeOK
  PROVE  /\ \A o : Op(o) => opsLeft' \in 0 .. MaxOps
         /\ \A x : Fails(x) => faultsLeft' \in 0 .. MaxFaults
BY FileAssumption DEF TypeOK, Op, Fails

\* The calls and steps of a task, of mappings and of the lower file system
\* keep every variable in its type.
LEMMA TypeStep == TypeOK /\ PageInFile /\ [Next]_vars => TypeOK'
<1> SUFFICES ASSUME TypeOK, PageInFile, [Next]_vars PROVE TypeOK'
  OBVIOUS
<1> USE BoundType DEF TypeOK, lower, maps, history, bounds
<1>1. ASSUME NEW t \in Tasks, TaskCall(t) PROVE TypeOK'
  <2>1. /\ pc' \in [Tasks -> PCs] /\ call' \in [Tasks -> Call]
        /\ mixed' \subseteq Tasks /\ sure' \in BOOLEAN
    <3>1. CASE WriteBegin(t)
      <4>1. PICK f \in Files, p \in Pages :
              Begin(t, [NoCall EXCEPT !.file = f, !.page = p], "w_lower")
        BY Zenon, <3>1 DEF WriteBegin
      <4>2. QED
        BY Zenon, <3>1, <4>1, CallTypes, BeginType DEF WriteBegin, SizeCallBegins, NoteOverlap, Sizing, PCs
    <3>2. CASE TruncBegin(t)
      BY Zenon, <3>2, CallTypes, BeginType DEF TruncBegin, SizeCallBegins, NoteOverlap, Sizing, PCs
    <3>3. CASE LinkBegin(t)
      BY Zenon, <3>3, CallTypes, BeginType DEF LinkBegin, NoteOverlap, Sizing, PCs
    <3>4. CASE MmapLower(t)
      BY Zenon, <3>4, CallTypes, BeginType DEF MmapLower, PCs
    <3>5. CASE FaultBegin(t)
      BY Zenon, <3>5, CallTypes, BeginType DEF FaultBegin, PCs
    <3>6. CASE FsyncBegin(t)
      BY Zenon, <3>6, CallTypes, BeginType DEF FsyncBegin, PCs
    <3>7. QED
      BY <1>1, <3>1, <3>2, <3>3, <3>4, <3>5, <3>6 DEF TaskCall
  <2>7. QED
    BY Zenon, <1>1, <2>1 DEF TaskCall, WriteBegin, TruncBegin, LinkBegin, MmapLower, FaultBegin, FsyncBegin
<1>2. ASSUME NEW t \in Tasks, TaskStep(t) PROVE TypeOK'
  <2>1. CASE WriteLower(t)
    <3>1. call[t].page \in Pages /\ pc' \in [Tasks -> PCs]
      BY Zenon, <2>1, ReturnType DEF WriteLower, PageInFile, PCs
    <3>2. /\ dirty' \subseteq Pages
          /\ mem' \in [Pages -> Values \cup {Zero}]
          /\ wb' \in [Pages -> SUBSET (Values \cup {Zero})]
          /\ since' \in [Tasks -> SUBSET Pages]
      BY Zenon, <2>1, <3>1, ModifyType DEF WriteLower
    <3>3. lsize' \in 0 .. NumPages
      BY <2>1, <3>1 DEF WriteLower, Pages
    <3>4. QED
      BY Zenon, <2>1, <3>1, <3>2, <3>3, ReturnType DEF WriteLower, NoFailure
  <2>2. CASE WriteLoad(t)
    <3>1. call' \in [Tasks -> Call]
      BY <2>2, CallUpdates DEF WriteLoad
    <3>2. pc' \in [Tasks -> PCs]
      BY Zenon, <2>2 DEF WriteLoad, Goto, PCs
    <3>3. QED
      BY <2>2, <3>1, <3>2 DEF WriteLoad
  <2>3. CASE WriteStore(t)
    <3>1. isize' \in 0 .. NumPages /\ sure' \in BOOLEAN
      BY Zenon, <2>3 DEF WriteStore, SizeCallEnds, Call
    <3>2. QED
      BY Zenon, <2>3, <3>1, ReturnType DEF WriteStore
  <2>4. CASE TruncUpper(t)
    <3>1. isize' \in 0 .. NumPages /\ pc' \in [Tasks -> PCs]
      BY Zenon, <2>4 DEF TruncUpper, Goto, Call, PCs
    <3>2. pte' \in [Vmas -> [Pages -> PTEs]]
      BY Zenon, <2>4 DEF TruncUpper, PTEs
    <3>3. since' \in [Tasks -> SUBSET Pages]
      BY Zenon, <2>4, ChangedType DEF TruncUpper
    <3>4. QED
      BY Zenon, <2>4, <3>1, <3>2, <3>3 DEF TruncUpper
  <2>5. CASE TruncLock(t)
    BY Zenon, <2>5 DEF TruncLock, Goto, PCs
  <2>6. CASE TruncLower(t)
    <3>1. lsize' \in 0 .. NumPages /\ sure' \in BOOLEAN
      BY Zenon, <2>6 DEF TruncLower, SizeCallEnds, Call
    <3>2. pte' \in [Vmas -> [Pages -> PTEs]]
      BY Zenon, <2>6 DEF TruncLower, PTEs
    <3>3. /\ mem' \in [Pages -> Values \cup {Zero}]
          /\ disk' \in [Pages -> Values \cup {Zero}]
      BY Zenon, <2>6 DEF TruncLower
    <3>4. since' \in [Tasks -> SUBSET Pages]
      BY Zenon, <2>6, ChangedType DEF TruncLower
    <3>5. QED
      BY Zenon, <2>6, <3>1, <3>2, <3>3, <3>4, ReturnType DEF TruncLower
  <2>7. CASE TruncError(t)
    BY Zenon, <2>7, ReturnType DEF TruncError
  <2>8. CASE LinkEnd(t)
    <3>1. isize' \in 0 .. NumPages
      BY <2>8 DEF LinkEnd, Call
    <3>2. QED
      BY Zenon, <2>8, <3>1, ReturnType DEF LinkEnd, NoFailure
  <2>9. CASE MmapSave(t)
    <3>1. file' \in [Files -> File]
      <4>1. \A b \in BOOLEAN : file[call[t].file].ops \/ b \in BOOLEAN
        BY Zenon
      <4>2. QED
        BY Zenon, <2>9, <4>1, FileTypes DEF MmapSave
    <3>2. vma' \in [Vmas -> Files \cup {NULL}]
      BY Zenon, <2>9 DEF MmapSave, Call
    <3>3. QED
      BY Zenon, <2>9, <3>1, <3>2, ReturnType DEF MmapSave
  <2>10. CASE MmapError(t)
    BY <2>10, ReturnType DEF MmapError
  <2>11. CASE FaultLower(t)
    <3>1. pte' \in [Vmas -> [Pages -> PTEs]]
      BY SMTT(30), <2>11 DEF FaultLower, PTEs
    <3>2. dirty' \subseteq Pages
      BY <2>11 DEF FaultLower, PageInFile
    <3>3. QED
      BY Zenon, <2>11, <3>1, <3>2, ReturnType DEF FaultLower
  <2>12. CASE FsyncWrite(t)
    <3>1. PICK p \in Pages : call' = [call EXCEPT ![t].todo = @ \ {p}]
      BY Zenon, <2>12 DEF FsyncWrite, Call
    <3>2. call' \in [Tasks -> Call]
      <4>1. call[t].todo \ {p} \in SUBSET Pages
        BY DEF Call
      <4>2. QED
        BY Zenon, <3>1, <4>1, CallUpdates
    <3>3. dirty' \subseteq Pages /\ wb' \in [Pages -> SUBSET (Values \cup {Zero})]
      BY <2>12 DEF FsyncWrite, StartIO
    <3>4. QED
      BY Zenon, <2>12, <3>2, <3>3 DEF FsyncWrite
  <2>13. CASE FsyncWait(t)
    <3>1. call' \in [Tasks -> Call]
      BY Zenon, <2>13, CallUpdates DEF FsyncWait, WritingBack
    <3>2. pc' \in [Tasks -> PCs]
      BY Zenon, <2>13 DEF FsyncWait, Goto, PCs
    <3>3. QED
      BY Zenon, <2>13, <3>1, <3>2 DEF FsyncWait
  <2>14. CASE FsyncEnd(t)
    BY <2>14, ReturnType DEF FsyncEnd
  <2>15. QED
    BY Zenon, <1>2, <2>1, <2>2, <2>3, <2>4, <2>5, <2>6, <2>7, <2>8, <2>9, <2>10, <2>11,
       <2>12, <2>13, <2>14 DEF TaskStep
<1>3. ASSUME NEW f \in Files, Open(f) \/ Close(f) PROVE TypeOK'
  <2>1. file' \in [Files -> File]
    <3>1. CASE Open(f)
      BY Zenon, <3>1, FileTypes DEF Open
    <3>2. CASE Close(f)
      BY Zenon, <3>2, FileTypes DEF Close, Release
    <3>3. QED
      BY Zenon, <1>3, <3>1, <3>2
  <2>2. QED
    BY Zenon, <1>3, <2>1 DEF Open, Close, NoFailure
<1>4. ASSUME NEW v \in Vmas, StoreNotify(v) \/ Store(v) \/ Munmap(v) PROVE TypeOK'
  <2>1. CASE StoreNotify(v)
    BY <2>1 DEF StoreNotify, PTEs
  <2>2. CASE Store(v)
    <3>1. PICK p \in Pages : Modify(p)
      BY Zenon, <2>2 DEF Store
    <3>2. QED
      BY Zenon, <2>2, <3>1, ModifyType DEF Store
  <2>3. CASE Munmap(v)
    <3>1. file' \in [Files -> File]
      <4>1. file[vma[v]].fd \in BOOLEAN
        BY <2>3 DEF Munmap, File
      <4>2. QED
        BY Zenon, <2>3, <4>1, FileTypes DEF Munmap, Release
    <3>2. pte' \in [Vmas -> [Pages -> PTEs]]
      BY Zenon, <2>3 DEF Munmap, NoPages, PTEs
    <3>3. since' \in [Tasks -> SUBSET Pages]
      BY Zenon, <2>3, ChangedType DEF Munmap
    <3>4. vma' \in [Vmas -> Files \cup {NULL}] /\ dirty' \subseteq Pages
      BY Zenon, <2>3 DEF Munmap
    <3>5. QED
      BY Zenon, <2>3, <3>1, <3>2, <3>3, <3>4 DEF Munmap
  <2>4. QED
    BY <1>4, <2>1, <2>2, <2>3
<1>5. ASSUME NEW p \in Pages, WritebackBegin(p) \/ WritebackEnd(p) PROVE TypeOK'
  <2>1. /\ dirty' \subseteq Pages
        /\ wb' \in [Pages -> SUBSET (Values \cup {Zero})]
    BY <1>5 DEF WritebackBegin, WritebackEnd, StartIO
  <2>2. disk' \in [Pages -> Values \cup {Zero}]
    BY <1>5 DEF WritebackBegin, WritebackEnd
  <2>3. QED
    BY <1>5, <2>1, <2>2 DEF WritebackBegin, WritebackEnd
<1>6. CASE Unlink
  BY Zenon, <1>6 DEF Unlink
<1>7. CASE UNCHANGED vars
  BY Zenon, <1>7 DEF vars
<1>8. QED
  BY Zenon, <1>1, <1>2, <1>3, <1>4, <1>5, <1>6, <1>7 DEF Next

\* The page of a write or fault stays one of the file.
LEMMA PageStep == TypeOK /\ PageInFile /\ [Next]_vars => PageInFile'
<1> SUFFICES ASSUME TypeOK, PageInFile, [Next]_vars,
                    NEW u \in Tasks, pc'[u] \in {"w_lower", "f_lower"}
             PROVE  call'[u].page \in Pages
  BY DEF PageInFile
<1> USE DEF TypeOK, PageInFile, lower, maps, history, bounds
<1>1. ASSUME NEW t \in Tasks, TaskCall(t) PROVE call'[u].page \in Pages
  <2>1. CASE WriteBegin(t)
    <3>1. PICK f \in Files, p \in Pages :
            Begin(t, [NoCall EXCEPT !.file = f, !.page = p], "w_lower")
      BY Zenon, <2>1 DEF WriteBegin
    <3>2. QED
      BY <3>1 DEF Begin, NoCall
  <2>2. CASE FaultBegin(t)
    <3>1. PICK v \in Vmas, p \in Pages, w \in BOOLEAN :
            Begin(t, [NoCall EXCEPT !.vma = v, !.page = p, !.write = w],
                  IF file[vma[v]].ops /\ file[vma[v]].lower THEN "f_lower" ELSE "bug")
      BY Zenon, <2>2 DEF FaultBegin
    <3>2. QED
      BY <3>1 DEF Begin, NoCall
  <2>3. CASE TruncBegin(t) \/ LinkBegin(t) \/ MmapLower(t) \/ FsyncBegin(t)
    BY Zenon, <2>3 DEF TruncBegin, LinkBegin, MmapLower, FsyncBegin, Begin
  <2>4. QED
    BY Zenon, <1>1, <2>1, <2>2, <2>3 DEF TaskCall
<1>2. ASSUME NEW t \in Tasks, TaskStep(t) PROVE call'[u].page \in Pages
  BY Zenon, <1>2 DEF TaskStep, WriteLower, WriteLoad, WriteStore, TruncUpper, TruncLock,
       TruncLower, TruncError, LinkEnd, MmapSave, MmapError, FaultLower,
       FsyncWrite, FsyncWait, FsyncEnd, Goto, Return
<1>3. CASE UNCHANGED <<pc, call>>
  BY Zenon, <1>3
<1>4. QED
  BY <1>1, <1>2, <1>3, Aside DEF Next, vars

\* The first state has its types.
LEMMA TypeInit == Init => TypeOK /\ PageInFile
BY FileAssumption, NoCallType, FileTypes
DEF Init, TypeOK, PageInFile, NoPages, PTEs, PCs

\* Every variable of the model of a file has its type in every state.
THEOREM TypeCorrect == Spec => []TypeOK
BY TypeInit, TypeStep, PageStep, PTL DEF Spec

-----------------------------------------------------------------------------
(***************************************************************************)
(* Lower files and their vm_ops.                                           *)
(***************************************************************************)
\* What the steps of a call do to the calls: they drop references to files and
\* mappings, and never get into wrapfs_mmap or to the BUG_ON.
LEMMA StepFrame ==
  ASSUME TypeOK, NEW t \in Tasks, TaskStep(t)
  PROVE  \A u \in Tasks :
           /\ call'[u].file \in {call[u].file, NULL}
           /\ call'[u].vma \in {call[u].vma, NULL}
           /\ pc'[u] = "m_save" => pc[u] = "m_save" /\ call'[u] = call[u]
           /\ pc'[u] = "bug" => pc[u] = "bug"
<1> USE DEF TypeOK
<1>1. CASE WriteLower(t)
  BY <1>1 DEF WriteLower, Return, NoCall
<1>2. CASE WriteLoad(t) \/ FsyncWrite(t) \/ FsyncWait(t)
  BY <1>2 DEF WriteLoad, FsyncWrite, FsyncWait, Goto, Call
<1>3. CASE TruncUpper(t) \/ TruncLock(t)
  BY Zenon, <1>3 DEF TruncUpper, TruncLock, Goto
<1>4. CASE Return(t)
  BY <1>4 DEF Return, NoCall
<1>5. QED
  BY Zenon, <1>1, <1>2, <1>3, <1>4
  DEF TaskStep, WriteStore, TruncLower, TruncError, LinkEnd, MmapSave, MmapError,
      FaultLower, FsyncEnd

\* No step breaks MapInv: descriptors that calls use stay open, and a file
\* keeps its lower file and vm_ops while a descriptor or mapping refers to it.
LEMMA MapStep == TypeOK /\ MapInv /\ [Next]_vars => MapInv'
<1> SUFFICES ASSUME TypeOK, MapInv, [Next]_vars PROVE MapInv'
  OBVIOUS
<1> USE FileAssumption DEF TypeOK, MapInv, LowerFilesReleased, FaultFindsLower,
                           Mapped, lower, maps, history, bounds
<1>1. ASSUME NEW t \in Tasks, TaskCall(t) PROVE MapInv'
  <2>1. CASE WriteBegin(t)
    <3>1. PICK f \in Files, p \in Pages :
            file[f].fd /\ Begin(t, [NoCall EXCEPT !.file = f, !.page = p], "w_lower")
      BY Zenon, <2>1 DEF WriteBegin
    <3>2. QED
      BY <2>1, <3>1 DEF WriteBegin, Begin, NoCall
  <2>2. CASE TruncBegin(t)
    BY <2>2 DEF TruncBegin, Begin, NoCall
  <2>3. CASE LinkBegin(t)
    BY <2>3 DEF LinkBegin, Begin, NoCall
  <2>4. CASE MmapLower(t)
    <3>1. PICK f \in Files, v \in Vmas :
            /\ file[f].fd /\ vma[v] = NULL /\ \A u \in Tasks : call[u].vma # v
            /\ Begin(t, [NoCall EXCEPT !.file = f, !.vma = v, !.saved = ~ file[f].ops],
                     "m_save")
      BY Zenon, <2>4 DEF MmapLower
    <3>2. /\ pc'[t] = "m_save" /\ call'[t].file = f /\ call'[t].vma = v
          /\ call'[t].saved \/ file[f].ops
      BY Zenon, <3>1 DEF Begin, NoCall
    <3>3. \A u \in Tasks \ {t} : pc'[u] = pc[u] /\ call'[u] = call[u]
      BY <3>1 DEF Begin
    <3>4. UNCHANGED <<file, vma>>
      BY <2>4 DEF MmapLower
    <3>5. ASSUME NEW x \in Tasks, pc'[x] = "m_save"
          PROVE  /\ call'[x].file # NULL /\ call'[x].vma # NULL
                 /\ vma'[call'[x].vma] = NULL
                 /\ \A u \in Tasks \ {x} : call'[u].vma # call'[x].vma
                 /\ call'[x].saved \/ file'[call'[x].file].ops
      <4>1. CASE x = t
        BY <3>1, <3>2, <3>3, <3>4, <4>1
      <4>2. CASE x # t
        <5>1. pc[x] = "m_save" /\ call'[x] = call[x]
          BY Zenon, <3>3, <3>5, <4>2
        <5>2. call[x].vma # v
          BY Zenon, <3>1
        <5>3. \A u \in Tasks \ {x} : call'[u].vma # call'[x].vma
          BY <3>2, <3>3, <5>1, <5>2
        <5>4. QED
          BY Zenon, <3>4, <5>1, <5>3
      <4>3. QED
        BY Zenon, <4>1, <4>2
    <3>6. /\ \A x \in Tasks : call'[x].file # NULL => file'[call'[x].file].fd
          /\ \A x \in Tasks : pc'[x] # "bug"
      BY <3>1, <3>2, <3>3, <3>4
    <3>7. QED
      BY Zenon, <3>4, <3>5, <3>6
  <2>5. CASE FaultBegin(t)
    BY <2>5 DEF FaultBegin, Begin, NoCall
  <2>6. CASE FsyncBegin(t)
    BY <2>6 DEF FsyncBegin, Begin, NoCall
  <2>7. QED
    BY Zenon, <1>1, <2>1, <2>2, <2>3, <2>4, <2>5, <2>6 DEF TaskCall
<1>2. ASSUME NEW t \in Tasks, TaskStep(t) PROVE MapInv'
  <2>1. CASE MmapSave(t)
    BY <2>1 DEF MmapSave, Return, NoCall, Call, File
  <2>2. CASE UNCHANGED <<file, vma>>
    <3>1. ASSUME NEW x \in Tasks, pc'[x] = "m_save"
          PROVE  /\ call'[x].file # NULL /\ call'[x].vma # NULL
                 /\ vma'[call'[x].vma] = NULL
                 /\ \A u \in Tasks \ {x} : call'[u].vma # call'[x].vma
                 /\ call'[x].saved \/ file'[call'[x].file].ops
      <4>1. pc[x] = "m_save" /\ call'[x] = call[x]
        BY Zenon, <1>2, <3>1, StepFrame
      <4>2. \A u \in Tasks : call'[u].vma \in {call[u].vma, NULL}
        BY Zenon, <1>2, StepFrame
      <4>3. QED
        BY <2>2, <4>1, <4>2
    <3>2. /\ \A x \in Tasks : call'[x].file # NULL => file'[call'[x].file].fd
          /\ \A x \in Tasks : pc'[x] # "bug"
      BY <1>2, <2>2, StepFrame
    <3>3. QED
      BY Zenon, <2>2, <3>1, <3>2
  <2>3. QED
    BY Zenon, <1>2, <2>1, <2>2
    DEF TaskStep, WriteLower, WriteLoad, WriteStore, TruncUpper, TruncLock,
        TruncLower, TruncError, LinkEnd, MmapError, FaultLower, FsyncWrite,
        FsyncWait, FsyncEnd
<1>3. ASSUME NEW f \in Files, Open(f) \/ Close(f) PROVE MapInv'
  <2>1. CASE Open(f)
    <3>1. ~ file[f].lower /\ ~ file[f].fd /\ ~ Mapped(f)
      BY Zenon, <2>1 DEF Open
    <3>2. CASE UNCHANGED file
      BY Zenon, <2>1, <3>2 DEF Open
    <3>3. CASE file' = [file EXCEPT ![f] = [open |-> TRUE, fd |-> TRUE,
                                            lower |-> TRUE, ops |-> FALSE]]
      <4>1. UNCHANGED <<vma, pc, call>>
        BY Zenon, <2>1 DEF Open
      <4>2. QED
        BY <3>1, <3>3, <4>1
    <3>4. QED
      BY Zenon, <2>1, <3>2, <3>3 DEF Open
  <2>2. CASE Close(f)
    BY <2>2 DEF Close, Release, Closed, InUse
  <2>3. QED
    BY Zenon, <1>3, <2>1, <2>2
<1>4. ASSUME NEW v \in Vmas, Munmap(v) PROVE MapInv'
  BY <1>4 DEF Munmap, Release, Closed
<1>5. CASE UNCHANGED <<file, vma, pc, call>>
  BY Zenon, <1>5
<1>6. QED
  BY Zenon, <1>1, <1>2, <1>3, <1>4, <1>5
  DEF Next, StoreNotify, Store, WritebackBegin, WritebackEnd, Unlink, vars

\* The invariant about mappings and descriptors holds in every state.
LEMMA MapInvariant == Spec => []MapInv
<1>1. Init => MapInv
  BY FileAssumption DEF Init, MapInv, Closed, NoCall, LowerFilesReleased, Mapped,
                        FaultFindsLower
<1>2. QED
  BY <1>1, MapStep, TypeCorrect, PTL DEF Spec

\* wrapfs_fault never hits BUG_ON(!lower_vm_ops) and finds the lower file,
\* for any number of files, mappings and racing mmaps.
THEOREM FaultsFindLower == Spec => []FaultFindsLower
<1>1. MapInv => FaultFindsLower
  BY Zenon DEF MapInv
<1>2. QED
  BY <1>1, MapInvariant, PTL

\* wrapfs_file_release puts the lower file exactly when the last descriptor
\* and the last mapping are gone.
THEOREM LowerFilesAreReleased == Spec => []LowerFilesReleased
<1>1. MapInv => LowerFilesReleased
  BY Zenon DEF MapInv
<1>2. QED
  BY <1>1, MapInvariant, PTL

-----------------------------------------------------------------------------
(***************************************************************************)
(* The size of the upper inode.                                            *)
(***************************************************************************)
\* A call that sets the size begins: if others are under way, all are mixed.
LEMMA SizeBegins ==
  ASSUME TypeOK, SizeInv, NEW t \in Tasks, NEW c, NEW to \in {"w_lower", "t_upper", "n_make"},
         Begin(t, c, to), NoteOverlap(t), UNCHANGED <<isize, lsize>>,
         \/ sure' = FALSE
         \/ to = "n_make" /\ c.size = isize /\ UNCHANGED sure
  PROVE  SizeInv'
<1> USE DEF TypeOK, SizeInv, SizeRepaired
<1>1. /\ t \notin Sizing /\ Sizing' = Sizing \cup {t}
      /\ pc'[t] = to /\ call'[t] = c
      /\ \A u \in Sizing : pc'[u] = pc[u] /\ call'[u] = call[u]
  BY Zenon DEF Begin, Sizing, SizePcs
<1>2. mixed' = IF Sizing = {} THEN mixed ELSE mixed \cup Sizing \cup {t}
  BY DEF NoteOverlap
<1>3. mixed' \subseteq Sizing' /\ \A x, u \in Sizing' : x # u => x \in mixed'
  BY Zenon, <1>1, <1>2
<1>4. sure' => isize' = lsize' /\ \A u \in Sizing' : pc'[u] = "n_make" /\ call'[u].size = isize'
  BY Zenon, <1>1
<1>5. \A u \in Sizing' \ mixed' :
        /\ pc'[u] = "w_store" => call'[u].size = lsize'
        /\ pc'[u] \in {"t_lock", "t_lower"} => call'[u].size = isize'
  BY Zenon, <1>1, <1>2
<1>6. QED
  BY Zenon, <1>3, <1>4, <1>5

\* A call that sets the size returns.
LEMMA SizeReturns ==
  ASSUME TypeOK, SizeInv, NEW t \in Sizing, Return(t),
         \/ UNCHANGED <<isize, lsize, sure>>
         \/ pc[t] = "n_make" /\ isize' = call[t].size /\ UNCHANGED <<lsize, sure>>
         \/ sure' = (t \notin mixed) /\ (t \notin mixed => isize' = lsize')
  PROVE  SizeInv'
<1> USE DEF TypeOK, SizeInv, SizeRepaired
<1>1. /\ Sizing' = Sizing \ {t} /\ mixed' = mixed \ {t}
      /\ \A u \in Sizing' : pc'[u] = pc[u] /\ call'[u] = call[u]
  BY DEF Return, Sizing, SizePcs
<1>2. mixed' \subseteq Sizing' /\ \A x, u \in Sizing' : x # u => x \in mixed'
  BY Zenon, <1>1
<1>3. \A u \in Sizing' : t \in mixed /\ u \in mixed'
  BY Zenon, <1>1
<1>4. sure' => isize' = lsize'
  BY Zenon
<1>5. sure' => \A u \in Sizing' : pc'[u] = "n_make" /\ call'[u].size = isize'
  BY Zenon, <1>1, <1>3
<1>6. QED
  BY Zenon, <1>2, <1>3, <1>4, <1>5

\* A write or truncate goes on: the size is not sure, and others are mixed.
LEMMA SizeGoesOn ==
  ASSUME TypeOK, SizeInv, NEW t \in Sizing, NEW to \in SizePcs, Goto(t, pc[t], to),
         pc[t] # "n_make", to # "n_make",
         UNCHANGED <<mixed, sure>>,
         \A u \in Tasks \ {t} : call'[u] = call[u],
         to = "w_store" => call'[t].size = lsize',
         to \in {"t_lock", "t_lower"} /\ t \notin mixed => call'[t].size = isize'
  PROVE  SizeInv'
<1> USE DEF TypeOK, SizeInv, SizeRepaired
<1>1. /\ Sizing' = Sizing /\ pc'[t] = to
      /\ \A u \in Sizing \ {t} : pc'[u] = pc[u] /\ call'[u] = call[u]
  BY DEF Goto, Sizing
<1>2. ~ sure
  BY Zenon
<1>3. \A u \in Sizing \ {t} : u \in mixed
  BY Zenon
<1>4. QED
  BY <1>1, <1>2, <1>3

\* Steps of other calls leave the sizes, and the calls that set them, alone.
LEMMA SizeAside ==
  ASSUME TypeOK, SizeInv, UNCHANGED <<isize, lsize, sure>>,
         \/ UNCHANGED <<pc, call, mixed>>
         \/ \E t \in Tasks \ Sizing :
              /\ \/ UNCHANGED mixed
                 \/ mixed' = mixed \ {t}
              /\ pc'[t] \notin SizePcs
              /\ \A u \in Tasks \ {t} : pc'[u] = pc[u] /\ call'[u] = call[u]
  PROVE  SizeInv'
<1> USE DEF TypeOK, SizeInv, SizeRepaired
<1>1. /\ Sizing' = Sizing /\ mixed' = mixed
      /\ \A u \in Sizing : pc'[u] = pc[u] /\ call'[u] = call[u]
  BY Zenon DEF Sizing
<1>2. QED
  BY Zenon, <1>1

\* No step breaks SizeInv.
LEMMA SizeStep == TypeOK /\ SizeInv /\ [Next]_vars => SizeInv'
<1> SUFFICES ASSUME TypeOK, SizeInv, [Next]_vars PROVE SizeInv'
  OBVIOUS
<1> USE DEF lower, maps, history, bounds
<1>1. ASSUME NEW t \in Tasks, TaskCall(t) PROVE SizeInv'
  <2>1. CASE WriteBegin(t)
    BY Zenon, <2>1, SizeBegins DEF WriteBegin, SizeCallBegins
  <2>2. CASE TruncBegin(t)
    BY Zenon, <2>2, SizeBegins DEF TruncBegin, SizeCallBegins
  <2>3. CASE LinkBegin(t)
    <3>1. [NoCall EXCEPT !.size = isize].size = isize
      BY DEF NoCall
    <3>2. QED
      BY Zenon, <2>3, <3>1, SizeBegins DEF LinkBegin
  <2>4. CASE MmapLower(t) \/ FaultBegin(t) \/ FsyncBegin(t)
    <3>1. /\ t \notin Sizing /\ pc'[t] \notin SizePcs
          /\ \A u \in Tasks \ {t} : pc'[u] = pc[u] /\ call'[u] = call[u]
      BY Zenon, <2>4 DEF TypeOK, MmapLower, FaultBegin, FsyncBegin, Begin, Sizing, SizePcs
    <3>2. UNCHANGED <<isize, lsize, sure, mixed>>
      BY Zenon, <2>4 DEF MmapLower, FaultBegin, FsyncBegin
    <3>3. QED
      BY Zenon, <3>1, <3>2, SizeAside
  <2>5. QED
    BY Zenon, <1>1, <2>1, <2>2, <2>3, <2>4 DEF TaskCall
<1>2. ASSUME NEW t \in Tasks, TaskStep(t) PROVE SizeInv'
  <2>1. CASE WriteLower(t)
    <3>1. t \in Sizing
      BY Zenon, <2>1 DEF WriteLower, Sizing, SizePcs
    <3>2. CASE Return(t) /\ UNCHANGED lsize
      BY Zenon, <2>1, <3>1, <3>2, SizeReturns DEF WriteLower
    <3>3. CASE pc' = [pc EXCEPT ![t] = "w_load"] /\ UNCHANGED <<call, mixed>>
      BY Zenon, <2>1, <3>1, <3>3, SizeGoesOn DEF WriteLower, Goto, SizePcs
    <3>4. QED
      BY Zenon, <2>1, <3>2, <3>3 DEF WriteLower
  <2>2. CASE WriteLoad(t)
    <3>1. t \in Sizing
      BY <2>2 DEF WriteLoad, Goto, Sizing, SizePcs
    <3>2. /\ call'[t].size = lsize' /\ \A u \in Tasks \ {t} : call'[u] = call[u]
      BY <2>2 DEF WriteLoad, TypeOK, Call
    <3>3. QED
      BY Zenon, <2>2, <3>1, <3>2, SizeGoesOn DEF WriteLoad, Goto, SizePcs
  <2>3. CASE WriteStore(t)
    <3>1. t \in Sizing /\ (t \notin mixed => isize' = lsize')
      BY Zenon, <2>3 DEF WriteStore, Sizing, SizePcs, SizeInv
    <3>2. QED
      BY Zenon, <2>3, <3>1, SizeReturns DEF WriteStore, SizeCallEnds
  <2>4. CASE TruncUpper(t)
    <3>1. t \in Sizing
      BY <2>4 DEF TruncUpper, Goto, Sizing, SizePcs
    <3>2. QED
      BY Zenon, <2>4, <3>1, SizeGoesOn DEF TruncUpper, Goto, SizePcs
  <2>5. CASE TruncLock(t)
    <3>1. t \in Sizing /\ (t \notin mixed => call[t].size = isize)
      BY Zenon, <2>5 DEF TruncLock, Goto, Sizing, SizePcs, SizeInv
    <3>2. QED
      BY Zenon, <2>5, <3>1, SizeGoesOn DEF TruncLock, Goto, SizePcs
  <2>6. CASE TruncLower(t)
    <3>1. t \in Sizing /\ (t \notin mixed => isize' = lsize')
      BY Zenon, <2>6 DEF TruncLower, Sizing, SizePcs, SizeInv
    <3>2. QED
      BY <2>6, <3>1, SizeReturns DEF TruncLower, SizeCallEnds
  <2>7. CASE TruncError(t)
    <3>1. t \in Sizing
      BY <2>7 DEF TruncError, Sizing, SizePcs
    <3>2. QED
      BY Zenon, <2>7, <3>1, SizeReturns DEF TruncError
  <2>8. CASE LinkEnd(t)
    <3>1. t \in Sizing
      BY Zenon, <2>8 DEF LinkEnd, Sizing, SizePcs
    <3>2. QED
      BY Zenon, <2>8, <3>1, SizeReturns DEF LinkEnd
  <2>9. CASE MmapSave(t) \/ MmapError(t) \/ FaultLower(t) \/ FsyncEnd(t)
    <3>1. /\ t \notin Sizing /\ pc'[t] \notin SizePcs /\ mixed' = mixed \ {t}
          /\ \A u \in Tasks \ {t} : pc'[u] = pc[u] /\ call'[u] = call[u]
      BY Zenon, <2>9 DEF TypeOK, MmapSave, MmapError, FaultLower, FsyncEnd, Return, Sizing, SizePcs
    <3>2. UNCHANGED <<isize, lsize, sure>>
      BY <2>9 DEF MmapSave, MmapError, FaultLower, FsyncEnd
    <3>3. QED
      BY Zenon, <3>1, <3>2, SizeAside
  <2>10. CASE FsyncWrite(t) \/ FsyncWait(t)
    <3>1. /\ t \notin Sizing /\ pc'[t] \notin SizePcs
          /\ \A u \in Tasks \ {t} : pc'[u] = pc[u] /\ call'[u] = call[u]
      BY <2>10 DEF TypeOK, FsyncWrite, FsyncWait, Goto, Sizing, SizePcs
    <3>2. UNCHANGED <<isize, lsize, sure, mixed>>
      BY Zenon, <2>10 DEF FsyncWrite, FsyncWait
    <3>3. QED
      BY <3>1, <3>2, SizeAside
  <2>11. QED
    BY Zenon, <1>2, <2>1, <2>2, <2>3, <2>4, <2>5, <2>6, <2>7, <2>8, <2>9, <2>10 DEF TaskStep
<1>3. CASE UNCHANGED <<pc, call, isize, lsize, mixed, sure>>
  BY <1>3, SizeAside
<1>4. QED
  BY Zenon, <1>1, <1>2, <1>3, Aside DEF Next, vars

\* After a write or truncate that succeeds and meets no other call that sets
\* the size, the upper inode has the size of the lower one, whatever writes,
\* truncations and links came before.
THEOREM SizeIsRepaired == Spec => []SizeRepaired
<1>1. Init => SizeInv
  BY Zenon DEF Init, SizeInv, Sizing, SizePcs, SizeRepaired
<1>2. SizeInv => SizeRepaired
  BY Zenon DEF SizeInv
<1>3. QED
  BY <1>1, <1>2, SizeStep, TypeCorrect, PTL DEF Spec

-----------------------------------------------------------------------------
(***************************************************************************)
(* fsync.                                                                  *)
(***************************************************************************)
\* A step that leaves a page and its dirty bits, or is noted by every fsync
\* under way, keeps SyncInv.
LEMMA SyncNoted ==
  ASSUME TypeOK, SyncInv,
         \A p \in Pages :
           \/ /\ mem'[p] = mem[p] /\ disk'[p] = disk[p] /\ wb'[p] = wb[p]
              /\ p \in dirty => p \in dirty'
              /\ DirtyEntry(p) => DirtyEntry(p)'
           \/ /\ p \in dirty' \/ DirtyEntry(p)' \/ Settled(p)'
              /\ \A t \in Syncing : p \in since'[t],
         \A t \in Syncing \cap Syncing' : since[t] \subseteq since'[t],
         \A t \in Syncing' :
           \/ t \in Syncing /\ pc'[t] = pc[t] /\ call'[t].todo = call[t].todo
           \/ pc'[t] = "s_write" /\ call'[t].todo = Pages
  PROVE  SyncInv'
<1>1. ASSUME NEW p \in Pages PROVE p \in dirty' \/ DirtyEntry(p)' \/ Settled(p)'
  <2>1. CASE mem'[p] = mem[p] /\ disk'[p] = disk[p] /\ wb'[p] = wb[p]
    <3>1. Settled(p) => Settled(p)'
      BY Zenon, <2>1 DEF Settled
    <3>2. QED
      BY <1>1, <3>1 DEF SyncInv
  <2>2. QED
    BY Zenon, <1>1, <2>1
<1>2. ASSUME NEW t \in Tasks, NEW p \in Pages, p \notin since'[t]
      PROVE  Passed(t, p)'
  <2>1. CASE t \notin Syncing' \/ (pc'[t] = "s_write" /\ call'[t].todo = Pages)
    BY Zenon, <2>1 DEF Passed, Syncing
  <2>2. CASE t \in Syncing /\ pc'[t] = pc[t] /\ call'[t].todo = call[t].todo
    <3>1. /\ mem'[p] = mem[p] /\ disk'[p] = disk[p] /\ wb'[p] = wb[p]
          /\ DirtyEntry(p) => DirtyEntry(p)'
      BY Zenon, <1>2, <2>2
    <3>2. Passed(t, p)
      <4>1. t \in Syncing'
        BY Zenon, <2>2 DEF Syncing
      <4>2. QED
        BY Zenon, <1>2, <2>2, <4>1 DEF SyncInv
    <3>3. Settled(p) => Settled(p)'
      BY Zenon, <3>1 DEF Settled
    <3>4. QED
      BY Zenon, <2>2, <3>1, <3>2, <3>3 DEF Passed
  <2>3. QED
    BY <2>1, <2>2
<1>3. QED
  BY Zenon, <1>1, <1>2 DEF SyncInv

\* A store to a page that is, or becomes, dirty.
LEMMA SyncModify ==
  ASSUME TypeOK, SyncInv, NEW p \in Pages, Modify(p), UNCHANGED <<disk, pte>>,
         dirty \subseteq dirty', p \in dirty' \/ DirtyEntry(p),
         \A t \in Syncing' : /\ t \in Syncing /\ pc'[t] = pc[t]
                             /\ call'[t].todo = call[t].todo
  PROVE  SyncInv'
<1>1. /\ \A t \in Syncing : since'[t] = since[t] \cup {p}
      /\ \A q \in Pages \ {p} : mem'[q] = mem[q] /\ wb'[q] = wb[q]
  BY Zenon DEF TypeOK, Modify, Changed, Syncing
<1>2. \A q \in Pages : DirtyEntry(q) => DirtyEntry(q)'
  BY DEF DirtyEntry
<1>3. QED
  BY <1>1, <1>2, SyncNoted

\* Steps that neither touch the lower pages nor the page tables.
LEMMA SyncFrame ==
  ASSUME TypeOK, SyncInv, UNCHANGED <<mem, disk, wb, dirty, pte>>,
         \A t \in Syncing' :
           \/ /\ t \in Syncing /\ pc'[t] = pc[t]
              /\ call'[t].todo = call[t].todo /\ since'[t] = since[t]
           \/ t \notin Syncing /\ pc'[t] = "s_write" /\ call'[t].todo = Pages
  PROVE  SyncInv'
<1>1. \A p \in Pages : DirtyEntry(p) => DirtyEntry(p)'
  BY DEF DirtyEntry
<1>2. QED
  BY Zenon, <1>1, SyncNoted

\* The steps of fsync and of the flusher on a page.
LEMMA SyncWrite ==
  ASSUME TypeOK, SyncInv, NEW p \in Pages, p \notin WritingBack,
         \/ p \in dirty /\ StartIO(p)
         \/ p \notin dirty /\ UNCHANGED <<dirty, wb>>,
         UNCHANGED <<mem, disk, pte, pc, since>>,
         \A t \in Syncing : call'[t].todo \in {call[t].todo, call[t].todo \ {p}}
                            /\ (pc[t] = "s_wait" => call'[t].todo = call[t].todo)
  PROVE  SyncInv'
<1>1. /\ \A q \in Pages \ {p} : wb'[q] = wb[q] /\ (q \in dirty' <=> q \in dirty)
      /\ p \notin dirty' /\ wb[p] = {} /\ wb'[p] \subseteq {mem[p]}
  BY Zenon DEF StartIO, TypeOK, WritingBack
<1>2. \A q \in Pages : DirtyEntry(q)' <=> DirtyEntry(q)
  BY Zenon DEF DirtyEntry
<1>3. \A q \in Pages : Settled(q) => Settled(q)'
  BY Zenon, <1>1 DEF Settled
<1>4. DirtyEntry(p)' \/ Settled(p)'
  <2>1. CASE p \in dirty /\ StartIO(p)
    BY Zenon, <2>1 DEF StartIO, Settled, TypeOK
  <2>2. CASE p \notin dirty
    BY Zenon, <1>2, <1>3, <2>2 DEF SyncInv
  <2>3. QED
    BY <2>1, <2>2
<1>5. ASSUME NEW t \in Tasks, NEW q \in Pages, q \notin since'[t]
      PROVE  Passed(t, q)'
  <2>1. Passed(t, q) /\ pc'[t] = pc[t]
    BY Zenon, <1>5 DEF SyncInv
  <2>2. CASE pc[t] = "s_write"
    <3>1. q = p \/ (q \notin call'[t].todo => q \notin call[t].todo)
      BY Zenon, <2>2 DEF Syncing
    <3>2. QED
      BY Zenon, <1>2, <1>3, <1>4, <2>1, <2>2, <3>1 DEF Passed
  <2>3. CASE pc[t] = "s_wait"
    <3>1. call'[t].todo = call[t].todo
      BY <2>3 DEF Syncing
    <3>2. QED
      BY Zenon, <1>2, <1>3, <2>1, <2>3, <3>1 DEF Passed
  <2>4. QED
    BY <2>1, <2>2, <2>3 DEF Passed
<1>6. ASSUME NEW q \in Pages PROVE q \in dirty' \/ DirtyEntry(q)' \/ Settled(q)'
  BY Zenon, <1>1, <1>2, <1>3, <1>4 DEF SyncInv
<1>7. QED
  BY Zenon, <1>5, <1>6 DEF SyncInv

\* A write-back ends: the page was settled only if it wrote the present
\* contents.
LEMMA SyncIOEnd ==
  ASSUME TypeOK, SyncInv, NEW p \in Pages, WritebackEnd(p)
  PROVE  SyncInv'
<1>1. PICK x \in wb[p] : disk' = [disk EXCEPT ![p] = x]
  BY Zenon DEF WritebackEnd
<1>2. UNCHANGED <<mem, dirty, pte, pc, call, since>> /\ wb' = [wb EXCEPT ![p] = {}]
  BY Zenon DEF WritebackEnd, maps, history, bounds
<1>3. \A q \in Pages : DirtyEntry(q)' <=> DirtyEntry(q)
  BY <1>2 DEF DirtyEntry
<1>4. \A q \in Pages : Settled(q) => Settled(q)' /\ (disk[q] = mem[q] => disk'[q] = mem'[q])
  BY <1>1, <1>2 DEF TypeOK, Settled
<1>5. ASSUME NEW t \in Tasks, NEW q \in Pages, q \notin since'[t]
      PROVE  Passed(t, q)'
  <2>1. Passed(t, q)
    BY Zenon, <1>2, <1>5 DEF SyncInv
  <2>2. QED
    BY Zenon, <1>2, <1>3, <1>4, <2>1 DEF Passed
<1>6. ASSUME NEW q \in Pages PROVE q \in dirty' \/ DirtyEntry(q)' \/ Settled(q)'
  BY Zenon, <1>2, <1>3, <1>4 DEF SyncInv
<1>7. QED
  BY Zenon, <1>5, <1>6 DEF SyncInv

\* fsync has passed all pages and waits for those under write-back.
LEMMA SyncWait ==
  ASSUME TypeOK, SyncInv, NEW t \in Tasks, FsyncWait(t)
  PROVE  SyncInv'
<1>1. /\ UNCHANGED <<mem, disk, dirty, wb, pte, since>>
      /\ pc[t] = "s_write" /\ pc'[t] = "s_wait" /\ call[t].todo = {}
      /\ \A u \in Tasks \ {t} : pc'[u] = pc[u] /\ call'[u] = call[u]
  BY DEF FsyncWait, Goto, TypeOK, lower, maps, history, bounds
<1>2. call'[t].todo = WritingBack
  BY Zenon DEF FsyncWait, TypeOK, Call
<1>3. \A q \in Pages : (DirtyEntry(q)' <=> DirtyEntry(q)) /\ (Settled(q)' <=> Settled(q))
  BY <1>1 DEF DirtyEntry, Settled
<1>4. ASSUME NEW u \in Tasks, NEW q \in Pages, q \notin since'[u]
      PROVE  Passed(u, q)'
  <2>1. Passed(u, q)
    BY Zenon, <1>1, <1>4 DEF SyncInv
  <2>2. CASE u = t
    <3>1. DirtyEntry(q) \/ Settled(q)
      BY Zenon, <1>1, <2>1, <2>2 DEF Passed
    <3>2. Settled(q) /\ q \notin WritingBack => disk[q] = mem[q]
      BY Zenon DEF Settled, WritingBack
    <3>3. QED
      BY <1>1, <1>2, <1>3, <2>2, <3>1, <3>2 DEF Passed
  <2>3. CASE u # t
    BY Zenon, <1>1, <1>3, <2>1, <2>3 DEF Passed
  <2>4. QED
    BY Zenon, <2>2, <2>3
<1>5. QED
  BY <1>1, <1>3, <1>4 DEF SyncInv

\* No step breaks SyncInv.
LEMMA SyncStep == TypeOK /\ PageInFile /\ SyncInv /\ [Next]_vars => SyncInv'
<1> SUFFICES ASSUME TypeOK, PageInFile, SyncInv, [Next]_vars PROVE SyncInv'
  OBVIOUS
<1> USE DEF lower, maps, history, bounds
<1>1. ASSUME NEW t \in Tasks, TaskCall(t) PROVE SyncInv'
  <2>1. UNCHANGED <<mem, disk, wb, dirty, pte, since>>
    BY Zenon, <1>1 DEF TaskCall, WriteBegin, TruncBegin, LinkBegin, MmapLower, FaultBegin,
                FsyncBegin
  <2>2. \A u \in Tasks \ {t} : pc'[u] = pc[u] /\ call'[u] = call[u]
    BY Zenon, <1>1 DEF TaskCall, WriteBegin, TruncBegin, LinkBegin, MmapLower, FaultBegin,
                FsyncBegin, Begin, TypeOK
  <2>3. pc[t] = "idle" /\ (t \in Syncing' => pc'[t] = "s_write" /\ call'[t].todo = Pages)
    <3>1. CASE FsyncBegin(t)
      BY <3>1 DEF FsyncBegin, Begin, TypeOK, Call, NoCall
    <3>2. CASE WriteBegin(t) \/ TruncBegin(t) \/ LinkBegin(t)
      BY Zenon, <3>2 DEF WriteBegin, TruncBegin, LinkBegin, Begin, TypeOK, Syncing
    <3>3. CASE MmapLower(t) \/ FaultBegin(t)
      BY Zenon, <3>3 DEF MmapLower, FaultBegin, Begin, TypeOK, Syncing
    <3>4. QED
      BY Zenon, <1>1, <3>1, <3>2, <3>3 DEF TaskCall
  <2>4. QED
    BY Zenon, <2>1, <2>2, <2>3, SyncFrame DEF Syncing
<1>2. ASSUME NEW t \in Tasks, TaskStep(t) PROVE SyncInv'
  <2>1. CASE WriteLower(t)
    <3>1. CASE Return(t) /\ UNCHANGED <<mem, dirty, wb, since>>
      <4>1. \A u \in Syncing' : u \in Syncing /\ pc'[u] = pc[u] /\ call'[u] = call[u]
        BY Zenon, <3>1 DEF Return, TypeOK, Syncing
      <4>2. QED
        BY Zenon, <2>1, <3>1, <4>1, SyncFrame DEF WriteLower
    <3>2. CASE Modify(call[t].page) /\ dirty' = dirty \cup {call[t].page}
      <4>1. call[t].page \in Pages
        BY Zenon, <2>1 DEF WriteLower, PageInFile
      <4>2. \A u \in Syncing' : /\ u \in Syncing /\ pc'[u] = pc[u]
                                /\ call'[u].todo = call[u].todo
        BY <2>1 DEF WriteLower, Return, TypeOK, Syncing
      <4>3. QED
        BY Zenon, <2>1, <3>2, <4>1, <4>2, SyncModify DEF WriteLower
    <3>3. QED
      BY Zenon, <2>1, <3>1, <3>2 DEF WriteLower
  <2>2. CASE \/ WriteLoad(t) \/ WriteStore(t) \/ TruncLock(t) \/ TruncError(t)
             \/ LinkEnd(t) \/ MmapSave(t) \/ MmapError(t) \/ FsyncEnd(t)
    <3>1. UNCHANGED <<mem, disk, wb, dirty, pte>>
      BY Zenon, <2>2 DEF WriteLoad, WriteStore, TruncLock, TruncError, LinkEnd, MmapSave,
                  MmapError, FsyncEnd
    <3>2. /\ t \notin Syncing'
          /\ \A u \in Tasks \ {t} : pc'[u] = pc[u] /\ call'[u] = call[u]
      BY Zenon, <2>2 DEF WriteLoad, WriteStore, TruncLock, TruncError, LinkEnd, MmapSave,
                  MmapError, FsyncEnd, Goto, Return, TypeOK, Syncing
    <3>3. \A u \in Tasks \ {t} : since'[u] = since[u]
      BY Zenon, <2>2 DEF WriteLoad, WriteStore, TruncLock, TruncError, LinkEnd, MmapSave,
                  MmapError, FsyncEnd, TypeOK
    <3>4. QED
      BY Zenon, <3>1, <3>2, <3>3, SyncFrame DEF Syncing
  <2>3. CASE TruncUpper(t)
    <3>1. /\ UNCHANGED <<mem, disk, wb>> /\ dirty \subseteq dirty'
          /\ \A u \in Syncing' : u \in Syncing /\ pc'[u] = pc[u] /\ call'[u] = call[u]
      BY Zenon, <2>3 DEF TruncUpper, Goto, TypeOK, Syncing
    <3>2. \A u \in Syncing : since[u] \subseteq since'[u]
      BY Zenon, <2>3 DEF TruncUpper, Changed, TypeOK, Syncing
    <3>3. ASSUME NEW p \in Pages, DirtyEntry(p)
          PROVE  DirtyEntry(p)' \/ (p \in dirty' /\ \A u \in Syncing : p \in since'[u])
      <4>1. CASE p > call[t].size
        BY <2>3, <3>3, <4>1 DEF TruncUpper, Changed, TypeOK, Syncing, DirtyEntry
      <4>2. CASE ~ (p > call[t].size)
        BY Zenon, <2>3, <3>3, <4>2 DEF TruncUpper, TypeOK, DirtyEntry
      <4>3. QED
        BY Zenon, <4>1, <4>2
    <3>4. QED
      BY Zenon, <3>1, <3>2, <3>3, SyncNoted
  <2>4. CASE TruncLower(t)
    <3>1. \A u \in Syncing' : u \in Syncing /\ pc'[u] = pc[u] /\ call'[u] = call[u]
      BY Zenon, <2>4 DEF TruncLower, Return, TypeOK, Syncing
    <3>2. \A u \in Syncing : since[u] \subseteq since'[u]
      BY Zenon, <2>4 DEF TruncLower, Changed, TypeOK, Syncing
    <3>3. ASSUME NEW p \in Pages, p > call[t].size
          PROVE  Settled(p)' /\ \A u \in Syncing : p \in since'[u]
      <4>1. wb'[p] = {} /\ mem'[p] = Zero /\ disk'[p] = Zero
        BY Zenon, <2>4, <3>3 DEF TruncLower, WritingBack
      <4>2. \A u \in Syncing : p \in since'[u]
        BY Zenon, <2>4, <3>3 DEF TruncLower, Changed, Syncing
      <4>3. QED
        BY Zenon, <4>1, <4>2 DEF Settled
    <3>4. ASSUME NEW p \in Pages, ~ (p > call[t].size)
          PROVE  /\ mem'[p] = mem[p] /\ disk'[p] = disk[p] /\ wb'[p] = wb[p]
                 /\ p \in dirty => p \in dirty'
                 /\ DirtyEntry(p) => DirtyEntry(p)'
      BY <2>4, <3>4 DEF TruncLower, TypeOK, DirtyEntry
    <3>5. QED
      BY Zenon, <3>1, <3>2, <3>3, <3>4, SyncNoted
  <2>5. CASE FaultLower(t)
    <3>1. /\ UNCHANGED <<mem, disk, wb, since>> /\ dirty \subseteq dirty'
          /\ \A u \in Syncing' : u \in Syncing /\ pc'[u] = pc[u] /\ call'[u] = call[u]
      BY Zenon, <2>5 DEF FaultLower, Return, TypeOK, Syncing
    <3>2. \A p \in Pages : DirtyEntry(p) => DirtyEntry(p)'
      BY <2>5 DEF FaultLower, TypeOK, DirtyEntry
    <3>3. QED
      BY Zenon, <3>1, <3>2, SyncNoted
  <2>6. CASE FsyncWrite(t)
    <3>1. PICK p \in call[t].todo \ WritingBack :
            /\ IF p \in dirty THEN StartIO(p) ELSE UNCHANGED <<dirty, wb>>
            /\ call' = [call EXCEPT ![t].todo = @ \ {p}]
      BY Zenon, <2>6 DEF FsyncWrite
    <3>2. p \in Pages /\ pc[t] = "s_write" /\ UNCHANGED <<mem, disk, pte, pc, since>>
      BY Zenon, <2>6, <3>1 DEF FsyncWrite, TypeOK, Call
    <3>3. \A u \in Tasks : call'[u].todo = IF u = t THEN call[u].todo \ {p} ELSE call[u].todo
      BY Zenon, <3>1 DEF TypeOK, Call
    <3>4. QED
      BY <3>1, <3>2, <3>3, SyncWrite DEF Syncing
  <2>7. CASE FsyncWait(t)
    BY Zenon, <2>7, SyncWait
  <2>8. QED
    BY Zenon, <1>2, <2>1, <2>2, <2>3, <2>4, <2>5, <2>6, <2>7 DEF TaskStep
<1>3. ASSUME NEW v \in Vmas, StoreNotify(v) PROVE SyncInv'
  <2>1. /\ UNCHANGED <<mem, disk, wb, since, pc, call>> /\ dirty \subseteq dirty'
    BY Zenon, <1>3 DEF StoreNotify
  <2>2. \A p \in Pages : DirtyEntry(p) => DirtyEntry(p)'
    BY <1>3 DEF StoreNotify, TypeOK, DirtyEntry
  <2>3. QED
    BY Zenon, <2>1, <2>2, SyncNoted DEF Syncing
<1>4. ASSUME NEW v \in Vmas, Store(v) PROVE SyncInv'
  <2>1. PICK p \in Pages : pte[v][p] = "dirty" /\ Modify(p)
    BY Zenon, <1>4 DEF Store
  <2>2. UNCHANGED <<disk, pte, dirty, pc, call>> /\ DirtyEntry(p)
    BY Zenon, <1>4, <2>1 DEF Store, DirtyEntry
  <2>3. QED
    BY Zenon, <2>1, <2>2, SyncModify DEF Syncing
<1>5. ASSUME NEW v \in Vmas, Munmap(v) PROVE SyncInv'
  <2>1. UNCHANGED <<mem, disk, wb, pc, call>> /\ dirty \subseteq dirty'
    BY Zenon, <1>5 DEF Munmap
  <2>2. \A u \in Syncing : since[u] \subseteq since'[u]
    BY Zenon, <1>5 DEF Munmap, Changed, TypeOK, Syncing
  <2>3. ASSUME NEW p \in Pages, DirtyEntry(p)
        PROVE  DirtyEntry(p)' \/ (p \in dirty' /\ \A u \in Syncing : p \in since'[u])
    <3>1. CASE pte[v][p] = "dirty"
      BY <1>5, <3>1 DEF Munmap, Changed, TypeOK, Syncing
    <3>2. CASE pte[v][p] # "dirty"
      BY Zenon, <1>5, <2>3, <3>2 DEF Munmap, TypeOK, DirtyEntry
    <3>3. QED
      BY Zenon, <3>1, <3>2
  <2>4. QED
    BY Zenon, <2>1, <2>2, <2>3, SyncNoted DEF Syncing
<1>6. ASSUME NEW p \in Pages, WritebackBegin(p) \/ WritebackEnd(p) PROVE SyncInv'
  <2>1. CASE WritebackBegin(p)
    BY Zenon, <2>1, SyncWrite DEF WritebackBegin
  <2>2. QED
    BY <1>6, <2>1, SyncIOEnd
<1>7. CASE UNCHANGED <<mem, disk, wb, dirty, pte, pc, call, since>>
  BY Zenon, <1>7, SyncFrame DEF Syncing
<1>8. QED
  BY Zenon, <1>1, <1>2, <1>3, <1>4, <1>5, <1>6, <1>7 DEF Next, Open, Close, Unlink, vars

\* When fsync returns, every page that did not change meanwhile and has had no
\* dirty page table entry since is on the lower disk, however many tasks write,
\* truncate, map and sync the file while the flusher runs.
THEOREM FsyncIsDurable == Spec => FsyncDurable
<1>1. Init => SyncInv
  BY Zenon DEF Init, SyncInv, Settled, Passed
<1>2. TypeOK /\ SyncInv /\ [Next]_vars =>
        [\A t \in Tasks : FsyncEnd(t) =>
           \A p \in Pages \ since[t] :
             \/ disk[p] = mem[p]
             \/ \E v \in Vmas : pte[v][p] = "dirty"]_vars
  <2> SUFFICES ASSUME TypeOK, SyncInv, NEW t \in Tasks, FsyncEnd(t),
                      NEW p \in Pages, p \notin since[t]
               PROVE  disk[p] = mem[p] \/ DirtyEntry(p)
    BY Zenon DEF DirtyEntry
  <2>1. Passed(t, p) /\ pc[t] = "s_wait" /\ call[t].todo \cap WritingBack = {}
    BY Zenon DEF SyncInv, FsyncEnd
  <2>2. QED
    BY Zenon, <2>1 DEF Passed, Settled, WritingBack
<1>3. Init => TypeOK /\ PageInFile
  BY TypeInit
<1>4. QED
  BY <1>1, <1>2, <1>3, TypeStep, PageStep, SyncStep, PTL DEF Spec, FsyncDurable

=============================================================================
