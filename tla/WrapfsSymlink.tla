---------------------------- MODULE WrapfsSymlink -----------------------------
(***************************************************************************)
(* Following a symbolic link: wrapfs_follow_link, which reads the lower    *)
(* link into a kernel buffer with the address limit raised, and            *)
(* wrapfs_put_link (inode.c), which the VFS calls when it is done with the *)
(* path.  It shares kernel memory and the address limits with WrapfsKey.   *)
(***************************************************************************)
EXTENDS WrapfsKey

LinkFaults == {"link_buf", "readlink"}
LinkPcs == {"l_read", "l_put"}

\* The buffer is allocated and the address limit raised.
FollowBegin(t, s) ==
  /\ Call
  /\ Goto(t, "idle", "l_read")
  /\ \E b \in Bufs : /\ mem[b] = "free"
                     /\ mem' = [mem EXCEPT ![b] = "path"]
                     /\ integ' = [integ EXCEPT ![t] = b]
  /\ on' = [on EXCEPT ![t] = s]
  /\ limit' = [limit EXCEPT ![t] = "kernel"]
  /\ UNCHANGED <<key, seen, faultsLeft>>

\* No memory: put_link finds an error pointer and frees nothing.
FollowNoMemory(t) ==
  /\ Call
  /\ pc[t] = "idle"
  /\ Fails("link_buf")
  /\ UNCHANGED <<pc, on, keyVars>>

\* wrapfs_readlink has read the link; the limit is restored.
FollowRead(t) ==
  /\ Goto(t, "l_read", "l_put")
  /\ limit' = [limit EXCEPT ![t] = "user"]
  /\ UNCHANGED <<key, mem, on, integ, seen, opsLeft, faultsLeft>>

\* Faulty form: the buffer is left to put_link, which sees an error pointer.
FollowErrorLeaks(t) ==
  /\ pc[t] = "l_read"
  /\ Fails("readlink")
  /\ limit' = [limit EXCEPT ![t] = "user"]
  /\ Leave(t, "idle")
  /\ UNCHANGED <<key, mem, seen, opsLeft>>

\* The lower readlink fails: the buffer is freed and put_link frees nothing.
FollowError(t) ==
  /\ pc[t] = "l_read"
  /\ Fails("readlink")
  /\ limit' = [limit EXCEPT ![t] = "user"]
  /\ mem' = [mem EXCEPT ![integ[t]] = "free"]
  /\ Leave(t, "idle")
  /\ UNCHANGED <<key, seen, opsLeft>>

\* The path has been walked.
PutLink(t) ==
  /\ pc[t] = "l_put"
  /\ mem' = [mem EXCEPT ![integ[t]] = "free"]
  /\ Leave(t, "idle")
  /\ UNCHANGED <<key, seen, limit, opsLeft, faultsLeft>>

LinkStep(t) == FollowNoMemory(t) \/ FollowRead(t) \/ FollowError(t) \/ PutLink(t)

-----------------------------------------------------------------------------
\* "This is freed by the put_link method assuming a successful call"
\* (wrapfs_follow_link): each buffer of a link belongs to one walk that will
\* free it, whatever fails, and no walk uses one that has been freed.
LinkBufsFreed ==
  LET walks == {t \in Tasks : pc[t] \in LinkPcs} IN
  /\ {b \in Bufs : mem[b] = "path"} = {integ[t] : t \in walks}
  /\ \A t, u \in walks : integ[t] = integ[u] => t = u

=============================================================================
