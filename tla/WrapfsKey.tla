------------------------------ MODULE WrapfsKey ------------------------------
(***************************************************************************)
(* The encryption key of a superblock: the ioctl of file.c that sets and   *)
(* clears it, the MD5 computation of md5.c it calls, and the readpages and *)
(* write_ends that read the key pointer and use the digest it points to a  *)
(* while later.                                                            *)
(*                                                                         *)
(* Digests live in kernel memory: a buffer is free, zeroed (kmalloc and    *)
(* memset) or holds the digest of a key string.  The handler never frees   *)
(* one, neither the one it replaces nor, on an error path, its own.        *)
(* Allocations of other memory that only this handler sees are left out    *)
(* but for their failure.                                                  *)
(***************************************************************************)
EXTENDS Integers

CONSTANTS
  Tasks, NULL,
  Supers,              \* superblocks
  Strings,             \* the key strings users set, other than "0"
  Bufs,                \* kernel buffers for digests (bound)
  Faults,              \* the calls that may fail
  MaxOps, MaxFaults    \* bounds on calls and failures

Md5Faults == {"alloc_hash", "hash_init", "hash_update", "hash_final"}
KeyFaults == Md5Faults \cup {"integ_val", "copy_args", "getname", "md5_digest"}

ASSUME KeyAssumption ==
  /\ NULL \notin Bufs \cup Strings \cup Supers
  /\ {"free", "zero", "path"} \cap Strings = {}
  /\ MaxOps \in Nat /\ MaxFaults \in Nat

VARIABLES
  key,         \* WRAPFS_SB(sb)->keyVal: a pointer to a buffer
  mem,         \* what each buffer holds
  pc, on,      \* where each task is, and the superblock its call is on
  integ,       \* the integ_val local of an ioctl, or encKey of a data operation
  seen,        \* the digest a data operation found when it read the key
  limit,       \* the address limit of each task (set_fs)
  opsLeft, faultsLeft

keyVars == <<key, mem, integ, seen, limit>>

-----------------------------------------------------------------------------
KeyPcs == {"k_args", "k_update", "k_store", "d_use"}

KeyInit ==
  /\ key = [s \in Supers |-> NULL]
  /\ mem = [b \in Bufs |-> "free"]
  /\ integ = [t \in Tasks |-> NULL]
  /\ seen = [t \in Tasks |-> NULL]
  /\ limit = [t \in Tasks |-> "user"]
  /\ opsLeft = MaxOps /\ faultsLeft = MaxFaults

Goto(t, from, to) == pc[t] = from /\ pc' = [pc EXCEPT ![t] = to]
Call == opsLeft > 0 /\ opsLeft' = opsLeft - 1
Fails(x) == x \in Faults /\ faultsLeft > 0 /\ faultsLeft' = faultsLeft - 1
NoFailure == UNCHANGED faultsLeft

\* The call of a task is over; its locals are gone.
Leave(t, to) ==
  /\ pc' = [pc EXCEPT ![t] = to]
  /\ on' = [on EXCEPT ![t] = NULL]
  /\ integ' = [integ EXCEPT ![t] = NULL]

-----------------------------------------------------------------------------
(***************************************************************************)
(* wrapfs_unlocked_ioctl.                                                  *)
(***************************************************************************)
\* integ_val is allocated and zeroed, whatever the command is.
IoctlEnter(t, s) ==
  /\ Call
  /\ Goto(t, "idle", "k_args")
  /\ \E b \in Bufs : /\ mem[b] = "free"
                     /\ mem' = [mem EXCEPT ![b] = "zero"]
                     /\ integ' = [integ EXCEPT ![t] = b]
  /\ on' = [on EXCEPT ![t] = s]
  /\ UNCHANGED <<key, seen, limit, faultsLeft>>

\* No memory for integ_val: -ENOMEM.
IoctlNoMemory(t) ==
  /\ Call
  /\ pc[t] = "idle"
  /\ Fails("integ_val")
  /\ UNCHANGED <<pc, on, keyVars>>

\* Another command: it is passed on to the lower file.  integ_val is lost.
IoctlOther(t) ==
  /\ pc[t] = "k_args"
  /\ Leave(t, "idle")
  /\ UNCHANGED <<key, mem, seen, limit, opsLeft, faultsLeft>>

\* The arguments cannot be copied in.  The result of getname is not tested:
\* strcmp follows the error pointer and the task is killed.
IoctlBadArgs(t) ==
  /\ pc[t] = "k_args"
  /\ \/ Fails("copy_args") /\ Leave(t, "idle")
     \/ Fails("getname") /\ Leave(t, "dead")
  /\ UNCHANGED <<key, mem, seen, limit, opsLeft>>

\* The key "0": wrapfs_set_enc_key(sb, NULL).
IoctlClear(t) ==
  /\ pc[t] = "k_args"
  /\ key' = [key EXCEPT ![on[t]] = NULL]
  /\ Leave(t, "idle")
  /\ UNCHANGED <<mem, seen, limit, opsLeft, faultsLeft>>

\* wrapfs_compute_md5 up to set_fs(KERNEL_DS).
Md5Begin(t) ==
  /\ Goto(t, "k_args", "k_update")
  /\ limit' = [limit EXCEPT ![t] = "kernel"]
  /\ UNCHANGED <<key, mem, on, integ, seen, opsLeft, faultsLeft>>

\* Faulty form: set_fs(oldfs) is left out.
Md5EndKeepsLimit(t) ==
  /\ Goto(t, "k_update", "k_store")
  /\ \E x \in Strings : mem' = [mem EXCEPT ![integ[t]] = x]
  /\ UNCHANGED <<key, on, integ, seen, limit, opsLeft, faultsLeft>>

\* The hash is updated, the address limit restored and the digest written to
\* integ_val.
Md5End(t) ==
  /\ Goto(t, "k_update", "k_store")
  /\ \E x \in Strings : mem' = [mem EXCEPT ![integ[t]] = x]
  /\ limit' = [limit EXCEPT ![t] = "user"]
  /\ UNCHANGED <<key, on, integ, seen, opsLeft, faultsLeft>>

\* Where wrapfs_compute_md5 is when one of its calls fails.
Md5At(x) == IF x \in {"alloc_hash", "hash_init"} THEN "k_args" ELSE "k_update"

\* Faulty form: the result of wrapfs_compute_md5 is not looked at.
Md5ErrorIgnored(t) ==
  /\ \E x \in Md5Faults : /\ Goto(t, Md5At(x), "k_store")
                          /\ Fails(x)
                          /\ limit' = [limit EXCEPT ![t] =
                                 IF x = "hash_update" THEN "kernel" ELSE "user"]
  /\ UNCHANGED <<key, mem, on, integ, seen, opsLeft>>

\* A call of the crypto API fails: the ioctl returns 0 with the key as it was.
\* The error path of crypto_hash_update does not restore the address limit.
Md5Error(t) ==
  /\ \E x \in Md5Faults : /\ pc[t] = Md5At(x)
                          /\ Fails(x)
                          /\ limit' = [limit EXCEPT ![t] =
                                 IF x = "hash_update" THEN "kernel" ELSE "user"]
  /\ Leave(t, "idle")
  /\ UNCHANGED <<key, mem, seen, opsLeft>>

\* Faulty form: the digest that is replaced is freed.
KeyStoreFreesOld(t) ==
  /\ pc[t] = "k_store"
  /\ key' = [key EXCEPT ![on[t]] = integ[t]]
  /\ mem' = IF key[on[t]] = NULL THEN mem
            ELSE [mem EXCEPT ![key[on[t]]] = "free"]
  /\ Leave(t, "idle")
  /\ UNCHANGED <<seen, limit, opsLeft, faultsLeft>>

\* wrapfs_set_enc_key(sb, integ_val).
KeyStore(t) ==
  /\ pc[t] = "k_store"
  /\ key' = [key EXCEPT ![on[t]] = integ[t]]
  /\ Leave(t, "idle")
  /\ UNCHANGED <<mem, seen, limit, opsLeft, faultsLeft>>

\* No memory for the digest's text: -ENOMEM.
KeyNoMemory(t) ==
  /\ pc[t] = "k_store"
  /\ Fails("md5_digest")
  /\ Leave(t, "idle")
  /\ UNCHANGED <<key, mem, seen, limit, opsLeft>>

-----------------------------------------------------------------------------
(***************************************************************************)
(* readpage and write_end read the key pointer and use it later.           *)
(***************************************************************************)
UseBegin(t, s) ==
  /\ Call
  /\ Goto(t, "idle", "d_use")
  /\ key[s] # NULL
  /\ on' = [on EXCEPT ![t] = s]
  /\ integ' = [integ EXCEPT ![t] = key[s]]
  /\ seen' = [seen EXCEPT ![t] = mem[key[s]]]
  /\ UNCHANGED <<key, mem, limit, faultsLeft>>

UseEnd(t) ==
  /\ pc[t] = "d_use"
  /\ Leave(t, "idle")
  /\ seen' = [seen EXCEPT ![t] = NULL]
  /\ UNCHANGED <<key, mem, limit, opsLeft, faultsLeft>>

KeyStep(t) ==
  \/ IoctlNoMemory(t) \/ IoctlOther(t) \/ IoctlBadArgs(t) \/ IoctlClear(t)
  \/ Md5Begin(t) \/ Md5End(t) \/ Md5Error(t) \/ KeyStore(t) \/ KeyNoMemory(t)
  \/ UseEnd(t)

-----------------------------------------------------------------------------
(***************************************************************************)
(* Properties.                                                             *)
(***************************************************************************)

\* The key of a superblock is never a pointer to memory without a finished
\* digest, whatever fails in the ioctl and in wrapfs_compute_md5.
KeyIsDigest == \A s \in Supers : key[s] # NULL => mem[key[s]] \in Strings

\* The key a readpage or write_end works with stays as it found it until it
\* is done, although ioctls replace and clear the key without any lock.
KeyInUseStable == \A t \in Tasks : pc[t] = "d_use" => mem[integ[t]] = seen[t]

\* A task returns to user mode with the address limit it came with.
AddrLimitRestored == \A t \in Tasks : pc[t] = "idle" => limit[t] = "user"

=============================================================================
