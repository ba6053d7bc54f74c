----------------------------- MODULE WrapfsMount -----------------------------
(***************************************************************************)
(* The life of a superblock and of the module: init_wrapfs_fs and          *)
(* exit_wrapfs_fs, wrapfs_mount with wrapfs_read_super and the parsing of  *)
(* options (main.c), the inodes wrapfs_iget makes, remounting and          *)
(* put_super (super.c), composed with the key of WrapfsKey and the         *)
(* symbolic links of WrapfsSymlink.                                        *)
(*                                                                         *)
(* External: mount_nodev and sget make a superblock and hold its s_umount  *)
(* until the mount is done, so nobody looks anything up in it before; a    *)
(* mount pins the module through file_system_type.owner; a module being    *)
(* removed is no longer found; an open file keeps its mount busy.          *)
(***************************************************************************)
EXTENDS WrapfsSymlink, FiniteSets, Sequences

CONSTANTS
  OptionStrings,   \* option lists users mount with, NULL for none
  MaxDevs          \* bound on anonymous device numbers

MountFaults == {"icache", "dcache", "register", "sget", "kern_path", "sb_info",
                "root_inode", "root_dentry", "root_info", "match_int"}

OptionKinds == {"mmap", "debug", "unknown"}

ASSUME MountAssumption ==
  /\ OptionStrings \subseteq Seq(OptionKinds) \cup {NULL}
  /\ IsFiniteSet(Tasks) /\ IsFiniteSet(Supers)
  /\ Faults \subseteq KeyFaults \cup LinkFaults \cup MountFaults
  /\ MaxDevs \in Nat

VARIABLES
  module,        \* "out", "coming", "live" or "going"
  icache, dcache,\* the slab caches of inodes and of dentry private data
  registered,    \* the file system type can be found
  modRef,        \* the module's reference count
  st,            \* of each superblock: "free", "setup", "active" or "dying"
  info,          \* s_fs_info is set, and holds the lower superblock
  inode,         \* there is a root inode
  root,          \* s_root: "none", "bare", or "linked" once it has private
                 \* data and the lower path
  aops,          \* aops_enabled
  files,         \* the file operations its regular inodes have, TRUE for
                 \* wrapfs_mmap_fops and wrapfs_aops
  asked,         \* the options of the mount
  lowerActive,   \* s_active references held on the lower superblock
  lowerPath,     \* references held on the path of the lower directory
  devs,          \* anonymous device numbers taken
  opts           \* the options of each task's mount call

moduleVars == <<module, icache, dcache, registered>>
lowerVars  == <<lowerActive, lowerPath>>
superVars  == <<st, info, inode, root, aops, files, asked>>
mountVars  == <<moduleVars, modRef, superVars, lowerVars, devs, opts>>
vars == <<pc, on, keyVars, opsLeft, faultsLeft, mountVars>>

-----------------------------------------------------------------------------
\* In PathPcs read_super itself holds the path of the lower directory, later
\* the root does.
PathPcs  == {"m_info", "m_iget", "m_root"}
SetupPcs == PathPcs \cup {"m_path", "m_link", "m_fail", "m_options"}
MountPcs == SetupPcs \cup {"m_sget", "m_oops"}
\* "m_dead" is a task that was killed in mount.
PCs == KeyPcs \cup LinkPcs \cup MountPcs
         \cup {"idle", "dead", "m_dead", "u_dcache", "u_super"}

Init ==
  /\ KeyInit
  /\ pc = [t \in Tasks |-> "idle"]
  /\ on = [t \in Tasks |-> NULL]
  /\ module = "out" /\ icache = FALSE /\ dcache = FALSE /\ registered = FALSE
  /\ modRef = 0
  /\ st = [s \in Supers |-> "free"]
  /\ info = [s \in Supers |-> FALSE] /\ inode = [s \in Supers |-> FALSE]
  /\ root = [s \in Supers |-> "none"]
  /\ aops = [s \in Supers |-> FALSE] /\ files = [s \in Supers |-> {}]
  /\ asked = [s \in Supers |-> NULL]
  /\ lowerActive = 0 /\ lowerPath = 0
  /\ devs = 0
  /\ opts = [t \in Tasks |-> NULL]

\* Faulty form: the file system type has no .owner.
PinNothing(n) == UNCHANGED modRef

\* Faulty form: a failed mount, and unmounting, drop the reference twice.
PinDropsTwice(n) == modRef' = IF n < 0 THEN modRef + 2 * n ELSE modRef + n

\* get_filesystem and put_filesystem take and drop references on .owner.
Pin(n) == modRef' = modRef + n

-----------------------------------------------------------------------------
(***************************************************************************)
(* init_wrapfs_fs and exit_wrapfs_fs.                                      *)
(***************************************************************************)
InitCaches ==
  /\ Call
  /\ module = "out"
  /\ module' = "coming"
  /\ \/ NoFailure /\ icache' = TRUE /\ dcache' = TRUE
     \/ Fails("icache") /\ UNCHANGED <<icache, dcache>>
     \/ Fails("dcache") /\ icache' = TRUE /\ UNCHANGED dcache
  /\ UNCHANGED <<registered, modRef, superVars, lowerVars, devs, opts, pc, on,
                 keyVars>>

\* register_filesystem: the type can be mounted at once.
InitRegister ==
  /\ module = "coming" /\ icache /\ dcache
  /\ NoFailure
  /\ registered' = TRUE /\ module' = "live"
  /\ UNCHANGED <<icache, dcache, modRef, superVars, lowerVars, devs, opts, pc, on,
                 keyVars, opsLeft>>

\* out: an error destroys the caches that exist.
InitError ==
  /\ module = "coming"
  /\ IF icache /\ dcache THEN Fails("register") ELSE NoFailure
  /\ module' = "out" /\ icache' = FALSE /\ dcache' = FALSE
  /\ UNCHANGED <<registered, modRef, superVars, lowerVars, devs, opts, pc, on,
                 keyVars, opsLeft>>

\* delete_module stops a module nobody refers to.
ModuleStop ==
  /\ Call
  /\ module = "live" /\ modRef = 0
  /\ module' = "going"
  /\ UNCHANGED <<icache, dcache, registered, modRef, superVars, lowerVars, devs, opts,
                 pc, on, keyVars, faultsLeft>>

\* exit_wrapfs_fs destroys the caches and only then unregisters the type.
ExitCaches ==
  /\ module = "going" /\ (icache \/ dcache)
  /\ icache' = FALSE /\ dcache' = FALSE
  /\ UNCHANGED <<module, registered, modRef, superVars, lowerVars, devs, opts, pc, on,
                 keyVars, opsLeft, faultsLeft>>

ExitUnregister ==
  /\ module = "going" /\ ~ icache /\ ~ dcache
  /\ registered' = FALSE /\ module' = "out"
  /\ UNCHANGED <<icache, dcache, modRef, superVars, lowerVars, devs, opts, pc, on,
                 keyVars, opsLeft, faultsLeft>>

-----------------------------------------------------------------------------
(***************************************************************************)
(* wrapfs_mount, mount_nodev and wrapfs_read_super.                        *)
(***************************************************************************)
\* get_fs_type finds the type unless the module is going.
MountBegin(t) ==
  /\ Call
  /\ registered /\ module # "going"
  /\ Goto(t, "idle", "m_sget")
  /\ \E o \in OptionStrings : opts' = [opts EXCEPT ![t] = o]
  /\ Pin(1)
  /\ UNCHANGED <<moduleVars, superVars, lowerVars, devs, on, keyVars, faultsLeft>>

\* sget makes a superblock and gives it an anonymous device number.
MountSget(t) ==
  /\ Goto(t, "m_sget", "m_path")
  /\ devs < MaxDevs /\ devs' = devs + 1
  /\ \E s \in Supers :
       /\ st[s] = "free"
       /\ st' = [st EXCEPT ![s] = "setup"]
       /\ asked' = [asked EXCEPT ![s] = opts[t]]
       /\ on' = [on EXCEPT ![t] = s]
  /\ Pin(1)
  /\ UNCHANGED <<moduleVars, info, inode, root, aops, files, lowerVars, opts,
                 keyVars, opsLeft, faultsLeft>>

\* No memory, or no device number left: mount_nodev returns an error pointer.
MountNoSuper(t) ==
  /\ Goto(t, "m_sget", "m_oops")
  /\ IF devs = MaxDevs THEN NoFailure ELSE Fails("sget")
  /\ UNCHANGED <<mountVars, on, keyVars, opsLeft>>

\* kern_path of the lower directory; a missing dev_name fails alike.
ReadSuperPath(t) ==
  /\ pc[t] = "m_path"
  /\ \/ /\ NoFailure
        /\ pc' = [pc EXCEPT ![t] = "m_info"]
        /\ lowerPath' = lowerPath + 1
     \/ /\ Fails("kern_path")
        /\ pc' = [pc EXCEPT ![t] = "m_fail"]
        /\ UNCHANGED lowerPath
  /\ UNCHANGED <<moduleVars, modRef, superVars, lowerActive, devs, opts, on, keyVars,
                 opsLeft>>

\* kzalloc of the private data, s_active of the lower superblock; on failure
\* out_free puts the path.
ReadSuperInfo(t) ==
  /\ pc[t] = "m_info"
  /\ \/ /\ NoFailure
        /\ pc' = [pc EXCEPT ![t] = "m_iget"]
        /\ info' = [info EXCEPT ![on[t]] = TRUE]
        /\ aops' = [aops EXCEPT ![on[t]] = FALSE]
        /\ key' = [key EXCEPT ![on[t]] = NULL]
        /\ lowerActive' = lowerActive + 1
        /\ UNCHANGED lowerPath
     \/ /\ Fails("sb_info")
        /\ pc' = [pc EXCEPT ![t] = "m_fail"]
        /\ lowerPath' = lowerPath - 1
        /\ UNCHANGED <<info, aops, key, lowerActive>>
  /\ UNCHANGED <<moduleVars, modRef, st, inode, root, files, asked, devs, opts,
                 on, mem, integ, seen, limit, opsLeft>>

\* Faulty form: the error path does not drop the lower superblock.
DropLowerKeepsActive(t) ==
  /\ info' = [info EXCEPT ![on[t]] = FALSE]
  /\ inode' = [inode EXCEPT ![on[t]] = FALSE]
  /\ lowerPath' = lowerPath - 1
  /\ UNCHANGED lowerActive

\* out_iput, out_sput, out_free: the inode, if any, the lower superblock, the
\* private data and the path are given up.
DropLower(t) ==
  /\ info' = [info EXCEPT ![on[t]] = FALSE]
  /\ inode' = [inode EXCEPT ![on[t]] = FALSE]
  /\ lowerActive' = lowerActive - 1
  /\ lowerPath' = lowerPath - 1

\* wrapfs_iget of the lower root.
ReadSuperIget(t) ==
  /\ pc[t] = "m_iget"
  /\ \/ /\ NoFailure
        /\ pc' = [pc EXCEPT ![t] = "m_root"]
        /\ inode' = [inode EXCEPT ![on[t]] = TRUE]
        /\ UNCHANGED <<info, lowerVars>>
     \/ /\ Fails("root_inode")
        /\ pc' = [pc EXCEPT ![t] = "m_fail"]
        /\ DropLower(t)
  /\ UNCHANGED <<moduleVars, modRef, st, root, aops, files, asked, devs, opts, on,
                 keyVars, opsLeft>>

\* d_alloc_root, d_set_d_op.
ReadSuperRoot(t) ==
  /\ pc[t] = "m_root"
  /\ \/ /\ NoFailure
        /\ pc' = [pc EXCEPT ![t] = "m_link"]
        /\ root' = [root EXCEPT ![on[t]] = "bare"]
        /\ UNCHANGED <<info, inode, lowerVars>>
     \/ /\ Fails("root_dentry")
        /\ pc' = [pc EXCEPT ![t] = "m_fail"]
        /\ DropLower(t)
        /\ UNCHANGED root
  /\ UNCHANGED <<moduleVars, modRef, st, aops, files, asked, devs, opts, on,
                 keyVars, opsLeft>>

\* new_dentry_private_data; the root takes over the path.  On failure dput
\* kills the root: its inode is freed, then d_release follows the null
\* d_fsdata and the task is killed with everything it holds.
ReadSuperLink(t) ==
  /\ pc[t] = "m_link"
  /\ \/ /\ NoFailure
        /\ pc' = [pc EXCEPT ![t] = "m_options"]
        /\ root' = [root EXCEPT ![on[t]] = "linked"]
        /\ UNCHANGED inode
     \/ /\ Fails("root_info")
        /\ pc' = [pc EXCEPT ![t] = "m_dead"]
        /\ inode' = [inode EXCEPT ![on[t]] = FALSE]
        /\ UNCHANGED root
  /\ UNCHANGED <<moduleVars, modRef, st, info, aops, files, asked, lowerVars, devs,
                 opts, on, keyVars, opsLeft>>

\* read_super failed before there was a root: deactivate_locked_super calls
\* generic_shutdown_super, which does nothing without a root, and frees the
\* superblock.  Its device number is not given back.
MountFailed(t) ==
  /\ Goto(t, "m_fail", "m_oops")
  /\ st' = [st EXCEPT ![on[t]] = "free"]
  /\ on' = [on EXCEPT ![t] = NULL]
  /\ Pin(-1)
  /\ UNCHANGED <<moduleVars, info, inode, root, aops, files, asked, lowerVars,
                 devs, opts, keyVars, opsLeft, faultsLeft>>

\* The error pointer passes the test for NULL in wrapfs_mount: d->d_sb kills
\* the task, which still holds the reference of get_fs_type.
MountOops(t) ==
  /\ Goto(t, "m_oops", "m_dead")
  /\ UNCHANGED <<mountVars, on, keyVars, opsLeft, faultsLeft>>

-----------------------------------------------------------------------------
(***************************************************************************)
(* wrapfs_parse_mount_options.                                             *)
(***************************************************************************)
\* One option.  The table of tokens has no end mark, so for an option it does
\* not have match_token reads on: it may follow a wild pointer, or return any
\* token.  A token other than mmap's ends the parsing, for debug's because
\* there is no argument to convert.
ParseOption(nomem, r, o) ==
  IF r.st # "go" THEN {r}
  ELSE CASE o = "mmap"    -> {[r EXCEPT !.aops = TRUE]}
         [] o = "debug"   -> {IF nomem THEN [r EXCEPT !.st = "stop"] ELSE r}
         [] o = "unknown" -> {[r EXCEPT !.aops = TRUE], [r EXCEPT !.st = "stop"],
                              [r EXCEPT !.st = "oops"]}

\* Faulty form: the flag is that of the last option.
ParseOptionsLast(options, nomem) ==
  {[st |-> "go", aops |-> options # NULL /\ options # <<>>
                          /\ options[Len(options)] = "mmap"]}

\* The possible results.  Without options the flag stays as kzalloc left it.
ParseOptions(options, nomem) ==
  LET given == IF options = NULL THEN <<>> ELSE options
      parsed[i \in 0 .. Len(given)] ==
        IF i = 0 THEN {[st |-> "go", aops |-> FALSE]}
        ELSE UNION {ParseOption(nomem, r, given[i]) : r \in parsed[i - 1]}
  IN parsed[Len(given)]

\* The options are parsed and the key is cleared with the superblock already
\* active.  The mount is then attached and can be used.
MountOptions(t) ==
  LET s == on[t] IN
  /\ pc[t] = "m_options"
  /\ \E nomem \in BOOLEAN : \E r \in ParseOptions(opts[t], nomem) :
       /\ IF nomem THEN Fails("match_int") ELSE NoFailure
       /\ \/ /\ r.st # "oops"
             /\ aops' = [aops EXCEPT ![s] = r.aops]
             /\ st' = [st EXCEPT ![s] = "active"]
             /\ key' = [key EXCEPT ![s] = NULL]
             /\ Pin(-1)
             /\ Leave(t, "idle")
          \/ /\ r.st = "oops"
             /\ Leave(t, "m_dead")
             /\ UNCHANGED <<st, aops, key, modRef>>
  /\ opts' = [opts EXCEPT ![t] = NULL]
  /\ UNCHANGED <<moduleVars, info, inode, root, files, asked, lowerVars, devs, mem,
                 seen, limit, opsLeft>>

-----------------------------------------------------------------------------
(***************************************************************************)
(* A mounted file system.                                                  *)
(***************************************************************************)
\* wrapfs_iget gives a regular file its operations by aops_enabled.
LookupFile(s) ==
  /\ Call
  /\ st[s] = "active"
  /\ files' = [files EXCEPT ![s] = @ \cup {aops[s]}]
  /\ UNCHANGED <<moduleVars, modRef, st, info, inode, root, aops, asked, lowerVars,
                 devs, opts, pc, on, keyVars, faultsLeft>>

\* Unused inodes are freed.
EvictFiles(s) ==
  /\ st[s] = "active" /\ files[s] # {}
  /\ files' = [files EXCEPT ![s] = {}]
  /\ UNCHANGED <<moduleVars, modRef, st, info, inode, root, aops, asked, lowerVars,
                 devs, opts, pc, on, keyVars, opsLeft, faultsLeft>>

\* Faulty form: remounting parses the options again.
RemountParses(s) ==
  /\ Call
  /\ st[s] = "active"
  /\ \E o \in OptionStrings : \E r \in ParseOptions(o, FALSE) :
       aops' = [aops EXCEPT ![s] = r.aops]
  /\ UNCHANGED <<moduleVars, modRef, st, info, inode, root, files, asked, lowerVars,
                 devs, opts, pc, on, keyVars, faultsLeft>>

\* wrapfs_remount_fs refuses some flags and leaves the others to the VFS; it
\* looks at no option and changes nothing.
Remount(s) ==
  /\ Call
  /\ st[s] = "active"
  /\ UNCHANGED <<mountVars, pc, on, keyVars, faultsLeft>>

Busy(s) == \E t \in Tasks : on[t] = s

\* An idle mount is detached.
UmountBegin(t) ==
  /\ Call
  /\ Goto(t, "idle", "u_dcache")
  /\ \E s \in Supers : /\ st[s] = "active" /\ ~ Busy(s)
                       /\ st' = [st EXCEPT ![s] = "dying"]
                       /\ on' = [on EXCEPT ![t] = s]
  /\ UNCHANGED <<moduleVars, modRef, info, inode, root, aops, files, asked,
                 lowerVars, devs, opts, keyVars, faultsLeft>>

\* generic_shutdown_super frees the dentries (d_release puts the lower path
\* of the root) and the inodes.
UmountDcache(t) ==
  /\ Goto(t, "u_dcache", "u_super")
  /\ root' = [root EXCEPT ![on[t]] = "none"]
  /\ inode' = [inode EXCEPT ![on[t]] = FALSE]
  /\ files' = [files EXCEPT ![on[t]] = {}]
  /\ lowerPath' = lowerPath - 1
  /\ UNCHANGED <<moduleVars, modRef, st, info, aops, asked, lowerActive, devs, opts,
                 on, keyVars, opsLeft, faultsLeft>>

\* wrapfs_put_super; the superblock is freed and the module unpinned.
UmountSuper(t) ==
  /\ pc[t] = "u_super"
  /\ lowerActive' = IF info[on[t]] THEN lowerActive - 1 ELSE lowerActive
  /\ info' = [info EXCEPT ![on[t]] = FALSE]
  /\ st' = [st EXCEPT ![on[t]] = "free"]
  /\ Pin(-1)
  /\ Leave(t, "idle")
  /\ UNCHANGED <<moduleVars, inode, root, aops, files, asked, lowerPath, devs,
                 opts, key, mem, seen, limit, opsLeft, faultsLeft>>

-----------------------------------------------------------------------------
ModuleStep == InitCaches \/ InitRegister \/ InitError
                \/ ModuleStop \/ ExitCaches \/ ExitUnregister

MountStep(t) ==
  \/ MountBegin(t) \/ MountSget(t) \/ MountNoSuper(t)
  \/ ReadSuperPath(t) \/ ReadSuperInfo(t) \/ ReadSuperIget(t)
  \/ ReadSuperRoot(t) \/ ReadSuperLink(t)
  \/ MountFailed(t) \/ MountOops(t) \/ MountOptions(t)
  \/ UmountBegin(t) \/ UmountDcache(t) \/ UmountSuper(t)

\* The ioctl, the data path and the links of a mounted superblock.
UseMount(t) ==
  /\ \/ \E s \in Supers :
          /\ st[s] = "active"
          /\ IoctlEnter(t, s) \/ UseBegin(t, s) \/ FollowBegin(t, s)
     \/ KeyStep(t) \/ LinkStep(t)
  /\ UNCHANGED mountVars

Next ==
  \/ ModuleStep
  \/ \E t \in Tasks : MountStep(t) \/ UseMount(t)
  \/ \E s \in Supers : LookupFile(s) \/ EvictFiles(s) \/ Remount(s)

Spec == Init /\ [][Next]_vars

-----------------------------------------------------------------------------
(***************************************************************************)
(* Properties.                                                             *)
(***************************************************************************)

\* Every variable has its type; no reference count goes below zero.
TypeOK ==
  /\ module \in {"out", "coming", "live", "going"}
  /\ icache \in BOOLEAN /\ dcache \in BOOLEAN /\ registered \in BOOLEAN
  /\ modRef \in Nat /\ lowerActive \in Nat /\ lowerPath \in Nat
  /\ devs \in 0 .. MaxDevs
  /\ st \in [Supers -> {"free", "setup", "active", "dying"}]
  /\ info \in [Supers -> BOOLEAN] /\ inode \in [Supers -> BOOLEAN]
  /\ root \in [Supers -> {"none", "bare", "linked"}]
  /\ aops \in [Supers -> BOOLEAN] /\ files \in [Supers -> SUBSET BOOLEAN]
  /\ asked \in [Supers -> OptionStrings \cup {NULL}]
  /\ opts \in [Tasks -> OptionStrings \cup {NULL}]
  /\ pc \in [Tasks -> PCs] /\ on \in [Tasks -> Supers \cup {NULL}]
  /\ key \in [Supers -> Bufs \cup {NULL}]
  /\ mem \in [Bufs -> Strings \cup {"free", "zero", "path"}]
  /\ limit \in [Tasks -> {"user", "kernel"}]

\* A superblock that is set up, used or torn down holds the lower superblock
\* and the lower directory once each, and the module once, as does each call
\* of mount; every error label of read_super and put_super give up exactly
\* what was taken, so nothing is left when they are gone.  Only a task killed
\* in mount keeps its references.
LowerAccounted ==
  /\ lowerActive = Cardinality({s \in Supers : info[s]})
  /\ lowerPath = Cardinality({s \in Supers : root[s] # "none"})
                   + Cardinality({t \in Tasks : pc[t] \in PathPcs})
  /\ modRef = Cardinality({s \in Supers : st[s] # "free"})
                + Cardinality({t \in Tasks : pc[t] \in MountPcs \cup {"m_dead"}})
  /\ \A s \in Supers : st[s] = "free" => ~ info[s] /\ root[s] = "none"

\* No inode or dentry outlives the slab cache it was allocated from, and no
\* mount allocates from a cache that is gone, although exit_wrapfs_fs destroys
\* the caches before it unregisters the file system.
CachesOutliveObjects ==
  (\/ \E s \in Supers : inode[s] \/ files[s] # {} \/ root[s] = "linked"
   \/ \E t \in Tasks : pc[t] \in MountPcs) => icache /\ dcache

\* "Mount Wrapfs on top of ext3 with support for address space operations"
\* (README.md): with options the table has, the files of a mount have them if
\* and only if mmap is among the options, although the options are parsed
\* after the superblock has gone live and remounting comes with options of its
\* own.
FilesFollowOption ==
  \A s \in Supers :
    LET o == IF asked[s] = NULL THEN {}
             ELSE {asked[s][i] : i \in DOMAIN asked[s]} IN
    "unknown" \notin o => files[s] \subseteq {"mmap" \in o}

=============================================================================
