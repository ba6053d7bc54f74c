------------------------ MODULE WrapfsMmapRefinement ------------------------
(***************************************************************************)
(* The data path of a mount implements PageFile.  The file is what the     *)
(* lower file decrypts to, up to the size of the wrapfs inode; a page is   *)
(* shown while it is up to date in the page cache; it is being written     *)
(* while a task holds its lock between write_begin and write_end.  A write *)
(* takes effect in the vfs_write of write_end, a truncation in the         *)
(* truncate_setsize of setattr.                                            *)
(***************************************************************************)
EXTENDS WrapfsMmap, Sequences

\* No page has the contents that stand for "no page".
ASSUME NullAssumption == NULL \notin [Offs -> Plain]

\* The contents a task inside write_begin .. write_end gives its page.
Incoming(t) == [o \in Offs |->
                  IF req[t].from <= o /\ o < req[t].from + req[t].len
                  THEN req[t].v ELSE data[req[t].p][o]]

Writers(p) == {t \in Tasks : pc[t] \in WritePcs /\ req[t].p = p}

FilePages == [i \in 1 .. isize \div PageSize |-> DecryptPage(key, lower[i - 1])]

PagesWritten ==
  [i \in 1 .. NumPages |-> IF Writers(i - 1) = {} THEN NULL
                           ELSE Incoming(CHOOSE t \in Writers(i - 1) : TRUE)]

PagesShown ==
  [i \in 1 .. NumPages |-> IF i - 1 \in uptodate /\ i <= isize \div PageSize
                           THEN data[i - 1] ELSE NULL]

Abstract == INSTANCE PageFile WITH
  Page <- [Offs -> Plain], None <- NULL, MaxLen <- NumPages,
  file <- FilePages, writing <- PagesWritten, shown <- PagesShown

\* What users see of the page cache over an encrypted lower file is a plain
\* file: write_end makes the user's page the file's page in one step, a
\* reader who trusts PageUptodate sees the file or a page in the middle of
\* its write, and readpage, writepage, reclaim, eviction and the ioctl leave
\* the file as it is.
ImplementsPageFile == Abstract!Spec

=============================================================================
