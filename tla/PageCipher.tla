----------------------------- MODULE PageCipher -----------------------------
(***************************************************************************)
(* What crypto.c does to a page, seen one cell at a time.                  *)
(*                                                                         *)
(* A cell stands for a byte.  Both directions run "ctr(aes)" over a whole  *)
(* page with a freshly allocated transform whose IV is never set, so the   *)
(* keystream byte a cell is combined with depends on the key and on the    *)
(* cell's offset in the page, and on nothing else.  A stored cell          *)
(* therefore remembers the key and the offset it was encrypted under; it   *)
(* decrypts to its plaintext under exactly that key at exactly that        *)
(* offset, and to an unpredictable value (Junk) everywhere else.           *)
(***************************************************************************)
EXTENDS Integers

CONSTANTS
  Keys,       \* the encryption keys (MD5 digests) a user can set
  NULL,       \* the null pointer: no key set, no file
  Data,       \* the plaintext values users write
  Zero,       \* the zero byte
  Junk,       \* an uninitialised or wrongly decrypted byte
  PageSize    \* PAGE_CACHE_SIZE, in cells

ASSUME CipherAssumption ==
  /\ NULL \notin Keys
  /\ Zero \notin Data
  /\ Junk \notin Data
  /\ Zero # Junk
  /\ PageSize \in Nat \ {0}

Offs  == 0 .. PageSize - 1
Plain == Data \cup {Zero, Junk}

\* A cell of the lower file: k = NULL when it was stored without encryption.
Cell == [k : Keys \cup {NULL}, o : Offs, v : Plain]

Raw(v) == [k |-> NULL, o |-> 0, v |-> v]

\* Contents of a page that was allocated but never written.
Uninitialised == [o \in Offs |-> Junk]

EncryptCell(k, o, v) == [k |-> k, o |-> o, v |-> v]

DecryptCell(k, o, c) == IF c.k = k /\ c.o = o THEN c.v ELSE Junk

-----------------------------------------------------------------------------
(***************************************************************************)
(* Faulty forms used to show that the properties can fail.                 *)
(***************************************************************************)

\* The keystream restarts at the first cell being written.
EncryptPageShifted(k, page) ==
  [o \in Offs |-> EncryptCell(k, (o + 1) % PageSize, page[o])]

\* The transform is applied to a zeroed destination page.
DecryptPageForgetsSource(k, cells) == [o \in Offs |-> Zero]

-----------------------------------------------------------------------------
\* wrapfs_encrypt_page_new: page -> dst_page, all PageSize cells.
EncryptPage(k, page) == [o \in Offs |-> EncryptCell(k, o, page[o])]

\* wrapfs_decrypt_page_new: dst_page -> page, all PageSize cells.
DecryptPage(k, cells) == [o \in Offs |-> DecryptCell(k, o, cells[o])]

\* What dst_page holds when the cipher could not be set up: it was returned
\* by alloc_page and never written.
UnwrittenCells == [o \in Offs |-> Raw(Junk)]

=============================================================================
