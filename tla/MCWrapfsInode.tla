---------------------------- MODULE MCWrapfsInode ----------------------------
(***************************************************************************)
(* Instances of WrapfsInode for TLC: two names, hard links of one file at  *)
(* mount time, in one directory or in two.                                 *)
(***************************************************************************)
EXTENDS WrapfsInode, TLC

CONSTANTS i1, i2, n1, n2, l1, l2, l3

OneDir  == n1 :> i1 @@ n2 :> i1
TwoDirs == n1 :> i1 @@ n2 :> i2

HardLinks == n1 :> l1 @@ n2 :> l1

\* Tasks, dentries and inodes are interchangeable in Init, Next and the
\* invariants.
Symmetry == Permutations(Tasks) \cup Permutations(Dentries)
              \cup Permutations(Slots)

=============================================================================
