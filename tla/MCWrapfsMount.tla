---------------------------- MODULE MCWrapfsMount ----------------------------
(***************************************************************************)
(* Instances of WrapfsMount for TLC.                                       *)
(***************************************************************************)
EXTENDS WrapfsMount, TLC

\* No options, options the module knows, and lists with one it does not know,
\* such as the user_xattr of mount.sh.
OptionLists == {NULL, <<"mmap">>, <<"debug", "mmap">>, <<"unknown">>,
                <<"unknown", "mmap">>}

\* Tasks, superblocks and buffers are interchangeable.
Symmetry == Permutations(Tasks) \cup Permutations(Supers)
              \cup Permutations(Bufs)

=============================================================================
