----------------------------- MODULE MCWrapfsFile -----------------------------
(***************************************************************************)
(* Instances of WrapfsFile for TLC.                                        *)
(***************************************************************************)
EXTENDS WrapfsFile, TLC

\* Tasks, files, mappings and values are interchangeable.
Symmetry == Permutations(Tasks) \cup Permutations(Files) \cup Permutations(Vmas)
              \cup Permutations(Values)

=============================================================================
