---------------------------- MODULE MCWrapfsMmap ----------------------------
(***************************************************************************)
(* Instances of WrapfsMmap for TLC: pages of two cells.                    *)
(***************************************************************************)
EXTENDS WrapfsMmapRefinement, TLC

CONSTANTS t1, t2, f1, f2, k1, k2, d1, d2

\* Each task has a descriptor of its own, or both share one struct file
\* (inherited over fork).
PrivateFiles == t1 :> {f1} @@ t2 :> {f2}
SharedFile   == t1 :> {f1} @@ t2 :> {f1}

\* The second task also has a descriptor opened with O_APPEND.
AppendFile   == t1 :> {f1} @@ t2 :> {f1, f2}

WholePage == {<<0, PageSize>>}
AnyChunk  == {s \in Offs \X (1 .. PageSize) : s[1] + s[2] <= PageSize}

PageSizes == {Pos(p, 0) : p \in Pages}
AnySize   == 0 .. MaxSize

=============================================================================
