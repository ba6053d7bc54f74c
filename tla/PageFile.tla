------------------------------ MODULE PageFile ------------------------------
(***************************************************************************)
(* What a file promises to programs that write and truncate it by whole    *)
(* pages, whatever cache, cipher and lower file are behind it.             *)
(*                                                                         *)
(* The file is a sequence of pages.  A write announces the page and its    *)
(* new contents, makes them the file's contents in one step, and ends when *)
(* readers are shown nothing else.  Readers are shown a page only as the   *)
(* file has it, except while that very page is being written.  Nothing     *)
(* else, neither forgetting what was shown nor showing it again, changes   *)
(* the file.                                                               *)
(***************************************************************************)
EXTENDS Naturals, Sequences

CONSTANTS Page, None, MaxLen    \* contents of a page, no page, a bound

VARIABLES
  file,      \* the pages of the file
  writing,   \* the contents being written to each page
  shown      \* the contents readers are shown without waiting

vars == <<file, writing, shown>>

Index == 1 .. MaxLen

Init == /\ file = <<>>
        /\ writing = [i \in Index |-> None]
        /\ shown = [i \in Index |-> None]

Quiet == \A i \in Index : writing[i] = None

\* A page that is being written may look like anything.
Blur(i) == \E c \in Page \cup {None} : shown' = [shown EXCEPT ![i] = c]

BeginWrite(i, c) ==
  /\ Quiet
  /\ i <= Len(file) + 1
  /\ writing' = [writing EXCEPT ![i] = c]
  /\ Blur(i)
  /\ UNCHANGED file

Scribble(i) == writing[i] # None /\ Blur(i) /\ UNCHANGED <<file, writing>>

Store(i) ==
  /\ writing[i] # None
  /\ file' = IF i > Len(file) THEN Append(file, writing[i])
             ELSE [file EXCEPT ![i] = writing[i]]
  /\ Blur(i)
  /\ UNCHANGED writing

EndWrite(i) ==
  /\ writing[i] # None
  /\ i <= Len(file) /\ file[i] = writing[i]
  /\ shown[i] \in {None, file[i]}
  /\ writing' = [writing EXCEPT ![i] = None]
  /\ UNCHANGED <<file, shown>>

Truncate(n) ==
  /\ Quiet
  /\ n < Len(file)
  /\ file' = SubSeq(file, 1, n)
  /\ shown' = [i \in Index |-> IF i <= n THEN shown[i] ELSE None]
  /\ UNCHANGED writing

\* A page is fetched for readers, or forgotten.
Fetch(i) ==
  /\ writing[i] = None
  /\ i <= Len(file)
  /\ shown' = [shown EXCEPT ![i] = file[i]]
  /\ UNCHANGED <<file, writing>>

Forget(S) ==
  /\ shown' = [i \in Index |-> IF i \in S THEN None ELSE shown[i]]
  /\ UNCHANGED <<file, writing>>

Next ==
  \/ \E i \in Index : \/ \E c \in Page : BeginWrite(i, c)
                      \/ Scribble(i) \/ Store(i) \/ EndWrite(i) \/ Fetch(i)
  \/ \E n \in 0 .. MaxLen : Truncate(n)
  \/ \E S \in SUBSET Index : Forget(S)

Spec == Init /\ [][Next]_vars

=============================================================================
