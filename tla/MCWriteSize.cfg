SPECIFICATION Spec
CONSTANTS
  NULL = NULL
  Tasks = {t1, t2}
  Files = {f1}
  Vmas = {v1}
  NumPages = 2
  FirstSize = 0
  Values = {x1}
  Zero = Zero
  Ops = {"open", "write"}
  Faults = {}
  MaxOps = 3
  MaxFaults = 0
INVARIANT
  SizeFresh
SYMMETRY Symmetry
CHECK_DEADLOCK FALSE
