SPECIFICATION Spec
CONSTANTS
  Proc = {p1, p2, p3}
  NoOne = NoOne
  Serial = FALSE
  Failures = {"open"}
INVARIANTS NoOrphan
SYMMETRY Symmetry
CHECK_DEADLOCK FALSE
