SPECIFICATION Spec
CONSTANTS
  Proc = {p1, p2, p3}
  NoOne = NoOne
  Serial = TRUE
  Failures = {"unlink", "write"}
INVARIANTS TypeOK MutualExclusion LockStays
PROPERTIES AskedOverOthers
SYMMETRY Symmetry
CHECK_DEADLOCK FALSE
