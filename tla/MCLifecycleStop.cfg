CONSTANTS
  Buses = {b1, b2}
  Commands = {c1, c2}
  Accounts = {u1, u2}
  None = None
SPECIFICATION Spec
INVARIANT UnreachableHasExited
SYMMETRY Symmetry
CHECK_DEADLOCK FALSE
