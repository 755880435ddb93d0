CONSTANTS
  Buses = {b1, b2}
  Commands = {c1, c2}
  Accounts = {u1, u2}
  None = None
SPECIFICATION Spec
INVARIANTS TypeOK ListenerAlone ServingOwnsFiles ReportedGoneIsGone
SYMMETRY Symmetry
CHECK_DEADLOCK FALSE
