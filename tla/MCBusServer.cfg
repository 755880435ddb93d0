CONSTANTS
  c1 = c1
  c2 = c2
  c3 = c3
  NoConn = noConn
  Conns <- MCConns
  Keys <- MCKeys
  KeyOf <- MCKeyOf
SPECIFICATION Spec
INVARIANTS TypeOK SubregMatchesHub IdleTimerGuards
PROPERTIES IdleExitSparesOpen IdleBusExits ShutdownTerminates
CHECK_DEADLOCK FALSE
