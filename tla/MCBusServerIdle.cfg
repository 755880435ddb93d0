CONSTANTS
  c1 = c1
  c2 = c2
  c3 = c3
  NoConn = noConn
  Conns <- MCConns
  Keys <- MCKeys
  KeyOf <- MCKeyOf
SPECIFICATION Spec

PROPERTIES IdleExitFindsNoSubscriber
CHECK_DEADLOCK FALSE
