CONSTANTS
  c1 = c1
  c2 = c2
  Replayer = replayer
  Consumers <- MCConsumers
  Keys <- MCKeys
  Worlds <- MCWorlds
  MaxSessions = 2
  MaxRequests = 4
SPECIFICATION Spec
INVARIANTS TypeOK NoForgottenKey PendingMatchesWaiters
PROPERTIES RefusalIsBroadcast
CHECK_DEADLOCK FALSE
