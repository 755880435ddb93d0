CONSTANTS
  c1 = c1
  c2 = c2
  Replayer = replayer
  Consumers <- MCConsumers
  Keys <- MCKeys
  Worlds <- MCSharedRefused
  MaxSessions = 2
  MaxRequests = 4
SPECIFICATION Spec
INVARIANT RefusedConsumersAreTold
CHECK_DEADLOCK FALSE
