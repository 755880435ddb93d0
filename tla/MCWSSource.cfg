CONSTANTS
  MaxBackoff = 30
  MaxConsecutiveFailures = 30
  MaxTokens = 3
SPECIFICATION Spec
INVARIANTS TypeOK OneHeartbeat BoundTokenInSync
PROPERTIES CancelEnds FlappingEnds RevokedEnds
CHECK_DEADLOCK FALSE
