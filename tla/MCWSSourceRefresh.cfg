CONSTANTS
  MaxBackoff = 30
  MaxConsecutiveFailures = 30
  MaxTokens = 3
SPECIFICATION Spec
INVARIANT AuthFailureIsARefusal
CHECK_DEADLOCK FALSE
