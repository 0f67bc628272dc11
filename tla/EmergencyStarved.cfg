CONSTANTS
  h1 = h1
  h2 = h2
  Handles <- MCHandles
  MaxRetries = 4
SPECIFICATION Spec
PROPERTIES EmergencyAnswered
CHECK_DEADLOCK FALSE
