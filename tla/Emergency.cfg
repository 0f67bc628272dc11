CONSTANTS
  h1 = h1
  h2 = h2
  Handles <- MCHandles
  MaxRetries = 4
SPECIFICATION Spec
INVARIANTS CallIsKnown
PROPERTIES CallFollowsClients ClientsAnswered
CHECK_DEADLOCK FALSE
