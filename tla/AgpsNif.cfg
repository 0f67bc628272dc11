CONSTANTS
  h1 = h1
  h2 = h2
  Handles <- MCHandles
  MaxInFlight = 4
  MaxCrashes = 1
SPECIFICATION Spec
INVARIANTS ClientsAreCounted SettledAgrees
PROPERTIES ReleaseWhenUnused RequestsAnswered
