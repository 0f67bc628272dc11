CONSTANTS
  MaxQueue = 4
  MaxCrashes = 0
SPECIFICATION Spec
INVARIANTS NoOrphanFix
