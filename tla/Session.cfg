CONSTANTS
  MaxQueue = 5
  MaxCrashes = 2
SPECIFICATION Spec
INVARIANTS SessionInv SettledAgrees
PROPERTIES CallsCarryCriteria StartsAreServed
