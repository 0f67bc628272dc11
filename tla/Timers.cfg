CONSTANTS
  o1 = o1
  w1 = w1
  None = None
  Objects <- MCObjects
  Wrappers <- MCWrappers
  Delegates = {1, 2}
  MaxClock = 3
  Delays = {1, 2}
SPECIFICATION Spec
INVARIANTS TimerInv WakeUpIsSet
PROPERTIES KeepsPromise
CHECK_DEADLOCK FALSE
