CONSTANTS
  s1 = s1
  s2 = s2
  s3 = s3
  s4 = s4
  Subscribers <- MCSubscribers
  FreedIds <- AnyFreedId
  a1 = a1
  a2 = a2
  a3 = a3
  Adapters <- MCAdapters
  Handling <- MCHandling
  Nobody = Nobody
  EventBits = {pos}
  Excluded = {}
  MaxAdapters = 2
  MaxOpens = 1
  MaxDowns = 1
SYMMETRY MCAlike
SPECIFICATION MCSpec
INVARIANTS StateFollowsList ApiInv
PROPERTY MachineSteps
