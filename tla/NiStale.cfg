CONSTANTS
  AidingData <- MCAidingData
  MaxRequests = 2
  MaxRestarts = 1
  None = None
  m1 = m1
  m2 = m2
  m3 = m3
  Messages <- MCMessages
  Elements <- MCMessages
  Null = Null
  t1 = t1
  t2 = t2
  t3 = t3
  Askers <- MCAskers
  Nothing = Nothing
  MaxUses = 2
SPECIFICATION MCSpec
INVARIANT AnswerIsForRequest
CHECK_DEADLOCK FALSE
