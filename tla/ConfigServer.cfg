CONSTANTS
  Params = {"SUPL_VER"}
  Types = {"C2K"}
  Hosts = {"h1"}
  Locks = {2}
  Capable = TRUE
  Measures = TRUE
  MaxCalls = 2
  MaxCrashes = 1
  None = None
SPECIFICATION ConfigSpec
CHECK_DEADLOCK FALSE
INVARIANT ServerIsBuffered
