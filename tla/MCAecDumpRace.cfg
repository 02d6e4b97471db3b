CONSTANTS
  None = None
  Dumps = {1, 2}
  Configs = {k1, k2}
  Default = k1
  Limit <- MCLimit
  Bytes <- MCBytes
  RenderSettings = TRUE
  MaxEvents = 5
  MaxCalls = 2
SPECIFICATION Spec
INVARIANT NoRaceDetected
CHECK_DEADLOCK FALSE
