CONSTANTS
  None = None
  Inits <- AllInits
  Delays <- AllDelays
  MaxFrames = 2
  NativeRates <- Native
  Switches <- MainSwitches
  Dumps = {1, 2}
  Configs = {f1, f2}
  Default = f1
  Limit <- MCLimit
  Bytes <- MCBytes
  RenderSettings = FALSE
  MaxEvents = 5
  MaxCalls = 2
SPECIFICATION AllSpec
INVARIANTS ConfigInSync CaptureNeverFails
  FileIsPrefix DestroyedIsDone ConfigRecorded StreamsArePairs
CHECK_DEADLOCK FALSE
