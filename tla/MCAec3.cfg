CONSTANTS
  None = None
  LowRateSize = 4
  FilterLength = 2
  DefaultDelay = 2
  DetectionInterval = 2
  MaxExcess = 1
  ActiveLimit = 2
  Estimates <- SomeEstimates
  DelaysMs <- SomeDelays
  QueueSize = 2
  MaxFrames = 8
SPECIFICATION AllSpec
INVARIANTS OutputDelayedByBlock RenderUnbroken
  SpectraMatchBlocks LatencyIsUnread ReadsAlignedBlock ExcessIsBounded
