CONSTANTS
  None = None
  QueueSize = 2
  Configs <- MixedConfigs
  CaptureFormats <- MixedCapture
  RenderFormats <- MixedRender
  InitFormats <- MixedInit
  Reinitialize = TRUE
  SwitchOff = TRUE
SPECIFICATION Spec
INVARIANTS
  RetryWorks
  QueuedShape
PROPERTY
  FormatsKept
