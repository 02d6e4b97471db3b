CONSTANTS
  None = None
  QueueSize = 2
  Configs <- EchoConfigs
  CaptureFormats <- TwoCapture
  RenderFormats <- MixedRender
  InitFormats = {}
  Reinitialize = TRUE
  SwitchOff = FALSE
SPECIFICATION Spec
INVARIANT
  AnalyzeRenderShape
