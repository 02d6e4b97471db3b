CONSTANTS
  None = None
  QueueSize = 2
  Configs <- ShapeConfigs
  CaptureFormats <- TwoCapture
  RenderFormats <- OtherRender
  InitFormats <- ShapeInit
  Reinitialize = FALSE
  SwitchOff = FALSE
SPECIFICATION Spec
INVARIANTS
  NoForgottenReinit
  AnalyzeRenderShape
  CaptureShapes
  OnlySplitBandsProcessed
