CONSTANTS
  None = None
  Inits <- OneInit
  Delays <- OneDelay
  MaxFrames = 1
  NativeRates <- Native
  Switches <- EchoSwitches
SPECIFICATION Spec
INVARIANT
  EchoChannels
