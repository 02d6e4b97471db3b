SPECIFICATION Spec
CONSTANTS
  TsSpace = 64
  SeqSpace = 16
  MaxNumberOfPackets = 3
  NackThresholdPackets = 1
  MaxNackListSize = 2
  DefaultSamples = 2
  PayloadTypes <- MCPayloadTypes
  SplitTypes <- MCSplitTypes
  FixedTypes <- MCFixedTypes
  ScaledTypes <- MCScaledTypes
  NoType = NoType
  LastPacket = 4
  SeqStart = 14
  TsStart = 60
  Dur <- MCDur
  Channels = 2
  Horizon = 20
  ReinitAfterExpands = 2
  MaxWaitForPacket = 1
  Window = 1
  MaxInputs = 4
  MaxCalls = 1
  Streams <- MCStreams
INVARIANTS BufferInOrder OneKnownCodec PlaysForward NackSound NackComplete NackTimes
PROPERTY Drains
