CONSTANTS
  Size = 3
  Values = {a, b}
  Proto = p
  PipeSize = 2
  MaxSettings = 7
  Modulus = 8
  Attempts = 3
  Kinds <- MCKinds
  KindOf <- MCKindOf
  Active <- MCActive
  Overlap = FALSE
  Monitors = {m1, m2}
  MaxFrames = 4
  Proxy = TRUE
  None = None
  Main = Main
  MessageThreads = {Main, w1}
  Closures = {k1, k2}
  FlushTask = FlushTask
SPECIFICATION AllSpec
INVARIANTS NoSlotRace SizeIsLowerBound LatestPending MostRecent
  NoUseAfterDestroy ThreadIsWoken FlushCompletes
PROPERTIES IsFifo Drains CatchesUp DestructorReturns
CHECK_DEADLOCK FALSE
