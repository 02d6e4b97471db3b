CONSTANTS
  NoTask = NoTask
  Clients = {c1, c2}
  Delays = {0, 1}
  MaxPosts = 3
  MaxTime = 2
SPECIFICATION Spec
INVARIANT NoLostWakeup
PROPERTIES RunsInOrder TasksRun
CHECK_DEADLOCK FALSE
