SPECIFICATION Spec
CONSTANTS
  INTERVAL = 2
  MAX_COUNT = 4
  KernelTasks = {1}
  UserTasks = {2}
INVARIANTS
  MaskFollowsTheStack
  LocksExclusive
  LatencyDoesNotAccumulate
PROPERTIES
  SkipsMissedTicks
  HeartbeatContinues
