SPECIFICATION FairSpec
CONSTANTS
  MAX_TASKS = 4
  IDLE = 2
  Priorities = {0, 1}
  Bits = {}
  TIMER_INTID = timer
  Devices = {}
  MAX_ROUTES = 0
  MaxLeases = 0
  RestartsOnlyStopped = TRUE
  Kinds = {"user", "kernel"}
  MaxSpawns = 3
  MaxFaults = 0
  HasSupervisor = FALSE
  BootPosts = FALSE
  PostsOnlyToReceivers = TRUE
INVARIANTS
  BestTaskRuns
PROPERTIES
  NoStackFreedUnderfoot
  TopLevelTakesTurns
