SPECIFICATION Spec
CONSTANTS
  MAX_TASKS = 3
  IDLE = 2
  Priorities = {0}
  Bits = {}
  TIMER_INTID = timer
  Devices = {}
  MAX_ROUTES = 0
  MaxLeases = 0
  RestartsOnlyStopped = FALSE
  Kinds = {"user"}
  MaxSpawns = 2
  MaxFaults = 0
  HasSupervisor = TRUE
  BootPosts = FALSE
  PostsOnlyToReceivers = TRUE
INVARIANT SleeperCanBeWoken
