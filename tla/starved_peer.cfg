SPECIFICATION FairSpec
CONSTANTS
  MAX_TASKS = 4
  IDLE = 2
  Priorities = {0, 1}
  Bits = {b1}
  TIMER_INTID = timer
  Devices = {}
  MAX_ROUTES = 1
  MaxLeases = 0
  RestartsOnlyStopped = TRUE
  Kinds = {"user"}
  MaxSpawns = 3
  MaxFaults = 0
  HasSupervisor = FALSE
  BootPosts = FALSE
  PostsOnlyToReceivers = TRUE
PROPERTY PeersTakeTurns
