SPECIFICATION FairSpec
CONSTANTS
  MAX_TASKS = 3
  IDLE = 2
  Priorities = {0}
  Bits = {b1}
  TIMER_INTID = timer
  Devices = {}
  MAX_ROUTES = 0
  MaxLeases = 0
  RestartsOnlyStopped = TRUE
  Kinds = {"user"}
  MaxSpawns = 3
  MaxFaults = 1
  HasSupervisor = TRUE
  BootPosts = TRUE
  PostsOnlyToReceivers = TRUE
PROPERTY FreshInstanceHasNoBits
