SPECIFICATION Spec
CONSTANTS
  MAX_TASKS = 3
  IDLE = 2
  Priorities = {0}
  Bits = {b1, b2}
  TIMER_INTID = timer
  Devices = {dev}
  MAX_ROUTES = 1
  MaxLeases = 0
  RestartsOnlyStopped = TRUE
  Kinds = {"user"}
  MaxSpawns = 2
  MaxFaults = 0
  HasSupervisor = FALSE
  BootPosts = TRUE
  PostsOnlyToReceivers = FALSE
SYMMETRY BitSymmetry
INVARIANTS
  NoMissedNotification
  FreshInstanceIsClean
PROPERTIES
  PostedBitsKept
