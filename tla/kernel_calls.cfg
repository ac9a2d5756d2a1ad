SPECIFICATION Spec
CONSTANTS
  MAX_TASKS = 4
  IDLE = 2
  Priorities = {0, 1}
  Bits = {}
  TIMER_INTID = timer
  Devices = {}
  MAX_ROUTES = 0
  MaxLeases = 1
  RestartsOnlyStopped = TRUE
  Kinds = {"user"}
  MaxSpawns = 3
  MaxFaults = 2
  HasSupervisor = TRUE
  BootPosts = FALSE
  PostsOnlyToReceivers = TRUE
INVARIANTS
  TypeOK
  BuffersHeld
  SleeperCanBeWoken
  NobodyWaitsOnTheGone
  OutcomeMatchesCall
  NoMissedFault
PROPERTIES
  UnreadOutcomeKept
  CallsKeepTheirPromise
