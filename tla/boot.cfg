CONSTANTS
  ENTRIES = 4
  LAST_LEVEL = 2
  RAM_BASE = 16
  DEFAULT_RAM = 16
  MAX_RAM = 40
  TextStart = 17
  RodataStart = 18
  DataStart = 19
  KernelEnd = 20
  DEVICE_BASE = 4
  DEVICE_SIZE = 4
  USER_TEXT_VA = 4
  USER_STACK_VA = 11
  STACK_FRAMES = 1
  MAX_TASKS = 3
  MaxSpawns = 3
  MaxFaults = 1
  Machines <- MCMachines
SPECIFICATION Spec
INVARIANTS
  WalkIsRight
  KernelReachesItsFrames
  AdoptedDevicesMapped
  FramesHaveOneHolder
PROPERTIES
  NothingFreedUnderfoot
