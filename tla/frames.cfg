SPECIFICATION Spec
CONSTANTS
  FRAME_SIZE = 2
  WORD = 2
  MAX_FRAMES = 6
  RAM_BASE = 2
  ADDRESSES = 24
  IMAGE_FRAMES = 1
  GUESS = 5
  STACK_FRAMES = 2
  Maps <- MemoryMaps
  Regions <- ReservedRegions
  MaxClaims = 2
INVARIANTS
  RangesAreExact
  NoTwoOwners
  BitmapAgrees
PROPERTIES
  ArrivesZeroed
