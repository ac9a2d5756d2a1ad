SPECIFICATION Spec
CONSTANTS
  owner = owner
  borrower = borrower
  other = other
  Tasks <- ThreeTasks
  PAGE_SIZE = 2
  VA_PAGES = 3
  KERNEL_BASE = 7
  ADDRESSES = 9
  FRAMES = 9
  Permission <- Spaces
  FrameAt <- ScatteredFrames
  MAX_LEASES = 2
  MAX_MESSAGE = 2
  MAX_BORROW = 3
  LeaseTables <- Tables
  Messages <- Bodies
  Lengths = {1, 2, 3}
  Offsets = {0, 1, 7}
  Locals = {0, 2, 3}
  MaxCopies = 2
INVARIANTS
  SentBuffersAccessible
PROPERTIES
  OnlyAgreedBytesMove
