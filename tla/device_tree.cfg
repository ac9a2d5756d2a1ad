SPECIFICATION FairSpec
CONSTANTS
  Blobs <- MCBlobs
  LIMIT <- MCLIMIT
  HEADER_SIZE = 10
  MAX_BLOB = 400
  SUPPORTED_VERSION = 17
  RamStart = 1000
  RamEnd = 2000
  MAX_DEPTH = 5
  MAX_RESERVATIONS = 3
  MAX_TRANSPORTS = 3
  MAX_WINDOWS = 4
  Text <- MCText
  Open <- MCOpen
  Components <- MCComponents
  Models <- MCModels
  Reg <- MCReg
  Compatible <- MCCompatible
  Interrupts <- MCInterrupts
  AddressCells <- MCAddressCells
  SizeCells <- MCSizeCells
INVARIANTS
  StaysInside
  MapIsWhatTheTreeSays
  DevicesAreWhatTheTreeSays
PROPERTIES
  ReaderFinishes
