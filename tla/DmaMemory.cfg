CONSTANTS
  Block = 2
  Srcs <- MCSrcs
  Dsts <- MCDsts
  Lens <- MCLens
  Addr <- MCAddr
  Contents <- MCContents
  MaxRequests = 2
SPECIFICATION MemoryFairSpec
INVARIANTS MemoryTypeOK CopyCorrect BufferFits
PROPERTIES RequestServed
CHECK_DEADLOCK FALSE
