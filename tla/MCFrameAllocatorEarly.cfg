CONSTANTS
  FrameLimit = 5
  FrameCount = 4
  BootLen = 2
  Region <- MCRegion
  MaxOwners = 3
  EarlyReferences = TRUE
  None = None
SPECIFICATION AllocatorSpec
INVARIANT CountsAreExact
