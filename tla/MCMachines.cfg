SPECIFICATION Spec
CONSTANTS
  FrameLimit = 5
  FrameCount = 4
  BootLen = 2
  Region <- MCRegion
  MaxOwners = 3
  EarlyReferences = FALSE
  None = None
  Columns = 4
  Rows = 3
  TabWidth = 3
  OctetSize = 4
  Texts <- SomeTexts
  Inks = {"gray", "red"}
  BootScreens <- SomeScreens
  BootCursors = {0, 3, 8, 11, 15}
  Positions = {0, 5, 11}
  MaxTextCalls = 3
  SecondsPerMinute = 2
  MaxUpdates = 3
  MaxTries = 2
  ApProcessors <- SomeProcessors
  PipeCapacity = 6
  EventSizes = {1, 3, 7}
  PlanBSize = 4
  PlanCSize = 3
  StatisticsSize = 2
  MalformedSize = 3
  MaxEvents = 4
  LockCpus = {1, 2}
  LockOrder <- TableThenText
  IrqLocks = {"text"}
  KnockDownLocks = {"text"}
  OnceValues = {1, 2, 3}
  DriveSectors <- TwoDrives
  DiskValues = {1}
  MaxCalls = 3
  TrapCpus = {0, 1}
  Exceptions = {3, 8, 13, 14}
  PicLines = {8}
  MaxTraps = 2
  MaxInterrupts = 1
  StatCpus = {1, 2}
  Layouts <- SomeLayouts
  StatPageSize = 4
  MinSize = 1
  FixedSizeCount = 2
  StatPages = 2
  MaxAllocations = 3
  MaxLoads = 1
  Cpus = {c1, c2}
  Nothing = Nothing
  Size = 3
  PageSize = 5
  SlabPageCount = 2
  SlabCount = 2
  ClipSize = 2
  BitsPerPage = 4
  FrameSupply = {0, 1, 2, 9}
SYMMETRY MCSymmetry
INVARIANTS BlocksAreUsable NullIsHonest StatisticsAreExact HeapIsReturned
INVARIANTS AllocatorIsSound ReadersSeeWhatWas ProcessorsStartApart LogAddsUp OnceIsSetOnce DiskIsHonest TrapsAreExact
PROPERTIES ImplementsGrants ConsoleIsATypewriter LocksAreSafe StatisticsAreHonest
\* Every machine may come to its end: bounds, a panic, a stopped processor.
CHECK_DEADLOCK FALSE
