SPECIFICATION Spec
CONSTANTS
  SlotCount = 3
  MaxEpoch = 2
  None = None
  Word = 256
  EntryCount = 8
  LevelCount = 2
  PageSize = 2
  PhysLimit = 80
  PortLimit = 16
  KernelEntries = 2
  MemoryFrames = {1, 2, 3, 4}
  Spaces = {"a", "b"}
  GuardPages = 4
  BlockSizes = {2, 4}
  BlockAligns = {2, 4}
  SliceLayouts <- TwoSlices
  FixedPages = {15, 25, 28}
  OwnFlags <- UserWritable
  BaseSpace = "a"
  PresentRoots = {0, 2}
  MaxHeld = 2
  MaxMisses = 1
  Src = "a"
  Dst = "b"
  Segments <- SomeSegments
  MaxSegments = 3
  ElfMisses = 1
  ElfPresentRoots = {0, 2}
  TssCount = 3
  StackPages = 3
  Distances <- AroundDistances
  EdgePages <- AroundPages
  EdgeBytes <- AroundBytes
  EdgeFrames = {0, 1, 7, 8, 9, 16, 17, 32, 33}
  StackSize = 12
  BitsPerEntry = 2
  MaxI64 = 31
  NsecsPerSec = 12
  OuterFrames <- DamagedFrames
  RegisterValues = 64
  PciRegions <- SomeRegions
INVARIANTS TableIsSound ElfIsExact AddressesAreExact TablesAreExact CheckedIsAccessible BacktraceEnds BitmapSearchIsExact DatetimeIsExact BarsAreDecoded
PROPERTIES ImplementsRegistry MappedBlocksAreSound
CHECK_DEADLOCK FALSE
