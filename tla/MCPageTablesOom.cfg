CONSTANTS
  KernelRoot = KernelRoot
  KernelTable = KernelTable
  KernelPage = KernelPage
  Zero = Zero
  Devices = {device}
  FreeAtBoot = {f1, f2}
  AllFrames <- MCFrames
  Ram <- MCRam
  BootFrames <- MCBootFrames
  FrameZero = Zero
  None = None
  Base = Base
  Mappings = {Base, Child}
  RootLevel = 1
  EntryCount = 3
  Pages <- MCPagesHuge
  UserEntries = {0}
  BootRoot = KernelRoot
  BootTables <- MCBootTables
  Rights = {{"USER"}, {"USER", "WRITABLE"}, {}}
  CachedPages = {}
  DuplicateMayFail = TRUE
  Remaps = {"narrow"}
SYMMETRY MCSymmetry
SPECIFICATION Spec
VIEW MCView
INVARIANTS MemoryIsSafe RightsAreEffective
