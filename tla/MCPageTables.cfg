CONSTANTS
  KernelRoot = KernelRoot
  KernelTable = KernelTable
  KernelPage = KernelPage
  Zero = Zero
  Devices = {}
  FreeAtBoot = {f1, f2, f3}
  AllFrames <- MCFrames
  Ram <- MCRam
  BootFrames <- MCBootFrames
  FrameZero = Zero
  None = None
  Base = Base
  Mappings = {Base, Child}
  RootLevel = 1
  EntryCount = 3
  Pages <- MCPages
  UserEntries = {0}
  BootRoot = KernelRoot
  BootTables <- MCBootTables
  Rights = {{"USER"}, {"USER", "WRITABLE"}, {}}
  CachedPages <- MCPageCached
  DuplicateMayFail = FALSE
  Remaps = {}
SYMMETRY MCSymmetry
SPECIFICATION Spec
VIEW MCView
INVARIANTS ReferencesAreExact TlbIsCurrent
PROPERTIES MappingsAreIndependent DuplicateIsFaithful
