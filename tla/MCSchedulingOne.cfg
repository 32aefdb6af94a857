CONSTANTS
  SlotCount = 2
  MaxEpoch = 3
  MaxCreated = 3
  None = None
  BaseRoot = BaseRoot
  NewRoot = NewRoot
  Cpus = {c1}
  BootCpu = c1
  UserOps = {"exit", "log_value", "sched_yield", "breakpoint"}
  KernelOps = {"create", "free"}
SPECIFICATION FairSpec
INVARIANTS LoadedRootIsLive
PROPERTIES QueuedProcessRuns KernelEntryCompletes
