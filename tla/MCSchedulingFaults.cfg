CONSTANTS
  SlotCount = 2
  MaxEpoch = 3
  MaxCreated = 3
  None = None
  BaseRoot = BaseRoot
  NewRoot = NewRoot
  Cpus = {c1, c2, c3}
  BootCpu = c1
  UserOps = {"exit", "log_value", "sched_yield", "log_value_at_end", "unknown", "breakpoint", "fault"}
  KernelOps = {"create"}
SPECIFICATION Spec
SYMMETRY Symmetry
INVARIANTS NobodyWaitsInACircle NoPanic EachProcessIsInOnePlace ProcessesAreProtected UserModeIsClean
\* A panic stops its CPU, and a leaked process lock stops everybody.
CHECK_DEADLOCK FALSE
