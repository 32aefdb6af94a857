CONSTANTS
  SlotCount = 1
  MaxEpoch = 1
  MaxCreated = 1
  None = None
  BaseRoot = BaseRoot
  NewRoot = NewRoot
  Cpus = {c1}
  BootCpu = c1
  UserOps = {"fault"}
  KernelOps = {"create"}
SPECIFICATION Spec
INVARIANT KernelStackRestored
