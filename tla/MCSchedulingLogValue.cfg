CONSTANTS
  SlotCount = 1
  MaxEpoch = 1
  MaxCreated = 1
  None = None
  BaseRoot = BaseRoot
  NewRoot = NewRoot
  Cpus = {c1}
  BootCpu = c1
  UserOps = {"log_value", "log_value_at_end"}
  KernelOps = {"create"}
SPECIFICATION Spec
INVARIANT CheckPermissionReturns
