SPECIFICATION StatSpec
CONSTANTS
  StatCpus = {1, 2}
  Layouts <- SomeLayouts
  StatPageSize = 4
  MinSize = 1
  FixedSizeCount = 2
  StatPages = 2
  MaxAllocations = 4
  MaxLoads = 1
INVARIANT LoadedInfoIsValid
CHECK_DEADLOCK FALSE
