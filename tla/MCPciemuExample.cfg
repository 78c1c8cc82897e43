SPECIFICATION ExSpec
CONSTANTS
  MSI_MAX = 1
  MSIX_MAX = 1
  MSI_END = 0
  MSIX_END = 0
  Val = {0, 1, 2, 3}
  AREA_START = 3
  AREA_SIZE = 1
  MASK = 4
  Ram = {1, 2}
  SelfBar <- MCNoSelfBar
  Garbage = {0}
  ALL_ONES = 3
  Inputs <- MCNoInputs
  Modes <- MCModes
  Threads = {t1}
  Pages = {1, 2}
  UserInit <- MCUserInit
  CanFail = FALSE
  MaxOps = 2
  A <- MCA
  B <- MCB
  RandVals = {1, 2}
  Args <- MCArgs
  DOM_WRAP = 1048576
  Devices <- MCDevices
  This <- MCThis
  PAGE_SIZE = 16
  INT_SIZE = 4
  Addrs <- MCAddrs
INVARIANTS LoneInv ValuesEqual OpensAskedForBelowTen SpansExact
PROPERTIES ProgramEnds
