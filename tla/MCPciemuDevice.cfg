SPECIFICATION DeviceSpec
CONSTANTS
  MSI_MAX = 1
  MSIX_MAX = 2
  MSI_END = 0
  MSIX_END = 1
  Val = {0, 1, 2, 3}
  AREA_START = 1
  AREA_SIZE = 1
  MASK = 4
  Ram = {0, 1}
  SelfBar <- MCNoSelfBar
  Garbage = {0}
  ALL_ONES = 3
  Inputs <- MCInterrupts
  Modes <- MCAllModes
  CanFail = TRUE
  MaxPlugs = 3
INVARIANTS DeviceInv AssertedLineIsAckable BackendsConserved LineEndsWithBackend
PROPERTIES EndIsSignalled
