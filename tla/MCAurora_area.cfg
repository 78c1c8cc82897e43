SPECIFICATION DevSpec
CONSTANTS
  MSI_MAX = 1
  MSIX_MAX = 2
  MSI_END = 0
  MSIX_END = 1
  Val = {0, 1, 2, 3}
  AREA_START = 1
  AREA_SIZE = 1
  MASK = 4
  Ram = {0, 1}
  SelfBar <- MCSelfBar
  MCReg2 = "cmd"
  MCReg3 = "doorbell"
  Garbage = {0}
  ALL_ONES = 3
  Inputs <- MCDescriptors
  Modes <- MCMsixOnly
INVARIANTS TransferInsideArea
