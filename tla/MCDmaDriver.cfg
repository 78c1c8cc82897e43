SPECIFICATION Spec
CONSTANTS
  MSI_MAX = 1
  MSIX_MAX = 1
  MSI_END = 0
  MSIX_END = 0
  Val = {0, 1, 2, 3}
  AREA_START = 3
  AREA_SIZE = 1
  MASK = 4
  Ram = {1, 2}
  SelfBar <- MCNoSelfBar
  Garbage = {0}
  ALL_ONES = 3
  Inputs <- MCInputs
  Modes <- MCModes
  Threads = {t1, t2}
  Pages = {1, 2}
  UserInit <- MCUserInit
  CanFail = TRUE
  MaxOps = 2
INVARIANTS IndInv DescriptorIsHolders DeviceTouchesOnlyMapped TransferInsideArea
           WokenAfterTransfer PinsConserved
PROPERTIES RegsOnlyByMmap ImplementsDmaCall IoctlReturns
