SPECIFICATION Spec
CONSTANTS
  CapSets <- MCCapSets
INVARIANTS AckReachesDevice
