SPECIFICATION Spec
CONSTANTS
  CapSets <- MCCapSets
INVARIANTS ProbeReportsFailure
