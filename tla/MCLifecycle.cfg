SPECIFICATION Spec
CONSTANTS
  CapSets <- MCCapSets
INVARIANTS LifeInv NothingHeldUnbound BoundIsReady UnmapsOnlyMapped MessageFindsHandler
