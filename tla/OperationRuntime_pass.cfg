CONSTANTS
    MaxActiveInstances = 3
    MaxTreeDepth = 2
    IdModulus = 4
    Activity = {Motion, Update}
    Idle = Idle
SPECIFICATION FairSpec
INVARIANTS
    OwnershipTree
    DeferredHasDescendants
PROPERTIES
    ChildOutcomeSeen
    DeferredOutcomeFixed
    ReportedOnce
    StopCascades
    ImplementsSlot
    StoppingDrains
