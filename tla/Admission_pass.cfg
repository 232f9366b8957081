SPECIFICATION Spec
CONSTANTS
    ControlCapacity = 1
    ControlReserve = 1
    DepthPerPrincipal = 2
    MaxPrincipals = 2
    MaxActiveInstances = 2
    MaxTreeDepth = 1
    IdModulus = 4
    Authority = {1}
    GrantedRoles = {"control"}
    Types <- MCTypes
    Frames <- MCFrames
    Gates <- MCGates
    MaxEpoch = 2
INVARIANTS TypeOK AtMostOnce DecisionTrue
PROPERTIES ImplementsDecisions StopServed
CHECK_DEADLOCK FALSE
