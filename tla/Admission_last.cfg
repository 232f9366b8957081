SPECIFICATION Spec
CONSTANTS
    ControlCapacity = 1
    ControlReserve = 1
    DepthPerPrincipal = 2
    MaxPrincipals = 2
    MaxActiveInstances = 2
    MaxTreeDepth = 1
    IdModulus = 5
    Authority = {2}
    GrantedRoles = {"control"}
    Types <- MCTypes
    Frames <- LastFrames
    Gates <- MCGates
    MaxEpoch = 2
INVARIANT AtMostOnce
CHECK_DEADLOCK FALSE
