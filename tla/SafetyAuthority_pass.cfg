CONSTANTS
    TDeg = 8
    Grace = 3
    Reconciled = TRUE
    MaxStep = 3
SPECIFICATION FairSpec
INVARIANTS
    FaultHoldsStop
    CanErrorForces
    MarkerBlocks
    SensingLossFaults
PROPERTIES
    NoEarlyTimeout
    FaultLatched
    SensingLossStops
    Recovers
