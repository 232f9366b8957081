CONSTANTS
    TDeg = 1
    Grace = 1
    Reconciled = TRUE
    MaxStep = 1
SPECIFICATION ClaimSpec
INVARIANTS
    StopsAccepted
