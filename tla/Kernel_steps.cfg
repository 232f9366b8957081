CONSTANTS
    sensing = sensing
    runtime = runtime
    sink = sink
    actuation = actuation
    Startup <- MCStartup
    Actuation = actuation
    Delay <- MCLongDelay
    Retry <- MCRetry
    MaxSteps = 5
    StepBudget = 3
    TxGate = 6
    MaxRun = 3
    MaxLate = 1
    MaxNext = 5
SPECIFICATION FairSpec
INVARIANTS
    StepsAlive
    ScheduledOnce
PROPERTIES
    EmissionStays
    StepsRun
    EmissionContinues
