SPECIFICATION CoreFairSpec
CONSTANTS
    MaxRuns = 3
    PipesMayFail = "yes"
INVARIANTS ServesConfigured
PROPERTIES ConfigureReturns ShutdownStops
CHECK_DEADLOCK FALSE
