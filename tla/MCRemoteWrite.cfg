SPECIFICATION WriteSpec
CONSTANTS
    MaxRequests = 2
    BufferSize = 1
    MaxStarts = 2
CHECK_DEADLOCK FALSE
INVARIANTS
    CountsCover
PROPERTIES
    AcceptedPassedOn
    ShutdownEnds
