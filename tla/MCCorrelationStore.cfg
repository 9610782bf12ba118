\* Two observers report one endpoint while two goroutines look up one receiver.
SPECIFICATION Spec
CONSTANTS
    Endpoints = {e1}
    Receivers = {r1}
    Observers = {o1, o2}
    Getters = {g1, g2}
    NoType = NoType
    Nobody = Nobody
    MaxMaps = 3
    MaxEvents = 2
SYMMETRY Symmetry
INVARIANTS LastEventKept
PROPERTIES CorrelationStoredOnce ImplementsRegistry
