SPECIFICATION FairSpec
CONSTANTS
    Endpoints = {e1}
    Receivers = {r1}
    Observers = {o1}
    Getters = {g1, g2}
    NoType = NoType
    Nobody = Nobody
    MaxMaps = 3
    MaxEvents = 2
PROPERTIES RemovedIsReaped MutexesReleased
CHECK_DEADLOCK FALSE
