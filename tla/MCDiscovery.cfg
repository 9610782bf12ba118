SPECIFICATION FairSpec
CONSTANTS
    Observers = {o1}
    NoObserver = NoObserver
    Metrics = {m1, m2}
    Statements = {}
    LogEndpoints = "yes"
    EmbedReceiverConfig = "yes"
    o1 = o1
    o2 = o2
    m1 = m1
    m2 = m2
INVARIANTS FirstOnlyOnce
PROPERTY ShutdownReturns
PROPERTY RecordsReceived
CHECK_DEADLOCK FALSE
