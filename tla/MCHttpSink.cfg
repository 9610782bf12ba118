SPECIFICATION SinkFairSpec
CONSTANTS
    t1 = t1
    m1 = m1
    pa = pa
    pm = pm
    c1 = c1
    c2 = c2
    Exporters = {t1, m1}
    Payloads = {pa, pm}
    Clients = {c1, c2}
    Requests <- MCRequests
    ExpKind <- MCKind
    From <- MCFrom
    Content <- MCContent
INVARIANTS AnswerSound
PROPERTY SinkShutdownReturns
CHECK_DEADLOCK FALSE
