SPECIFICATION MCSpec
CONSTANTS
    MaxCycles = 2
    MaxLines = 1
    ScanMayFail = TRUE
    c1 = c1
    c2 = c2
    Containers = {c1, c2}
    Excluded = {c2}
    MaxChanges = 3
    MaxFaults = 1
    p1 = p1
    s1 = s1
    w1 = w1
    Pods = {p1}
    Services = {s1}
    Workloads = {w1}
    Owner <- MCOwner
    MaxEvents = 2
    MaxBreaks = 1
    Databases = {d1, d2, d3}
    Matched = {d1, d2}
    Unusable = {d2}
    Enabled = {"server", "statements", "replication"}
    Aurora = TRUE
    MaxServerEvents = 4
    n1 = n1
    e1 = e1
    EsNodes = {n1, n2}
    EsNames = {e1, e2}
    Unset = Unset
    Configured = Unset
    IndexStats = FALSE
    MasterOnly <- MCMasterOnly
    MaxEsEvents = 2
INVARIANTS
    NothingCutOff
    TagsComplete
    NothingAfterShutdown
    DimensionsPaired
PROPERTIES
    StopReturns
    MonitorConverges
    CacheConverges DatabasesConverge
CHECK_DEADLOCK FALSE
