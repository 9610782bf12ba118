SPECIFICATION MCSpec
CONSTANTS
    MaxString = 5
    MaxText = 4
    SortedKeys <- MCSortedKeys
    Inputs <- MCInputs
    r1 = r1
    r2 = r2
    o1 = o1
    o2 = o2
    Receivers <- MCReceivers
    Observers <- MCObservers
    NoObserver = NoObserver
    Rule <- MCRule
    Block <- MCBlock
    Default <- MCDefault
    Properties = {r2}
    Enabled <- MCReceivers
    MaxRecords = 2
    Arguments <- MCArguments
    Metrics = {"a", "b", "c"}
    Known = {"a", "b"}
    DefaultMetrics = {"b"}
    DimKeys = {"k", "l"}
    DimValues = {"v", "w"}
    MaxItems = 3
CHECK_DEADLOCK FALSE
INVARIANTS
    EscapeRestores
    WordifyInverts
    ConvertIdempotent
    KubeletSwitches
    ByPriority
    LeftOutNeverSent
    SuccessEmbedded
