SPECIFICATION FairSpec
CONSTANTS
    Clusters = {c1, a1}
    Events = {v1}
    Always = {a1}
    Nodes = {n1, n2, n3}
    Self = n1
    NoNode = NoNode
    MaxElections = 3
INVARIANTS FirstNoticeTrue TrueNeverBlocks
PROPERTIES ElectedIsHeard
CHECK_DEADLOCK FALSE
