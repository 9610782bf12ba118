SPECIFICATION Spec
CONSTANTS
    Clusters = {c1}
    Events = {v1}
    Always = {}
    Nodes = {n1, n2, n3}
    Self = n1
    NoNode = NoNode
    MaxElections = 3
INVARIANTS NoticesAlternate
CHECK_DEADLOCK FALSE
