\* A connection dragged from an open endpoint is dropped on another node.
CONSTANTS
    a = a
    b = b
    c = c
    m1 = m1
    m2 = m2
    NodeIds = {a, b, c, m1}
    InitialIds <- MCInitialIds
    MitigationIds = {m1}
    MaxObj = 2
    RandomSuffixCollides = FALSE
    CapNodes = {b}
    MaxRels = 1
    InitialRels <- MCNoRels
    YamlMode = FALSE

SPECIFICATION ConnSpec

INVARIANT EndpointDropSavesRelationship
