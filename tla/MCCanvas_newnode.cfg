\* Violation run: NewNodeDragTargetsNewNode.
CONSTANTS
    a = a
    b = b
    c = c
    m1 = m1
    m2 = m2
    NodeIds = {a, b, c, m1}
    InitialIds <- MCInitialIds
    MitigationIds = {m1}
    MaxObj = 3
    RandomSuffixCollides = FALSE
    CapNodes = {b}
    MaxRels = 0
    InitialRels <- MCNoRels
    YamlMode = FALSE

SPECIFICATION NodeSpec

INVARIANT NewNodeDragTargetsNewNode
