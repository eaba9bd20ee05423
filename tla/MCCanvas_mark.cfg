\* The topology loaded with two nodes and two relationships between them:
\* palette drops and a mitigation, clicks on nodes and on drawn connections,
\* selections, and the Del key.
CONSTANTS
    a = a
    b = b
    c = c
    m1 = m1
    m2 = m2
    NodeIds = {a, b, m1}
    InitialIds <- MCInitialIds
    MitigationIds = {m1}
    MaxObj = 3
    RandomSuffixCollides = FALSE
    CapNodes = {b}
    MaxRels = 2
    InitialRels <- MCInitialRels2
    YamlMode = FALSE

SPECIFICATION MarkSpec

INVARIANT LocalMirrorsStore
INVARIANT SelectionRefersToDisplayedNodes

PROPERTY DeleteRemovesOnlyShownSelection
PROPERTY CanvasRefinement
