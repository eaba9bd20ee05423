\* Drag sources, connection listeners and relationships next to node sync
\* and the delete key, with one capability-bearing node.
CONSTANTS
    a = a
    b = b
    c = c
    m1 = m1
    m2 = m2
    NodeIds = {a, b}
    InitialIds <- MCInitialIds
    MitigationIds = {}
    MaxObj = 2
    RandomSuffixCollides = FALSE
    CapNodes = {b}
    MaxRels = 2
    InitialRels <- MCNoRels
    YamlMode = FALSE

SPECIFICATION ConnSpec

INVARIANT TypeOK
INVARIANT RelationshipsReferenceStoredNodes
INVARIANT ActiveDragSourceIsSource
INVARIANT PaintedRelationshipsAreStored

PROPERTY CanvasRefinement
PROPERTY StoredRelationshipsGetPainted
