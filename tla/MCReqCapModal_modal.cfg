\* Every modal session on the two-node topology, with the type lookup succeeding.
CONSTANTS
    NodeOrder <- MCNodeOrder
    InitialReqs <- MCInitialReqs
    InitialCaps <- MCInitialCaps
    Rels <- MCRels
    TypedIds <- MCTypedIds
    MaxItems = 2
    LookupMayThrow = FALSE

SPECIFICATION Spec

INVARIANT TypeOK
PROPERTY SaveKeepsExistingItems
