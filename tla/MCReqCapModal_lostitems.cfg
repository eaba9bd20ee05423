\* Adding a requirement or capability when the type lookup throws.
CONSTANTS
    NodeOrder <- MCNodeOrder
    InitialReqs <- MCInitialReqs
    InitialCaps <- MCInitialCaps
    Rels <- MCRels
    TypedIds <- MCTypedIds
    MaxItems = 2
    LookupMayThrow = TRUE

SPECIFICATION Spec

PROPERTY SaveKeepsExistingItems
