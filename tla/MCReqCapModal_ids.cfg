\* Ids typed into the modals against the ids getAllIds collected.
CONSTANTS
    NodeOrder <- MCNodeOrder
    InitialReqs <- MCInitialReqs
    InitialCaps <- MCInitialCaps
    Rels <- MCRels
    TypedIds <- MCTypedIds
    MaxItems = 2
    LookupMayThrow = FALSE

SPECIFICATION Spec

INVARIANT UniqueIds
