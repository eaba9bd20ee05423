\* The pure operators of the service and the canvas on every bounded input.
SPECIFICATION Spec
INVARIANT RelationshipEndsResolveToOwners
INVARIANT QueryNamesTechnologies
INVARIANT DeletedNodesExactIffNoAdjacentDrops
