\* A box selection or a node click while a layout or an alignment runs,
\* with the navbar disabled meanwhile.
CONSTANTS
    Nodes <- MCNodes
    DiffMode = FALSE
    MaxPromises = 2
    NavbarWhileRunning = FALSE
SPECIFICATION Spec
INVARIANTS
    AtMostOneRunning
