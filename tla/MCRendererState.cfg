\* The editing canvas: renderer buttons, box selections and node clicks
\* with the layout and align promises and the 1 ms timers they leave.
CONSTANTS
    Nodes <- MCNodes
    DiffMode = FALSE
    MaxPromises = 2
    NavbarWhileRunning = TRUE
SPECIFICATION EditSpec
INVARIANT
    QuietMeansStored
PROPERTIES
    ButtonsEventuallyReset
