\* Editing the properties of the selected policy after it was removed.
CONSTANTS
    Names = {"p", "q"}
    Vals = {"v1", "v2"}
    DefaultVal = "v1"
    TypeDefinesProperty = TRUE
    InitialNames <- MCInitialNames
    MaxPol = 3

SPECIFICATION Spec

PROPERTY EditsReachTopology
