CONSTANTS
    MaxNodes = 4
    PartsCap = 4
    Paths <- MCPaths
    Texts <- MCTexts
    MaxText = 1
SPECIFICATION Spec
INVARIANTS
    CdArrives
