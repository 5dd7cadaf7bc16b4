CONSTANTS
    MaxNodes = 3
    PartsCap = 1
    Paths <- MCPaths
    Texts <- MCTexts
    MaxText = 1
SPECIFICATION Spec
INVARIANTS
    MvKeepsText
