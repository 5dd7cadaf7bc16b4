\* Three nodes beside the root: enough for a folder, a file in it and a file
\* that shadows the folder; a depth of two exceeds the one name fs_cwd_str holds.
CONSTANTS
    MaxNodes = 4
    PartsCap = 1
    Paths <- MCPaths
    Texts <- MCTexts
    MaxText = 1
SPECIFICATION Spec
INVARIANTS
    TypeOK
    TreeLinks
    Connected
    CwdIsLive
    CountIsExact
    FitsBuffer
    CpCopies
PROPERTIES
