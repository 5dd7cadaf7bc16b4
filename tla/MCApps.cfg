\* A buffer as tight as it can be, histories that wrap, lines longer than what
\* is copied of them, a tree deeper and wider than what is searched, a folder that can be
\* removed while it is shown.
CONSTANTS
    MaxNodes = 4
    PartsCap = 2
    Kinds = {"editor", "files", "reader", "terminal", "browser", "calc", "cal"}
    MaxOthers = 1
    OtherPaths <- MCOtherPaths
    OtherTexts <- MCOtherTexts
    Limit = 2
    BufSize = 3
    Typed <- MCTyped
    EditCut = 1
    MaxSel = 2
    MaxCounter = 1
    ScreenCap = 4
    HistCap = 2
    HistLine = 2
    MaxInput = 3
    Words <- MCWords
    Inputs <- MCInputs
    MaxAddr = 2
    Letters = {"h", "a"}
    Links <- MCLinks
    MaxExpr = 5
    Samples <- MCSamples
    Buttons = {"1", "-", "+", "/", "^", "(", ")"}
    GrepCut = 2
    GrepHits = 1
    HeadCut = 3
    Months <- MCMonths
    Years <- MCYears
    ClockMonths = {12}
    ClockYears = {19, 99}
    DuDepth = 1
    TreeDepth = 1
    TreeWidth = 2
    FindDepth = 1
SPECIFICATION Spec
INVARIANTS
    TypeOK
    LinesAgree
    EditorShows
    WalksAgree
    CalcParses
    MonthsRunOn
PROPERTIES
    Histories
    ChangesAreLocal
