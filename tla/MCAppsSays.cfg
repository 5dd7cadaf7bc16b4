\* One row that is selected by a click, and no +File.
CONSTANTS
    MaxNodes = 4
    PartsCap = 2
    Kinds = {"files"}
    MaxOthers = 1
    OtherPaths <- MCOtherPaths
    OtherTexts <- MCOtherTexts
    Limit = 2
    BufSize = 3
    Typed <- MCTyped
    EditCut = 1
    MaxSel = 0
    MaxCounter = 0
    ScreenCap = 4
    HistCap = 2
    HistLine = 2
    MaxInput = 3
    Words <- MCWords
    Inputs <- MCInputs
    MaxAddr = 2
    Letters = {"h", "a"}
    Links <- MCLinks
    MaxExpr = 2
    Samples <- MCSamples
    Buttons = {"1", "-"}
    GrepCut = 2
    GrepHits = 1
    HeadCut = 3
    Months <- MCMonths
    Years <- MCYears
    ClockMonths = {12}
    ClockYears = {19, 99}
    DuDepth = 1
    TreeDepth = 1
    TreeWidth = 2
    FindDepth = 1
SPECIFICATION Spec
PROPERTIES
    MessagesAreTrue
