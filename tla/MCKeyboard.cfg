\* A ring that holds two characters and one that holds one special key: both
\* fill, drop and wrap within four key events.
CONSTANTS
    CircSize = 3
    ExtSize = 2
    Keys = {"a", "lshift", "caps", "up", "f10"}
    MaxEvents = 4
SPECIFICATION Spec
INVARIANTS
    TypeOK
    InStep
PROPERTIES
    InOrder
    DropsOnlyWhenFull
    EverythingIsRead
