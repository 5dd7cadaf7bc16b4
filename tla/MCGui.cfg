\* Three slots, so that the desktop can be full with one window above and one
\* below another, and animations of one tick.
CONSTANTS
    MaxW = 3
    AnimTicks = 1
SPECIFICATION Spec
INVARIANTS
    TypeOK
    ZOrder
    OneFocus
    PrivWhileOpen
    DragIsGrab
PROPERTIES
    AnimationsEnd
