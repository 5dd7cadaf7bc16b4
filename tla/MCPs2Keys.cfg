SPECIFICATION Spec
CONSTANTS
    Early = {"key"}
    Blinks = 0
PROPERTY KeysArrive
CHECK_DEADLOCK FALSE
