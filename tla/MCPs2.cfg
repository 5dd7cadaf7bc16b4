SPECIFICATION Spec
CONSTANTS
    Early = {"move"}
    Blinks = 1
INVARIANT TypeOK
PROPERTIES NothingStuck Resynchronised
