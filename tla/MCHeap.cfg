\* 84 bytes: at most four blocks of 8, or mixes of 8, 16 and 24.
CONSTANTS
    HeapSize = 84
    Requests <- MCRequests
    Values = {v1, v2}
    Zero = zero
SPECIFICATION Spec
INVARIANTS
    TypeOK
    Tiled
    HeldAreLive
    FreeAreZero
    NoByteLost
PROPERTIES
    BlocksStay
    IsAllocator
