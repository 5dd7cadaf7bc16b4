\* Rings that wrap, a transmit ring whose tail meets its head.
CONSTANTS
    NRX = 3
    NTX = 3
    MaxFrames = 5
    MaxSends = 4
SPECIFICATION Spec
INVARIANTS
    TypeOK
    TxSound
PROPERTIES
    RxIsFifo
    FramesRead
