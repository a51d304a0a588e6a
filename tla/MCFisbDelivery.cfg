\* Payloads with the code's own lengths; products over up to two payloads.
SPECIFICATION DeliverySpec
CONSTANTS
    None = None
    Error = Error
    Apdus <- MCApdus
    BareFrames <- MCBareFrames
    Areas <- MCAreas
    Works <- MCWorks
    MaxFrames = 3
    MaxMixed = 2
CHECK_DEADLOCK FALSE
INVARIANTS
    PackedFramesAreRead
    ApdusSurvive
    WhatIsReadRepacks
    ProductsArrive
    RecordsArePackedWhole
    ProductsRelay
    EmptyBlocksInRow
