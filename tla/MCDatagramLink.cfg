\* Two messages, six foreign datagrams, nine buffer sizes.
SPECIFICATION Spec
CONSTANTS
    Crc <- MCCrc
    Messages <- MCMessages
    Unreadable <- MCUnreadable
    Foreign <- MCForeign
    MaxBatch = 2
    MaxHeld = 4
    Sizes <- MCSizes
INVARIANTS
    WholeDatagramsDecode
    HeldOverCostsOneMessage
    AFlagSettles
    RecordingAgrees
    NothingInvented
