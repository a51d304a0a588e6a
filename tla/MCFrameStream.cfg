\* Streams of at most 7 bytes over five byte values.
SPECIFICATION Spec
CONSTANTS
    Crc <- MCCrc
    Bytes <- MCBytes
    MaxStream = 7
    Messages <- MCMessages
INVARIANTS
    ResultsAreTheFrames
    AcceptedFramesAreEncodings
    OneShotAgrees
