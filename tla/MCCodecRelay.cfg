\* Two gateways in a row; application data of two bytes.
SPECIFICATION Spec
CONSTANTS
    None = None
    Error = Error
    Panic = Panic
    ApplicationDataLen = 2
    Messages <- MCMessages
    Overreaching <- MCOverreaching
    Foreign <- MCForeign
    Fleet <- MCFleet
    Noise <- MCNoise
    MaxHops = 2
CHECK_DEADLOCK FALSE
INVARIANTS
    HeardAsSaid
    RelaysAgree
    DamagedLinesAreRefused
    AircraftAreSeen
