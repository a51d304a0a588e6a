\* Violated: a report that decodes and whose inspection unwinds.
SPECIFICATION Spec
CONSTANTS
    None = None
    Error = Error
    Panic = Panic
    ApplicationDataLen = 2
    Messages <- MCMessages
    Overreaching <- MCOverreaching
    Foreign <- MCForeign
    Fleet <- MCFleet
    Noise <- MCNoise
    MaxHops = 2
CHECK_DEADLOCK FALSE
INVARIANT InspectionsAnswer
