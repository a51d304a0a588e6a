\* The same writes against the documented format.
SPECIFICATION FileSpec
CONSTANTS
    Datagrams <- MCDatagrams
    Undelayed = Undelayed
    Digits <- MCDigits
    Hex <- MCHex
    Decimal <- MCDecimal
    MaxRecords = 3
    MaxRewrite = 2
    MaxOld = 1
INVARIANTS
    EveryDatagramIsStored
CHECK_DEADLOCK FALSE
