\* Three datagrams written one by one or two at once, any write stopping anywhere.
SPECIFICATION FileSpec
CONSTANTS
    Datagrams <- MCDatagrams
    Undelayed = Undelayed
    Digits <- MCDigits
    Hex <- MCHex
    Decimal <- MCDecimal
    MaxRecords = 3
    MaxRewrite = 2
    MaxOld = 1
INVARIANTS
    SessionsReadBack
    DamageIsLocal
    RefusedOrComplete
CHECK_DEADLOCK FALSE
