\* Debug and release builds; CHECK_DEADLOCK FALSE as all passes end.
SPECIFICATION ReportSpec
CONSTANTS
    Sessions <- MCSessions
    Kinds = {heartbeat, longReport}
    UatKinds = {longReport}
    Failed = Failed
    NoDelay = NoDelay
    DelayLimit = 16
INVARIANTS
    CountsAgree
    DelayIsTheSum
    ReportAgrees
CHECK_DEADLOCK FALSE
