\* Small calls under six budgets. A call that is over takes no further step.
SPECIFICATION Spec
CONSTANTS
    Configs <- MCConfigs
    Inputs <- MCInputs
    NoOverride = NoOverride
INVARIANTS
    TypeOK
    WithinBudget
    UsedIsTheTotal
    DroppedForWantOfRoom
    EveryCandidateCounts
    DocumentedOrder
CHECK_DEADLOCK FALSE
