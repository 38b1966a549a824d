SPECIFICATION FairSpec
CONSTANTS
    App = {a1, a2, a3}
    NoPid = NoPid
    Concurrent = FALSE
    ForkFails = FALSE
    Spurious = TRUE
    Refusals = TRUE
    Deaths = TRUE
INVARIANTS TypeOK ReturnMeansTraced RootIsTarget
PROPERTIES WaiterIsWoken
CHECK_DEADLOCK FALSE
