SPECIFICATION FairSpec
CONSTANTS
    App = {a1}
    NoPid = NoPid
    Concurrent = FALSE
    ForkFails = FALSE
    Spurious = FALSE
    Refusals = FALSE
    Deaths = FALSE
PROPERTIES CallReturns
CHECK_DEADLOCK FALSE
