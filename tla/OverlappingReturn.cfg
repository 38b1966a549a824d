SPECIFICATION Spec
CONSTANTS
    App = {a1, a2}
    NoPid = NoPid
    Concurrent = TRUE
    ForkFails = FALSE
    Spurious = FALSE
    Refusals = FALSE
    Deaths = FALSE
INVARIANTS ZeroMeansTraced
CHECK_DEADLOCK FALSE
