SPECIFICATION Spec
CONSTANTS
    App = {a1, a2, a3}
    NoPid = NoPid
    Concurrent = TRUE
    ForkFails = TRUE
    Spurious = TRUE
    Refusals = TRUE
    Deaths = TRUE
PROPERTIES AttachInProgress
CHECK_DEADLOCK FALSE
