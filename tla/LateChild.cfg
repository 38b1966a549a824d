SPECIFICATION Spec
CONSTANTS
    Proc = {p1, p2}
    Roots = {p1}
    NoProc = NoProc
    Sys = {"both", "fork", "install"}
    KernelSeccomp = {TRUE}
INVARIANTS StatusIsStage
CHECK_DEADLOCK FALSE
