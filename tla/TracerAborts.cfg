SPECIFICATION Spec
CONSTANTS
    Proc = {p1, p2}
    Roots = {p1}
    NoProc = NoProc
    Sys = {"fork"}
    KernelSeccomp = {TRUE}
INVARIANTS NobodyLeftUntraced
CHECK_DEADLOCK FALSE
