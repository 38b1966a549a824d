SPECIFICATION Spec
CONSTANTS
    Proc = {p1, p2, p3}
    Roots = {p1}
    NoProc = {p1, p2, p3}
    Sys = {"enter", "both", "fork", "install"}
    KernelSeccomp = {TRUE}
SYMMETRY Symmetry
CONSTRAINT Generations
PROPERTIES ImplementsInterception
CHECK_DEADLOCK FALSE
