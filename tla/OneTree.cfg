SPECIFICATION Spec
CONSTANTS
    Proc = {p1, p2}
    Roots = {p1}
    NoProc = NoProc
    Sys = {"enter", "both", "execve", "traceme", "fork", "install", "exit"}
    KernelSeccomp = {TRUE, FALSE}
INVARIANTS TypeOK IInv StageAgrees NeverUnseen BothStagesSeen PtraceeStopsAtEachCall
CHECK_DEADLOCK FALSE
