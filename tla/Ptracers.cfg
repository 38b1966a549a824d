SPECIFICATION Spec
CONSTANTS
    p1 = p1
    p2 = p2
    p3 = p3
    Proc = {p1, p2, p3}
    Initial = {p1, p2}
    NoProc = NoProc
    AnyPid = AnyPid
    Father <- MCFather
    Menus <- MCMenus
INVARIANTS TypeOK CountAgrees NoLostWakeup StagesKept
PROPERTIES ResumedByPtracer
CHECK_DEADLOCK FALSE
