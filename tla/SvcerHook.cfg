SPECIFICATION HookerSpec
CONSTANTS
    Word = 4
    Thread = {t1, t2}
    TypeOrder <- MCTypeOrder
    Behaviour <- MCBehaviour
    Worlds <- MCWorlds
SYMMETRY Symmetry
INVARIANTS HookerTypeOK FilterExact NoReentry HookIntact FreedOnlyIfCareless KernelAskedOnce HookHidden
CHECK_DEADLOCK FALSE
