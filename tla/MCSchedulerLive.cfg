SPECIFICATION FairSpec
CONSTANTS
    N = 3
    Fns = {f1, f2}
    Args = {a1}
    NULL = NULL
    PrioInputs = {}
    SleepInputs = {2}
    DtInputs = {1}
PROPERTIES RunLoopStarvesNobody SleepersWake
