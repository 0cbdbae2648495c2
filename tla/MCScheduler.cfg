SPECIFICATION Spec
CONSTANTS
    N = 3
    Fns = {f1}
    Args = {a1, a2, a3}
    NULL = NULL
    PrioInputs = {1, 3}
    SleepInputs = {1}
    DtInputs = {1}
SYMMETRY Symmetry
INVARIANTS TypeOK TableConsistent RunsAllReadyUnlessMoved
