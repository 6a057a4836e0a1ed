CONSTANTS
    Procs = {p1, p2, p3}
    MaxStored = 1
    Timeouts = TRUE
SPECIFICATION Spec
INVARIANTS Exclusive NodeIsBacked
PROPERTY BusyMeansBusy
CONSTRAINT CountBound
SYMMETRY ProcSymmetry
CHECK_DEADLOCK FALSE
