\* The device of the OpenCL backend.
SPECIFICATION Spec
CONSTANTS
    Thread = {t1, t2}
    Address = {a1, a2}
    Part = 2
    Atomic = FALSE
    MaxSnapshots = 2
    MaxFailures = 1
INVARIANT AnsweredFromOwnSnapshot
CHECK_DEADLOCK FALSE
