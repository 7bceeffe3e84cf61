\* The bound on runs ends a behaviour.
CHECK_DEADLOCK FALSE
SPECIFICATION Spec
CONSTANTS
    Files = {1}
    MaxRuns = 1
    Full = 2
PROPERTY CancelKeepsDocument
