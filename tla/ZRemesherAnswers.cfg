\* When all awaiters have their answer nothing is left to do.
CHECK_DEADLOCK FALSE
SPECIFICATION Spec
CONSTANTS
  Tasks = {t1, t2}
  Full = 2
  MaxReports = 1
INVARIANT SameAnswer
