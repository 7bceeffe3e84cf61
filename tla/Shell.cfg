\* When all awaiters have their answer nothing is left to do.
CHECK_DEADLOCK FALSE
SPECIFICATION MCSpec
CONSTANTS
  Tasks = {t1, t2, t3}
  Hosts = {h1}
  Full = 2
  Files = {1}
  MaxRuns = 2
  MaxReports = 2
  Unsettled = Unsettled
INVARIANTS OneRun ProgressInOrder ShellSound
PROPERTIES ImplementsPromise OperationsEnd
