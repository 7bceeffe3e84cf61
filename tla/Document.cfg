\* The bounds on commands and calls end a run.
CHECK_DEADLOCK FALSE
SPECIFICATION MCSpec
CONSTANTS
    Mesh = {1, 2, 4}
    Torn = 0
    Size <- MCSize
    Budgets = {0, 5, 9}
    MaxCommands = 4
    MaxFailures = 0
    None = None
INVARIANTS HistoryChains CleanMeansSaved JournalAccounts FailingAccounts StructureSound CopiesTrue
PROPERTIES DropsOnlyOverBudget ImplementsTimeline
    OperatorsKeepToTheirOwn ImplementsPolygons SeamPathSound
