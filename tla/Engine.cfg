\* Each part comes to its end.
CHECK_DEADLOCK FALSE
SPECIFICATION MCSpec
CONSTANTS
    N = 5
    MaxWorkers = 3
    PixelOf <- MCPixelOf
    CancelStride = 2
    ReportStride = 2
    MaxThrows = 1
    Thread = {"t1", "t2"}
    Address = {"a1", "a2"}
    Part = 2
    MaxSnapshots = 2
    MaxFailures = 1
    Suffix = {"a", "b", "mesh"}
    Outside = "out"
    Presets <- MCPresets
    MeshPath <- MCMeshPath
    MaxTiles = 2
    MaxBundles = 2
    Charts = 4
    Labellings <- MCLabellings
    Borders <- MCBorders
INVARIANTS
    PassIsWhole ProgressNeverDecreases EndsPromptly
    HierarchySound PipelineSound FlowOptimal MapsAsWhole BundleTrue MergeRight
    LimitKept
PROPERTIES WorkEnds ImplementsChannel FramesArrive
