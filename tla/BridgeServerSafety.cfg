SPECIFICATION BridgeSafeSpec
CONSTANTS
    Handler = {h1, h2, h3}
    Fd = {0, 1, 2, 3, 4, 5}
    NoThread = NoThread
    MaxConn = 2
    MaxOther = 1
    MaxBacklog = 1
    Client = {c1, c2}
    Mesh = {m1, m2}
    Action = {a1}
    NoMesh = NoMesh
SYMMETRY Symmetry
INVARIANTS
    StoppedOwnsNothing NobodyLeftParked NoStaleDescriptor IndInv
    PulledMarkerSound PushAnsweredAfterItself PressDeliveredOnce
PROPERTIES ForeignUntouched
\* A destroyed server, with no other activity in the process, has stopped.
CHECK_DEADLOCK FALSE
