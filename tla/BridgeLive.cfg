SPECIFICATION BridgeLiveSpec
CONSTANTS
    Handler = {h1, h2}
    Fd = {0, 1, 2, 3, 4}
    NoThread = NoThread
    MaxConn = 2
    MaxOther = 0
    MaxBacklog = 1
    Client = {c1, c2}
    Mesh = {m1}
    Action = {a1}
    NoMesh = NoMesh
PROPERTIES StopTerminates HungUpIsReaped RequestsAnswered
\* A destroyed server, with no other activity in the process, has stopped.
CHECK_DEADLOCK FALSE
