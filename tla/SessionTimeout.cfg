SPECIFICATION Spec
CONSTANTS
    Client = {c1, c2}
    Mesh = {m1, m2}
    Action = {a1}
    Ops <- MarkerOps
    NoMesh = NoMesh
    MaxRevision = 2
    MaxPress = 0
    MaxTimeout = 1
SYMMETRY Symmetry
INVARIANTS ReplyAnswersRequest
