SPECIFICATION Spec
CONSTANTS
    Client = {c1, c2}
    Mesh = {m1, m2}
    Action = {a1}
    Ops <- MarkerOps
    NoMesh = NoMesh
    MaxRevision = 3
    MaxPress = 0
    MaxTimeout = 0
SYMMETRY Symmetry
INVARIANTS PushedMarkerSound
