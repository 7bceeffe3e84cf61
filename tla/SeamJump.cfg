SPECIFICATION Spec
CONSTANTS
    Mesh <- SeamMesh
    EdgeCost <- SeamCost
    Least <- SeamLeast
    Far <- FarAway
    MaxWaypoints = 5
    MaxCommits = 0
INVARIANTS NoBogusJump
