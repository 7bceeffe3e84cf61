\* A library may be called no more: the bound on calls ends a run.
CHECK_DEADLOCK FALSE
SPECIFICATION Spec
CONSTANTS
  Seeds <- SquareMesh
  FaceSizes = {3}
  HoleLimit = 4
  None = None

PROPERTY TagsSurviveCollapse
