SPECIFICATION Spec
CONSTANTS
  None = None
  p1 = p1
  p2 = p2
  Jobs = {j1, j2}
  Projects <- MCProjects
  Requests <- MCRequests
  Sizes = {2}
INVARIANT PreselectionSafe
CHECK_DEADLOCK FALSE
