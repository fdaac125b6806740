SPECIFICATION FairSpec
CONSTANTS
  None = None
  p1 = p1
  p2 = p2
  Jobs = {j1, j2}
  Projects <- MCProjects
  Requests <- MCRequests
  Sizes = {1, 3}
INVARIANTS
  RunsAreApart
  VerdictMatchesError
PROPERTIES
  EveryRunFinishes
  ImplementsGate
CHECK_DEADLOCK FALSE
