SPECIFICATION FairStream
CONSTANTS
  None = None
  p1 = p1
  Jobs = {j1, j2}
  Projects <- MCProjects
  Requests <- OneRequest
  Sizes = {1}
  Pages = {c1}
  Buffer = 1
  MaxNoise = 1
INVARIANT
  StreamInv
PROPERTY
  PageEnds
CHECK_DEADLOCK FALSE
