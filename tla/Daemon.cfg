SPECIFICATION FairHostingSpec
CONSTANTS
  None = None
  Torn = Torn
  Instances = {i1, i2}
  Pids = {p1, p2}
  Stops = {q1}
  MaxCrashes = 1
  MaxRequests = 2
INVARIANTS
  StopIsTrue
  PidFileInv
  ServiceInv
PROPERTIES
  EndsWhenAsked
  ServiceEnds
CHECK_DEADLOCK FALSE
