SPECIFICATION FairHostingSpec
CONSTANTS
  None = None
  Torn = Torn
  Instances = {i1}
  Pids = {p1}
  Stops = {}
  MaxCrashes = 0
  MaxRequests = 1
PROPERTY
  GrantedEnds
CHECK_DEADLOCK FALSE
