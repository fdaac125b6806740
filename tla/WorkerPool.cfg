SPECIFICATION FairSpec
CONSTANTS
  NoHost = NoHost
  h1 = h1
  h2 = h2
  h3 = h3
  ip1 = ip1
  ip2 = ip2
  ip3 = ip3
  Hosts = {h1, h2, h3}
  Addresses = {ip1, ip2, ip3}
  Addr <- OwnAddr
  SSHWorkers = 2
INVARIANT
  PoolInv
PROPERTIES
  BatchReturns
  ImplementsBatch
CHECK_DEADLOCK FALSE
