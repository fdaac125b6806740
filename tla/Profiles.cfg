SPECIFICATION DirectoriesSpec
CONSTANTS
  c1 = c1
  c2 = c2
  n1 = n1
  n2 = n2
  h1 = h1
  h2 = h2
  Clients = {c1, c2}
  Pages = {1}
  Names = {n1, n2}
  Sent <- SomeSent
  TrimSpace <- SomeWords
  Handlers = {h1, h2}
  Paths <- SomePaths
  Lists <- SomeLists
  Trees <- SomeTrees
  Runs = {1, 2}
  ProfileOf <- SomeProfiles
  HostsOf <- SomeHosts
  MaxClock = 1
INVARIANTS
  ProfilesInv
  ManagedFilesInv
  ArtifactsInv
CHECK_DEADLOCK FALSE
SYMMETRY Interchangeable
