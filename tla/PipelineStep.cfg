SPECIFICATION FairStep
CONSTANTS
  writer = writer
  background = background
  h1 = h1
  h2 = h2
  p1 = p1
  Kids = {writer, background}
  Holding = {writer}
  Grouped = {writer, background}
  Hosts = {h1, h2}
  Paths = {p1}
  RuleLists <- SomeRuleLists
  Targets = {"push", "pull"}
  Chunks = 2
  NoEntry = NoEntry
INVARIANTS
  CommandInv
  RemoteInv
  FilesInv
PROPERTIES
  ExpiredEnds
  RemoteEnds
CHECK_DEADLOCK FALSE
