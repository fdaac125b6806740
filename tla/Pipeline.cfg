SPECIFICATION AnsweringSpec
CONSTANTS
  h1 = h1
  h2 = h2
  Hosts = {h1, h2}
  HasPassword = {h1, h2}
  HasIP = {h1}
  HasEIP = {h1, h2}
  UseIPs = {"internal", "eip", "internal-then-eip"}
  Modes = {"run", "check"}
  Pipelines <- AllPipelines
  MaxSteps = 3
INVARIANTS
  SkipInv
  OnceInv
  ResultsInv
PROPERTIES
  EveryHostEnds
  ImplementsExecList
CHECK_DEADLOCK FALSE
