SPECIFICATION FairPreparationSpec
CONSTANTS
  e1 = e1
  e2 = e2
  e3 = e3
  n1 = n1
  b1 = b1
  ECS = {e1, e2, e3, n1}
  BMS = {b1}
  Kinds <- BothKinds
  Inventory <- Start
  PageSize = 2
  HTTPWorkers = 2
  MaxChanges = 1
  Configs <- SomeConfigs
  Configured <- SomeSettings
  Catalogs <- SomeCatalogs
  Everything = {"all"}
  NoID = "none"
  ListSize = 2
  Segments = 2
  Width = 1
  Texts <- SomeTexts
  Rules <- SomeRules
  Hosts <- SomeHosts
  MaxRules = 1
  Found <- SomeFound
  ProjectNames <- SomeResolved
  Gateways <- SomeGateways
INVARIANTS
  ConfigurationInv
  ProjectsInv
  InventoryInv
  RequestsInv
  FilterInv
  DetailsInv
PROPERTY
  PreparationEnds
CHECK_DEADLOCK FALSE
