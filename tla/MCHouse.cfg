SPECIFICATION Spec
CONSTANTS
  Devices <- HouseholdDevices
  Scenarios <- HouseholdScenarios
  Tick = 60
  Horizon = 480
  Cfg <- ShortCfg
  Clock <- SomeClock
  Allowlist <- KnownOnly
  Batches <- HouseholdBatches
  RuleTemplates <- HouseholdRules
  WaitSeconds <- HouseholdWaits
  WaitFilters <- HouseholdFilters
  MaxInstalls = 1
  NoRule = NoRule
INVARIANTS
  GarageSession
  TaskIffDevice
  TaskClock
  RuntimeIsTaskTime
  NoOverdueDevice
  SupplyMatchesOrder
