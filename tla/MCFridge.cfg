SPECIFICATION Spec
CONSTANTS
  Devices <- FridgeOnly
  Scenarios <- FridgeScenario
  Tick = 60
  Horizon = 600
  Cfg <- ShortCfg
  Clock <- SomeClock
  Allowlist <- KnownOnly
  Batches <- FridgeBatches
  RuleTemplates <- FridgeRules
  WaitSeconds <- HouseholdWaits
  WaitFilters <- GoodsFilters
  MaxInstalls = 0
  NoRule = NoRule
PROPERTIES
  AlarmInEachOpening
