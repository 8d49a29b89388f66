SPECIFICATION FaultSpec
CONSTANTS
  Devices <- FaultDevices
  Scenarios <- FaultScenarios
  Tick = 60
  Horizon = 720
  Cfg <- ShortCfg
  Clock <- SomeClock
  Allowlist <- KnownOnly
  Batches <- FaultBatches
  RuleTemplates <- FaultRules
  WaitSeconds <- HouseholdWaits
  WaitFilters <- MachineFilters
  MaxInstalls = 1
  NoRule = NoRule
  FaultSchedules <- SomeSchedules
INVARIANTS
  TimerUnderFaults
PROPERTIES
  AppliedAvailable
  Transparent
