SPECIFICATION HarnessSpec
CONSTANTS
  Devices <- HouseDevices
  Scenarios <- HouseScenarios
  Tick = 60
  Horizon = 290
  Cfg <- HouseCfg
  Clock <- SomeClock
  Allowlist <- KnownOnly
  Batches <- HouseBatches
  RuleTemplates <- HouseRules
  WaitSeconds <- HouseWaits
  WaitFilters <- HouseFilters
  MaxInstalls = 3
  NoRule = NoRule
  MaxDecisions = 5
  Unreadable <- HouseUnreadable
INVARIANTS
  TypeOK
  RuleWindow
  RulesDistinct
  EventsDelivered
  WaitNeverOvershoots
  WaitWithinHorizon
  StatusTruth
  TraceAligned
  TimePerAction
PROPERTIES
  NoSilentRetirement
  RulesKeepTime
  AppliedLegal
  RunEnds
