SPECIFICATION SchedulerSpec
CONSTANTS
  RuleIds <- SomeRules
  Book <- SomeBook
  Keys <- SomeKeys
  Arrivals <- SomeArrivals
  Horizon = 4
INVARIANTS
  BatchesDisjoint
  RetiredIsReleased
PROPERTIES
  RetiredForGood
