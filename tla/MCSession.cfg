SPECIFICATION SessionSpec
CONSTANTS
  Routes <- AllRoutes
  Tick = 60
  NativeEnd = 300
  Strides <- OneOrTwo
  MaxEpochs = 1
  Controls <- Setpoints
  Durations <- SomeWaits
  Declared = 240
  MaxCalls = 3
  MaxMessage = 8
  MaxTotal = 14
  Opening = 2
INVARIANTS
  TypeOK
  DecisionsPaid
  NoHalfDecision
  DecisionsCarriedOut
PROPERTIES
  SessionEnds
CHECK_DEADLOCK FALSE
