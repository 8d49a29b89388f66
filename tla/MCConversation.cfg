SPECIFICATION ConversationSpec
CONSTANTS
  Values <- SomeValues
  Depth <- SomeDepth
  Observations <- SomeObservations
  MaxSteps = 3
INVARIANTS
  HistoryReconstructs
  RepeatedIsRefused
CHECK_DEADLOCK FALSE
