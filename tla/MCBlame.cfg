SPECIFICATION FacadeSpec
CONSTANTS
  Routes <- BothKinds
  Tick = 60
  NativeEnd = 180
  Strides <- OneOrTwo
  MaxEpochs = 3
PROPERTIES
  ActionErrorsAreTheCallers
