SPECIFICATION Spec
CONSTANTS
  plain = plain
  big = big
  tree = tree
  odd = odd
  Jobs <- AllJobs
  MaxWorkers = 2
  MaxPending = 3
  Answers <- AllAnswers
  Pieces <- PieceJobs
  Big <- BigJobs
  Forking <- TreeJobs
  Inheriting <- TreeJobs
  Stubborn <- TreeJobs
INVARIANTS
  TypeOK
  WorkersBounded
  ReapedBeforeCleanup
PROPERTIES
  StarvedOnlyWhenFull
  ResultReturns
  ImplementsPool
CHECK_DEADLOCK FALSE
