CONSTANTS
  MaxIterations = 3
  MaxAutoRecoveries = 2
  Kinds <- LoopKinds
  MaxCalls = 3
  MaxFaults = 1
SPECIFICATION FairSpec
INVARIANTS
  TypeOK
  FailedBranchFrozen
  ForksAtDenials
  ConversationOfTheBranch
  CompletedWorkSurvives
  SavedWorkSurvives
  RollbackPointFresh
  GraphIsTree
  LineageRows
  GraphIsDrawnDownward
  LookupIsNearest
PROPERTIES
  KeepsPromise
  Terminates
