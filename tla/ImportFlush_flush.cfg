CONSTANTS
  MaxAttempts = 3
  NumDecisions = 2
SPECIFICATION FairFlushSpec
INVARIANTS
  OkMeansImported
PROPERTIES
  FlushReturns
