CONSTANTS
  w1 = w1
  w2 = w2
  j1 = j1
  j2 = j2
  Workers <- TwoWorkers
  Jobs <- TwoJobs
  Orphans <- OneOrphan
  MaxNodes = 2
  MaxFaults = 2
SPECIFICATION FairVideoSpec
CHECK_DEADLOCK FALSE
INVARIANTS
  RowsAreWhole
  FailuresHaveACause
PROPERTIES
  Drains
  JobsAreSettled
