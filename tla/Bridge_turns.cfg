CONSTANTS
  MaxRecoveries = 2
  MaxFaults = 2
SPECIFICATION Spec
INVARIANTS
  CompletedMeansGreen
  TurnsStartClean
PROPERTIES
  FailedSandboxesKept
