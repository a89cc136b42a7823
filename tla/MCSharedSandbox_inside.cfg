CONSTANTS
  r1 = r1
  r2 = r2
  Root <- Sandbox
  Files <- SourceAndSkipped
  Spellings <- PlainAndOther
  Requests <- TwoRequests
  MaxWrites = 2
SPECIFICATION Spec
SYMMETRY Symmetry
INVARIANTS
  RestoreIsReversible
