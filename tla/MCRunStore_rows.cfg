CONSTANTS
  r1 = r1
  r2 = r2
  Requests <- TwoRequests
  MaxForks = 2
SPECIFICATION Spec
SYMMETRY Symmetry
INVARIANTS
  NodesOnRecordedBranches
  RequestedFailureStays
PROPERTIES
  LineageNeverRewritten
