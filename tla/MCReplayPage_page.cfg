CONSTANTS
  BranchOf <- RunBranches
  Fails <- RunFails
  FailedNodes <- RunFails
  FirstShown <- RunShown
  MaxClicks = 6
  CheckpointOf <- RunCps
  FilesIn <- RunFiles
  None = ""
  RefreshTicks = 2
SPECIFICATION FairSpec
INVARIANTS
  ScrubberFollowsSelection
  ShowsTheSelection
PROPERTIES
  PlaybackEnds
CHECK_DEADLOCK FALSE
