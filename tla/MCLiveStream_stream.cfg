CONSTANTS
  c1 = c1
  c2 = c2
  c3 = c3
  Clients <- ThreeClients
  MaxEvents = 3
SPECIFICATION FairSpec
INVARIANTS
  NothingMissed
  SubscribersReleased
  CompleteMeansSaved
PROPERTIES
  ServedToTheEnd
