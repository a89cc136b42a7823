CONSTANTS
  c1 = c1
  c2 = c2
  c3 = c3
  Clients <- TwoClients
  MaxEvents = 2
SPECIFICATION Spec
INVARIANTS
  LateClientsAreServed
