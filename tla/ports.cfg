SPECIFICATION FairSpec
CONSTANTS
  c1 = c1  c2 = c2  c3 = c3
  Clients <- ThreeClients
  NP = 2
  Capacity <- OneAndTwo
  MaxFiles = 2
  MaxQuits = 2
  NoClient = NoClient
INVARIANTS TypeOK AccountBalances NeverNegative
PROPERTIES EveryClientIsGreeted
\* When the server has exited, the clients that are left wait for ever.
CHECK_DEADLOCK FALSE
