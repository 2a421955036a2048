SPECIFICATION FairSpec
CONSTANTS
  c1 = c1  c2 = c2  c3 = c3
  Clients <- ThreeClients
  MaxKills = 1
INVARIANT ChatInv
PROPERTY EveryMessageIsRead
\* Nobody need join, and the server may end or wait for ever.
CHECK_DEADLOCK FALSE
