SPECIFICATION FairSpec
CONSTANTS
  c1 = c1  c2 = c2  c3 = c3
  Clients <- ThreeClients
  MinNumber <- MinusOne
  MaxNumber = 2
  MaxKills = 1
INVARIANT GroupInv
PROPERTY EveryClientIsAsked
\* Nobody need join or type anything.
CHECK_DEADLOCK FALSE
