SPECIFICATION FairSpec
CONSTANTS
  c1 = c1  c2 = c2
  Clients <- TwoClients
  NT = 2
  MaxQuits = 2
  MaxBindFailures = 1
  NoClient = NoClient
INVARIANT MenuInv
PROPERTY EveryClientIsTold
\* Users need not go on for ever.
CHECK_DEADLOCK FALSE
