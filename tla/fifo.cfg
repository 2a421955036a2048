SPECIFICATION FairSpec
CONSTANTS
  c1 = c1  c2 = c2  c3 = c3
  Clients <- ThreeClients
  Wants <- TheirWants
  MaxKills = 1
INVARIANT FifoInv
PROPERTY ServiceGoesOn
\* Nobody need ask, and a service of a killed client may wait for ever.
CHECK_DEADLOCK FALSE
