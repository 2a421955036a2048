SPECIFICATION FairSpec
CONSTANTS
  c1 = c1  c2 = c2
  Clients <- TwoClients
  Wants <- TheirWants
  MaxKills = 2
INVARIANT TypedInv
PROPERTY EveryLineIsAnswered
\* Nobody need connect, and a client may wait for ever.
CHECK_DEADLOCK FALSE
