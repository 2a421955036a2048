SPECIFICATION FairSpec
CONSTANTS
  c1 = c1  c2 = c2
  Clients <- TwoClients
  Rounds = 1
  MaxLines = 1
  MaxEvents = 2
 
PROPERTY EverySessionEnds
\* Nobody need connect, speak or signal, and the server may end.
CHECK_DEADLOCK FALSE
