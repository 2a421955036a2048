SPECIFICATION FairSpec
CONSTANTS
  c1 = c1  c2 = c2
  Clients <- TwoClients
  Limit = 2
  MaxQuits = 1
  Listener = Listener
  NoClient = NoClient
  NoFd = NoFd
INVARIANTS RequestAccountedFor HandoverExplained CountsEveryRequest
PROPERTY ServiceGoesOn
\* Clients need not ask for ever, and processes end.
CHECK_DEADLOCK FALSE
