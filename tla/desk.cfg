SPECIFICATION FairSpec
CONSTANTS
  c1 = c1  c2 = c2
  Clients <- TwoClients
  NS = 2
  Slots = 4
  NoName = NoName
INVARIANTS SemaphoreInv NamesInv CallsMatchNames
PROPERTIES EveryCallIsAnswered
\* Clients call once, and a server may be stuck at a fifo: that is no error.
CHECK_DEADLOCK FALSE
