SPECIFICATION FairSpec
CONSTANTS
  Requests = {r1, r2, r3}
  Limits = {1, 2}
INVARIANTS
  TypeOK
  PromptHoldsLease
  NothingLeftOpen
PROPERTIES
  ImplementsFifoSlots
  DisconnectFrees
