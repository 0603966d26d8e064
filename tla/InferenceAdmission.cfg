SPECIFICATION Spec
CONSTANTS
  Requests = {r1, r2, r3}
  Streams = {r1, r2}
  Targets = {t1}
  Limits = {1, 2}
  MaxEvents = 1
  r1 = r1
  r2 = r2
  r3 = r3
  t1 = t1
SYMMETRY Alike
INVARIANTS
  TypeOK
  SlotAccounting
  WorkConserving
  TransportUnderSlot
PROPERTIES
  FirstComeFirstServed
  NoReplayAfterOutput
