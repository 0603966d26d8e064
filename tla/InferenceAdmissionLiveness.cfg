SPECIFICATION FairSpec
CONSTANTS
  Requests = {r1, r2}
  Streams = {r1, r2}
  Targets = {t1}
  Limits = {0, 3}
  MaxEvents = 1
  r1 = r1
  r2 = r2
  t1 = t1
PROPERTIES
  AbandonedSlotsReturn
  LimitRestored
