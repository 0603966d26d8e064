SPECIFICATION FairSpec
CONSTANTS
  Ranks = {r0, r1}
  Local = r0
  RetryLimit = 1
  MaxUser = 1
  MaxCards = 1
  MaxEvents = 1
  MaxCrashes = 1
INVARIANTS
  TypeOK
  RecoveryStartsFromRest
  StopOutlastsMonitors
  StoppedMeansDown
PROPERTIES
  StopIsFinished
  SplitIsRepaired
