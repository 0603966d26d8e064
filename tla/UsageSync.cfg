SPECIFICATION Spec
CONSTANTS
  Nodes = {1, 2, 3}
  Ctl = 2
  Joined = {1}
  Models = {a}
  PeerOrder <- Order
  MaxRequests = 2
  MaxEvents = 2
CONSTRAINT ThreeRounds
INVARIANTS
  TotalsMatchLedger
  ForgottenStaysForgotten
  TwoRoundsConverge
PROPERTIES
  OwnUsageKept
