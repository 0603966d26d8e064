SPECIFICATION Spec
CONSTANTS
  Nodes = {ctl, n1, n2}
  Controller = ctl
  Caps = {TRUE}
  MaxJobs = 2
  MaxEvents = 1
SYMMETRY Alike
INVARIANTS
  TypeOK
  TerminalMeansStopped
  OneTransferPerNode
  NothingLeftBehind
  UpdateFindsNothingOpen
PROPERTIES
  FinalIsFinal
