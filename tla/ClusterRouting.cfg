SPECIFICATION Spec
CONSTANTS
  Requests = {q1, q2}
  Members = {m1, m2}
  MaxPasses = 2
SYMMETRY Alike
INVARIANTS
  TypeOK
  LoadsMatchHolders
PROPERTIES
  PromptNeverReplayed
