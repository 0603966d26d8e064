SPECIFICATION Spec
CONSTANTS
  Jobs = {j1, j2, j3}
  MaxRetries = 1
SYMMETRY Alike
INVARIANTS
  TypeOK
  UnfinishedJobHasDriver
PROPERTIES
  CanceledNeverRuns
