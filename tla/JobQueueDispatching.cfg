SPECIFICATION Spec
CONSTANTS
  Jobs = {j1, j2}
  MaxRetries = 0
SYMMETRY Alike
INVARIANT
  DispatchingWillRun
