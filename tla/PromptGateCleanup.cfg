SPECIFICATION Spec
CONSTANTS
  Requests = {r1, r2}
  Limits = {1}
SYMMETRY Alike
INVARIANT
  CleanupKeepsLease
