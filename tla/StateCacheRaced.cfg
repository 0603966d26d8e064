SPECIFICATION Spec
CONSTANTS
  Callers = {c1, c2, c3}
  Collections = {k1, k2, k3}
  Intents = {running, stopped}
  MaxChanges = 2
SYMMETRY Alike
INVARIANT
  RacedCollectionDropped
