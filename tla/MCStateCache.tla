---------------------------- MODULE MCStateCache ----------------------------
\* Instances of StateCache for TLC.
EXTENDS StateCache, TLC

Alike == Permutations(Callers)
=============================================================================
