-------------------------- MODULE MCClusterRouting --------------------------
\* Instances of ClusterRouting for TLC.
EXTENDS ClusterRouting, TLC

Alike == Permutations(Requests) \cup Permutations(Members)
=============================================================================
