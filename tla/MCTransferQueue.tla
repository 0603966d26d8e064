-------------------------- MODULE MCTransferQueue --------------------------
EXTENDS TransferQueue, TLC

\* The agents are alike.
Alike == Permutations(Nodes \ {Controller})
=============================================================================
