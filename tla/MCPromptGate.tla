---------------------------- MODULE MCPromptGate ----------------------------
\* Instances of PromptGate for TLC.
EXTENDS PromptGate, TLC

Alike == Permutations(Requests)
=============================================================================
