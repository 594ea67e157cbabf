------------------------------ MODULE MCNodeSdk ------------------------------
EXTENDS NodeSdk, TLC

CONSTANTS t1, t2, c1, c2

Symmetry == Permutations(Tasks) \cup Permutations(Chains)
=============================================================================
