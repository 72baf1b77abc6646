------------------------------ MODULE MCDuring ------------------------------
EXTENDS SyncDuring, TLC

Symmetry == Permutations(Callers) \cup Permutations(Data)
=============================================================================
