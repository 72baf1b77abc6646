------------------------------ MODULE MCTools ------------------------------
EXTENDS Tools, TLC

PieceSymmetry == Permutations(Pieces) \cup Permutations(Callers)
=============================================================================
