------------------------------- MODULE MCSync -------------------------------
EXTENDS S3Sync, TLC

PathSymmetry == Permutations(Paths)
=============================================================================
