----------------------- MODULE MCTargetOperations -----------------------
EXTENDS TargetOperations, TLC
Symmetry == Permutations(Holders)
=========================================================================
