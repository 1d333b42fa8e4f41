---------------------------- MODULE MCIgdbTokens ----------------------------
EXTENDS IgdbTokens, TLC
Symmetry == Permutations(Finds)
=============================================================================
