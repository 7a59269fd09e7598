--------------------------- MODULE MCHazardPointers ---------------------------
EXTENDS HazardPointers, TLC

NodeSymmetry == Permutations(Nodes)
===============================================================================
