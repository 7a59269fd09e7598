------------------------------ MODULE MCAllocator ------------------------------
EXTENDS ZombieList, TLC

NodeSymmetry == Permutations(Nodes)
===============================================================================
