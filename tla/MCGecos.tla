-------------------------------- MODULE MCGecos --------------------------------
EXTENDS Gecos, TLC

NodeSymmetry == Permutations(Nodes)
===============================================================================
