------------------------------ MODULE MCProc ------------------------------
EXTENDS Proc, TLC

Symmetry == Permutations(CPU)
===========================================================================
