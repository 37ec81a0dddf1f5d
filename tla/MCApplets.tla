------------------------------- MODULE MCApplets -------------------------------
EXTENDS GoGmail, TLC
Symmetry == Permutations(Threads \ {Loop})
=============================================================================
