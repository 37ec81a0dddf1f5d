------------------------------- MODULE MCClouds -------------------------------
EXTENDS Clouds, TLC
Symmetry == Permutations(Threads \ {Loop}) \cup Permutations(Places)
=============================================================================
