------------------------------- MODULE MCNetFS -------------------------------
EXTENDS NetFS, TLC

Symmetry == Permutations(Sockets) \cup Permutations(Names)
=============================================================================
