------------------------------ MODULE MCIngress ------------------------------
EXTENDS Ingress, TLC

CONSTANTS c1, c2, p1, d1, z1, z2

Symmetry == Permutations({c1, c2}) \cup Permutations({z1, z2})
=============================================================================
