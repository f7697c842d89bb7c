-------------------------- MODULE MCWaylandWindow ---------------------------
EXTENDS WaylandWindow, TLC
Symmetry == Permutations(Windows)
=============================================================================
