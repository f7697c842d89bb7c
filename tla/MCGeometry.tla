----------------------------- MODULE MCGeometry -----------------------------
(* Geometry on small instances. *)
EXTENDS Geometry, TLC

\* Places are interchangeable, and so are sizes.
Symmetry == Permutations(Positions) \cup Permutations(Sizes)
=============================================================================
