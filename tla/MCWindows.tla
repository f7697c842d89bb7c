------------------------------ MODULE MCWindows -----------------------------
(* Windows on small instances. *)
EXTENDS Windows, TLC

\* Remote ids are interchangeable.
Symmetry == Permutations(Wids)
=============================================================================
