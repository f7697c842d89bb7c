------------------------------- MODULE MCConn -------------------------------
(* Conn on small instances. *)
EXTENDS Conn, TLC

\* Callers are interchangeable; used by safety runs only.
Symmetry == Permutations(Callers)
=============================================================================
