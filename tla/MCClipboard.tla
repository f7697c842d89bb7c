---------------------------- MODULE MCClipboard -----------------------------
(* Clipboard on small instances. *)
EXTENDS Clipboard, TLC

\* Texts are only compared with each other.
Symmetry == Permutations(Texts \ Refused)
=============================================================================
