---------------------------- MODULE MCEventQueue ----------------------------
(* EventQueue on small instances; no symmetry, which liveness forbids. *)
EXTENDS EventQueue, TLC
=============================================================================
