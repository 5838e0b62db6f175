----------------------------- MODULE MCHybridAuth -----------------------------
(* HybridAuth with model values; no symmetry, liveness is checked. *)
EXTENDS HybridAuth, TLC
===============================================================================
