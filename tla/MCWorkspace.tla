----------------------------- MODULE MCWorkspace -----------------------------
(* Workspace with model values. *)
EXTENDS Workspace, TLC

Symmetry ==
  Permutations(Proc) \cup Permutations(User) \cup Permutations(Pid) \cup Permutations(Tid)
    \cup Permutations(Text) \cup Permutations(Claim)
===============================================================================
