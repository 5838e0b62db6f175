------------------------------ MODULE MCSessions ------------------------------
(* Sessions with model values; the requests and the sessions are symmetric. *)
EXTENDS Sessions, TLC

Symmetry == Permutations(Proc) \cup Permutations(Sid)
===============================================================================
