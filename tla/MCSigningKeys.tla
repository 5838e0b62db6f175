----------------------------- MODULE MCSigningKeys -----------------------------
(* SigningKeys with model values; the requests, the keys and the secrets are symmetric. *)
EXTENDS SigningKeys, TLC

Symmetry == Permutations(Proc) \cup Permutations(Kid) \cup Permutations(Secret)
===============================================================================
