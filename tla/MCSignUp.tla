------------------------------- MODULE MCSignUp -------------------------------
(* Sign-ups with model values: two addresses, one of them in two spellings. *)
EXTENDS SignUp, TLC

CONSTANTS ana, ANA, bob

MCSpelling == {ana, ANA, bob}
MCNormal == [raw \in MCSpelling |-> IF raw = ANA THEN ana ELSE raw]

Symmetry == Permutations(Proc) \cup Permutations(Id)
===============================================================================
