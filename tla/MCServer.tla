------------------------------ MODULE MCServer ------------------------------
(* Server with interchangeable requests. *)
EXTENDS Server, TLC

Symmetry == Permutations(Requests)
=============================================================================
