---------------------------- MODULE MCUserLoader ----------------------------
(***************************************************************************)
(* UserLoader with interchangeable requests and users.             *)
(***************************************************************************)
EXTENDS UserLoader, TLC

Symmetry == Permutations(Loads) \cup Permutations(UserIDs)
=============================================================================
