-------------------------- MODULE MCPostgresStore --------------------------
(***************************************************************************)
(* PostgresStore with interchangeable requests and users.                  *)
(***************************************************************************)
EXTENDS PostgresStore

Symmetry == Permutations(Requests) \cup Permutations(Users)
=============================================================================
