--------------------------- MODULE MCCommentFeed ---------------------------
(***************************************************************************)
(* CommentFeed with its posts, and its writers, taken as interchangeable.  *)
(***************************************************************************)
EXTENDS CommentFeed, TLC

Symmetry == Permutations(Posts) \cup Permutations(Writers)
=============================================================================
