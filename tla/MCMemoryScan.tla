---------------------------- MODULE MCMemoryScan ----------------------------
(* Either several posts without comments or one post with many. *)
EXTENDS MemoryScan

OnePostWithComments ==
  nextCommentID > 0 => nextPostID = 1 /\ postsByID[1].createdAt = 1
=============================================================================
