--------------------------- MODULE MCPostgresScan ---------------------------
(* Posts without comments, or one post with its comments.  The author does not *)
(* use the switch, and no statement of a writer fails.                         *)
EXTENDS PostgresScan

PlainWrites ==
  /\ \A r \in Requests : req[r].op # "SetCommentsAllowed" /\ req[r].err # "failed"
  /\ \A r \in Requests : req[r].op = "CreateComment" => postSeq = 1 /\ req[r].post = 1
  /\ commentSeq > 0 => postSeq = 1
=============================================================================
