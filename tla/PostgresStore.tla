--------------------------- MODULE PostgresStore ---------------------------
(***************************************************************************)
(* The PostgreSQL store behind the forum service.  A request runs one call *)
(* on a connection of the pool.  CreatePost and SetCommentsAllowed are     *)
(* statements that commit by themselves; CreateComment is a transaction of *)
(* up to four statements, which reads its post FOR SHARE.  A step is one   *)
(* statement, at READ COMMITTED; what is not committed is seen by nobody   *)
(* else and is kept in the state of its request.                           *)
(*                                                                         *)
(* Any statement may fail, for a lost connection or a request that is      *)
(* cancelled, and a commit may succeed and yet be reported as failed.  Ids *)
(* come from identity columns, which do not go back on a rollback.         *)
(*                                                                         *)
(* Not in the model: the FOR SHARE lock on the parent comment and the key  *)
(* locks of the foreign keys, with which no statement of the program is in *)
(* conflict.  No query sets deleted_at.  The calls that the service        *)
(* refuses before the store are in MemoryStore.                            *)
(***************************************************************************)
EXTENDS Paths, SequencesExt

CONSTANTS Requests, Users, Times,
          MaxConns,                \* connections in the pool
          MaxPosts, MaxComments    \* bounds on the ids handed out

ASSUME PostgresAssumption ==
  /\ Times \subseteq Int
  /\ MaxConns \in Nat /\ MaxConns >= 1
  /\ MaxPosts \in Nat /\ MaxComments \in Nat
  /\ MaxComments < Pow(Base, IDWidth)

VARIABLES postRows,      \* committed rows of posts, by id
          commentRows,   \* committed rows of comments, by id
          postSeq, commentSeq,
          req            \* [request -> its call and how far it is]

vars == <<postRows, commentRows, postSeq, commentSeq, req>>

PostIDs    == 0..MaxPosts
CommentIDs == 0..MaxComments

With(f, k, v) == [x \in DOMAIN f \cup {k} |-> IF x = k THEN v ELSE f[x]]

-----------------------------------------------------------------------------
(* The rows as the abstract state: a listing is ORDER BY on what is committed. *)

ListPosts ==
  OrderBy(DOMAIN postRows,
    [b \in DOMAIN postRows |->
       {a \in DOMAIN postRows :
          \/ postRows[a].createdAt > postRows[b].createdAt
          \/ postRows[a].createdAt = postRows[b].createdAt /\ a > b}])

ListCommentsByPost(post) ==
  LET rows == {c \in DOMAIN commentRows : commentRows[c].post = post}
  IN  OrderBy(rows, [b \in rows |->
                       {a \in rows : StringLess(commentRows[a].path, commentRows[b].path)}])

Contract == INSTANCE ForumState WITH
  posts    <- postRows,
  feed     <- ListPosts,
  comments <- [c \in DOMAIN commentRows |-> [post    |-> commentRows[c].post,
                                             parent  |-> commentRows[c].parent,
                                             deleted |-> commentRows[c].deleted]],
  thread   <- [p \in DOMAIN postRows |-> ListCommentsByPost(p)]

-----------------------------------------------------------------------------
(* Requests and connections. *)

\* err is the answer; reasons is history: what spoke against the call when it
\* began or at one of its statements.
NoCall == [at |-> "idle", op |-> "none", post |-> 0, parent |-> Nil, user |-> "none",
           allowed |-> FALSE, id |-> 0, path |-> <<>>, createdAt |-> 0,
           err |-> "none", reasons |-> {}]

InTx == {"lockPost", "lockParent", "insert", "setPath", "commit", "rollback"}
Connected == InTx \cup {"insertPost", "commitPost", "update"}

HasFreeConn == Cardinality({r \in Requests : req[r].at \in Connected}) < MaxConns

\* Mutant of ShareHolders: the query lacks FOR SHARE.
NoShareHolders(post) == {}

\* The transactions that hold a share lock on the row of the post.
ShareHolders(post) ==
  {r \in Requests : req[r].post = post
                    /\ req[r].at \in {"lockParent", "insert", "setPath", "commit"}}

Reasons(q) == IF q.op = "SetCommentsAllowed" THEN Contract!SwitchReasons(q.post, q.user)
              ELSE IF q.op = "CreateComment"
                   THEN Contract!CommentReasons(TRUE, q.post, q.parent)
              ELSE {}

Begin(r, q) ==
  /\ req[r].at = "idle"
  /\ req' = [req EXCEPT ![r] = [q EXCEPT !.at = "begin", !.reasons = Reasons(q)]]
  /\ UNCHANGED <<postRows, commentRows, postSeq, commentSeq>>

\* Bound: the ids that open calls may still take are counted with those taken.
Room(op, seq, max) ==
  seq + Cardinality({r \in Requests : req[r].op = op /\ req[r].id = 0}) < max

CreatePost(r, user) ==
  /\ Room("CreatePost", postSeq, MaxPosts)
  /\ Begin(r, [NoCall EXCEPT !.op = "CreatePost", !.user = user])

SetCommentsAllowed(r, post, user, allowed) ==
  Begin(r, [NoCall EXCEPT !.op = "SetCommentsAllowed", !.post = post,
                          !.user = user, !.allowed = allowed])

CreateComment(r, post, parent) ==
  /\ Room("CreateComment", commentSeq, MaxComments)
  /\ Begin(r, [NoCall EXCEPT !.op = "CreateComment", !.post = post,
                             !.parent = parent])

\* Where a call stands once it has its connection.
FirstStatement == [CreatePost         |-> "insertPost",
                   SetCommentsAllowed |-> "update",
                   CreateComment      |-> "lockPost"]

Acquire(r) ==
  /\ req[r].at = "begin" /\ HasFreeConn
  /\ req' = [req EXCEPT ![r].at = FirstStatement[req[r].op]]
  /\ UNCHANGED <<postRows, commentRows, postSeq, commentSeq>>

\* The caller has its answer; the connection went back with it.
Answered(r, err) == [req[r] EXCEPT !.at = "done", !.err = err]

\* The caller sees what happened, or an error although it happened.
Reported == {"none", "failed"}

Return(r) ==
  /\ req[r].at = "done"
  /\ req' = [req EXCEPT ![r] = NoCall]
  /\ UNCHANGED <<postRows, commentRows, postSeq, commentSeq>>

-----------------------------------------------------------------------------
(* InsertPost: the time and the id are taken before the commit. *)

InsertPost(r) ==
  /\ req[r].at = "insertPost"
  /\ postSeq' = postSeq + 1
  /\ \E now \in Times :
       req' = [req EXCEPT ![r].at = "commitPost", ![r].id = postSeq + 1,
                          ![r].createdAt = now]
  /\ UNCHANGED <<postRows, commentRows, commentSeq>>

CommitPost(r) ==
  /\ req[r].at = "commitPost"
  /\ postRows' = With(postRows, req[r].id,
                      [author |-> req[r].user, createdAt |-> req[r].createdAt,
                       allowed |-> TRUE, deleted |-> FALSE])
  /\ \E err \in Reported : req' = [req EXCEPT ![r] = Answered(r, err)]
  /\ UNCHANGED <<commentRows, postSeq, commentSeq>>

-----------------------------------------------------------------------------
(* UpdatePostCommentsAllowed, and the second query that explains why no row *)
(* was updated.                                                             *)

Matches(r) == /\ req[r].post \in DOMAIN postRows
              /\ postRows[req[r].post].author = req[r].user
              /\ ~postRows[req[r].post].deleted

UpdatePost(r) ==
  /\ req[r].at = "update"
  /\ Matches(r)
  /\ ShareHolders(req[r].post) = {}
  /\ postRows' = [postRows EXCEPT ![req[r].post].allowed = req[r].allowed]
  /\ \E err \in Reported : req' = [req EXCEPT ![r] = Answered(r, err)]
  /\ UNCHANGED <<commentRows, postSeq, commentSeq>>

UpdateNothing(r) ==
  /\ req[r].at = "update"
  /\ ~Matches(r)
  /\ req' = [req EXCEPT ![r].at = "explain", ![r].reasons = @ \cup Reasons(req[r])]
  /\ UNCHANGED <<postRows, commentRows, postSeq, commentSeq>>

\* Mutant of Explain: whatever was not updated was not found.
ExplainBlind(r) ==
  /\ req[r].at = "explain" /\ HasFreeConn
  /\ req' = [req EXCEPT ![r] = Answered(r, "ErrPostNotFound")]
  /\ UNCHANGED <<postRows, commentRows, postSeq, commentSeq>>

\* ByID on a connection of its own.  A post that has appeared since the update,
\* of the caller's own, is still answered with ErrPostNotFound.
Explain(r) ==
  /\ req[r].at = "explain" /\ HasFreeConn
  /\ LET post == req[r].post
         err  == IF post \notin DOMAIN postRows THEN "ErrPostNotFound"
                 ELSE IF postRows[post].author # req[r].user THEN "ErrForbidden"
                 ELSE "ErrPostNotFound"
     IN  req' = [req EXCEPT ![r] = [Answered(r, err) EXCEPT
                                      !.reasons = @ \cup Reasons(req[r])]]
  /\ UNCHANGED <<postRows, commentRows, postSeq, commentSeq>>

-----------------------------------------------------------------------------
(* The transaction of Comments.Create. *)

\* A check has failed: the transaction will be rolled back.
GiveUp(r, err) == [req[r] EXCEPT !.at = "rollback", !.err = err]

\* LockPostForComments.
LockPost(r) ==
  LET post == req[r].post
      err  == IF post \notin DOMAIN postRows \/ postRows[post].deleted
              THEN "ErrPostNotFound"
              ELSE IF ~postRows[post].allowed THEN "ErrCommentsDisabled"
              ELSE "none"
      next == IF err # "none" THEN GiveUp(r, err)
              ELSE [req[r] EXCEPT !.at = IF req[r].parent = Nil THEN "insert"
                                                               ELSE "lockParent"]
  IN  /\ req[r].at = "lockPost"
      /\ req' = [req EXCEPT ![r] = [next EXCEPT !.reasons = @ \cup Reasons(req[r])]]
      /\ UNCHANGED <<postRows, commentRows, postSeq, commentSeq>>

ParentError(r) ==
  LET parent == req[r].parent
  IN  IF parent \notin DOMAIN commentRows THEN "ErrCommentNotFound"
      ELSE IF commentRows[parent].post # req[r].post THEN "ErrParentNotInPost"
      ELSE IF commentRows[parent].deleted THEN "ErrParentDeleted"
      ELSE "none"

ReadParent(r) ==
  LET err  == ParentError(r)
      next == IF err # "none" THEN GiveUp(r, err)
              ELSE [req[r] EXCEPT !.at = "insert",
                                  !.path = commentRows[req[r].parent].path]
  IN  /\ req[r].at = "lockParent"
      /\ req' = [req EXCEPT ![r] = [next EXCEPT !.reasons = @ \cup Reasons(req[r])]]
      /\ UNCHANGED <<postRows, commentRows, postSeq, commentSeq>>

\* Mutant of LockParent: the query runs on the pool, not in the transaction.
LockParentOnPool(r) == HasFreeConn /\ ReadParent(r)

\* LockCommentForReply.
LockParent(r) == ReadParent(r)

Row(r) == [post |-> req[r].post, parent |-> req[r].parent, deleted |-> FALSE,
           path |-> req[r].path]

\* Mutant of InsertComment: the row is committed by its own statement.
InsertCommitted(r) ==
  /\ req[r].at = "insert"
  /\ commentSeq' = commentSeq + 1
  /\ commentRows' = With(commentRows, commentSeq + 1, [Row(r) EXCEPT !.path = <<>>])
  /\ req' = [req EXCEPT ![r].at = "setPath", ![r].id = commentSeq + 1]
  /\ UNCHANGED <<postRows, postSeq>>

\* The row gets its id, and for the moment an empty path.
InsertComment(r) ==
  /\ req[r].at = "insert"
  /\ commentSeq' = commentSeq + 1
  /\ req' = [req EXCEPT ![r].at = "setPath", ![r].id = commentSeq + 1]
  /\ UNCHANGED <<postRows, commentRows, postSeq>>

UpdateCommentPath(r) ==
  /\ req[r].at = "setPath"
  /\ req' = [req EXCEPT ![r].at = "commit", ![r].path = ChildPath(@, req[r].id)]
  /\ UNCHANGED <<postRows, commentRows, postSeq, commentSeq>>

\* Mutant of Commit: an error of the commit is not looked at.
CommitUnchecked(r) ==
  /\ req[r].at = "commit"
  /\ \E rows \in {commentRows, With(commentRows, req[r].id, Row(r))} : commentRows' = rows
  /\ req' = [req EXCEPT ![r] = Answered(r, "none")]
  /\ UNCHANGED <<postRows, postSeq, commentSeq>>

Commit(r) ==
  /\ req[r].at = "commit"
  /\ commentRows' = With(commentRows, req[r].id, Row(r))
  /\ \E err \in Reported : req' = [req EXCEPT ![r] = Answered(r, err)]
  /\ UNCHANGED <<postRows, postSeq, commentSeq>>

Rollback(r) ==
  /\ req[r].at = "rollback"
  /\ req' = [req EXCEPT ![r] = Answered(r, req[r].err)]
  /\ UNCHANGED <<postRows, commentRows, postSeq, commentSeq>>

\* A connection that cannot be had, or a statement or commit that has no effect
\* and returns an error; in a transaction a rollback follows.
Fail(r) ==
  /\ req[r].at \notin {"idle", "rollback", "done"}
  /\ req' = [req EXCEPT ![r] = IF req[r].at \in InTx THEN GiveUp(r, "failed")
                                                    ELSE Answered(r, "failed")]
  /\ UNCHANGED <<postRows, commentRows, postSeq, commentSeq>>

-----------------------------------------------------------------------------
Init == /\ postRows = <<>> /\ commentRows = <<>>
        /\ postSeq = 0 /\ commentSeq = 0
        /\ req = [r \in Requests |-> NoCall]

Call(r) ==
  \/ \E user \in Users : CreatePost(r, user)
  \/ \E post \in PostIDs \ {0}, user \in Users, allowed \in BOOLEAN :
       SetCommentsAllowed(r, post, user, allowed)
  \/ \E post \in PostIDs \ {0}, parent \in (CommentIDs \ {0}) \cup {Nil} :
       CreateComment(r, post, parent)

\* The next statement of a call that has its connection.
Statement(r) ==
  \/ InsertPost(r) \/ CommitPost(r) \/ UpdatePost(r) \/ UpdateNothing(r)
  \/ LockPost(r) \/ LockParent(r) \/ InsertComment(r) \/ UpdateCommentPath(r)
  \/ Commit(r) \/ Rollback(r)

Next == \E r \in Requests :
  Call(r) \/ Acquire(r) \/ Statement(r) \/ Explain(r) \/ Fail(r) \/ Return(r)

SafetySpec == Init /\ [][Next]_vars

\* The server executes statements; the pool serves those who wait in order.
Fairness == \A r \in Requests : /\ WF_vars(Statement(r))
                                /\ SF_vars(Acquire(r)) /\ SF_vars(Explain(r))

Spec == SafetySpec /\ Fairness

-----------------------------------------------------------------------------
\* A comment is seen with its full path or not at all, below a parent that is
\* committed and of the same post, whatever fails between the two statements
\* that write it and in whatever order transactions commit.
CommentsWhole ==
  \A c \in DOMAIN commentRows :
    LET row == commentRows[c]
    IN  /\ row.post \in DOMAIN postRows
        /\ row.parent = Nil => row.path = PadID(c)
        /\ row.parent # Nil =>
             /\ row.parent \in DOMAIN commentRows
             /\ commentRows[row.parent].post = row.post
             /\ row.path = ChildPath(commentRows[row.parent].path, c)

\* An answer tells what became of the rows: a comment that is reported as made
\* is there, one that is refused is not.  Only "failed" says nothing.
AnswersMatchRows ==
  \A r \in Requests : req[r].at = "done" /\ req[r].op = "CreateComment" =>
    /\ req[r].err = "none" => /\ req[r].id \in DOMAIN commentRows
                              /\ commentRows[req[r].id] = Row(r)
    /\ req[r].err \notin {"none", "failed"} => req[r].id = 0

\* A call is refused only for a reason that held when it began or at one of its
\* statements, though the second query of SetCommentsAllowed may see another
\* state than the update it explains.
NoFalseRefusal ==
  \A r \in Requests : req[r].at = "done" =>
    req[r].err \in {"none", "failed"} \cup req[r].reasons

\* Statements of different requests, failures and late commits together amount
\* to the changes of the abstract state: no comment enters a post whose author
\* has switched comments off, and the listings stay depth first although ids
\* become visible out of order.
ImplementsForumState == Contract!StateSpec

\* Every request that creates a post or a comment gets an answer, from a pool of
\* any size: no transaction waits for a second connection or for a lock that
\* waits for it.
CreatorsAnswered ==
  \A r \in Requests :
    req[r].at # "idle" /\ req[r].op \in {"CreatePost", "CreateComment"}
      ~> req[r].at = "done"
=============================================================================
