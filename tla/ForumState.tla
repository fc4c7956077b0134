----------------------------- MODULE ForumState -----------------------------
(***************************************************************************)
(* The state that the store interfaces promise the service to keep, with   *)
(* no word on locks, slices, paths or SQL, nor on what callers are told: a *)
(* change takes effect at once, only when no reason speaks against it;     *)
(* posts are listed newest first; the comments of a post are listed depth  *)
(* first, siblings in the order of their ids.                              *)
(*                                                                         *)
(* ForumStore adds the answers.  PostgresStore implements this module.     *)
(***************************************************************************)
EXTENDS Threads, SequencesExt

CONSTANTS Users, Times,
          PostIDs, CommentIDs     \* the ids a call may name, 0 among them

VARIABLES posts,      \* [id -> [author, createdAt, allowed, deleted]]
          feed,       \* the ids of the posts, newest first
          comments,   \* [id -> [post, parent, deleted]]
          thread      \* [post id -> the ids of its comments, as listed]

stateVars == <<posts, feed, comments, thread>>

\* A map with one key set.
With(f, k, v) == [x \in DOMAIN f \cup {k} |-> IF x = k THEN v ELSE f[x]]

LivePost(id) == id \in DOMAIN posts /\ ~posts[id].deleted

\* The names of the conditions that hold.
Holding(conditions) == {e \in DOMAIN conditions : conditions[e]}

-----------------------------------------------------------------------------
PostReasons(titleOK, bodyOK) ==
  Holding([ErrInvalidPostTitle |-> ~titleOK, ErrInvalidPostBody |-> ~bodyOK])

SwitchReasons(id, user) ==
  Holding([ErrInvalidID    |-> id <= 0,
           ErrPostNotFound |-> id > 0 /\ ~LivePost(id),
           ErrForbidden    |-> id \in DOMAIN posts /\ posts[id].author # user])

CommentReasons(bodyOK, post, parent) ==
  LET answering == parent # Nil
      known     == parent \in DOMAIN comments
  IN  Holding([ErrInvalidCommentBody |-> ~bodyOK,
               ErrInvalidID          |-> post <= 0 \/ (answering /\ parent <= 0),
               ErrPostNotFound       |-> post > 0 /\ ~LivePost(post),
               ErrCommentsDisabled   |-> LivePost(post) /\ ~posts[post].allowed,
               ErrCommentNotFound    |-> answering /\ parent > 0 /\ ~known,
               ErrParentNotInPost    |-> known /\ comments[parent].post # post,
               ErrParentDeleted      |-> known /\ comments[parent].deleted])

-----------------------------------------------------------------------------
\* Post a comes before post b in the list ps makes of its posts.
Newer(ps, a, b) == \/ ps[a].createdAt > ps[b].createdAt
                   \/ ps[a].createdAt = ps[b].createdAt /\ a > b

AddPost(id, author, now) ==
  /\ id > 0 /\ id \notin DOMAIN posts
  /\ posts' = With(posts, id, [author |-> author, createdAt |-> now,
                               allowed |-> TRUE, deleted |-> FALSE])
  /\ \E k \in 1..(Len(feed) + 1) :
       /\ feed' = InsertAt(feed, k, id)
       /\ \A i \in DOMAIN feed : IF i < k THEN Newer(posts', feed[i], id)
                                          ELSE Newer(posts', id, feed[i])
  /\ thread' = With(thread, id, <<>>)
  /\ UNCHANGED comments

Switch(id, user, allowed) ==
  /\ SwitchReasons(id, user) = {}
  /\ posts' = [posts EXCEPT ![id].allowed = allowed]
  /\ UNCHANGED <<feed, comments, thread>>

AddComment(id, post, parent) ==
  /\ id > 0 /\ id \notin DOMAIN comments
  /\ CommentReasons(TRUE, post, parent) = {}
  /\ comments' = With(comments, id, [post |-> post, parent |-> parent,
                                     deleted |-> FALSE])
  /\ \E k \in 1..(Len(thread[post]) + 1) :
       LET listing == InsertAt(thread[post], k, id)
       IN  /\ DepthFirst(comments', listing)
           /\ thread' = [thread EXCEPT ![post] = listing]
  /\ UNCHANGED <<posts, feed>>

-----------------------------------------------------------------------------
StateInit == /\ posts = <<>> /\ feed = <<>>
             /\ comments = <<>> /\ thread = <<>>

StateNext ==
  \/ \E id \in PostIDs, author \in Users, now \in Times : AddPost(id, author, now)
  \/ \E id \in PostIDs, user \in Users, allowed \in BOOLEAN :
       Switch(id, user, allowed)
  \/ \E id \in CommentIDs, post \in PostIDs, parent \in CommentIDs \cup {Nil} :
       AddComment(id, post, parent)

StateSpec == StateInit /\ [][StateNext]_stateVars
=============================================================================
