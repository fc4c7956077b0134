---------------------------- MODULE MemoryStore ----------------------------
(***************************************************************************)
(* The in-memory store behind the forum service: posts and comments held   *)
(* twice, in a map by id and in slices kept in listing order, under one    *)
(* RWMutex.  An action is one service call: its argument checks, then the  *)
(* critical section of the store, which is the step.  (CreateComment also  *)
(* publishes after the lock is released: module CommentFeed.)              *)
(*                                                                         *)
(* The wall clock is any member of Times at any call: time.Now().UTC()     *)
(* drops the monotonic reading, so a clock set back gives a later post an  *)
(* earlier CreatedAt.  No operation of this store sets DeletedAt.          *)
(***************************************************************************)
EXTENDS Paths, SequencesExt

CONSTANTS Users, Times,
          MaxPosts, MaxComments   \* bounds on the posts and comments created

ASSUME MemoryAssumption ==
  /\ Times \subseteq Int
  /\ MaxPosts \in Nat /\ MaxComments \in Nat
  /\ MaxComments < Pow(Base, IDWidth)

VARIABLES posts,          \* []Post, newest first
          postsByID,      \* map[int64]Post
          nextPostID,
          comments,       \* map[int64][]Comment, by post, in path order
          commentsByID,   \* map[int64]Comment
          nextCommentID,
          reply           \* the error, or the id, that the last call answered

vars == <<posts, postsByID, nextPostID, comments, commentsByID, nextCommentID,
          reply>>

PostIDs    == 0..MaxPosts       \* 0 stands for every id that is not positive
CommentIDs == 0..MaxComments

With(f, k, v) == [x \in DOMAIN f \cup {k} |-> IF x = k THEN v ELSE f[x]]

Answer(op, err, id) == [op |-> op, err |-> err, id |-> id]

-----------------------------------------------------------------------------
(* Posts. *)

Newer(a, b) == IF a.createdAt = b.createdAt THEN a.id > b.id
                                            ELSE a.createdAt > b.createdAt

insertSortedPosts(s, p) ==
  InsertAt(s, SearchFirst(s, {i \in DOMAIN s : Newer(p, s[i])}), p)

PostError(titleOK, bodyOK) ==
  IF ~titleOK THEN "ErrInvalidPostTitle"
  ELSE IF ~bodyOK THEN "ErrInvalidPostBody"
  ELSE "none"

\* s.nextPostID++; p.ID = s.nextPostID
NewPostID == nextPostID + 1

CreatePost(author, titleOK, bodyOK, now) ==
  LET err == PostError(titleOK, bodyOK)
      id  == NewPostID
      p   == [id |-> id, author |-> author, createdAt |-> now,
              allowed |-> TRUE, deleted |-> FALSE]
  IN  \/ /\ err # "none"
         /\ reply' = Answer("CreatePost", err, 0)
         /\ UNCHANGED <<posts, postsByID, nextPostID>>
         /\ UNCHANGED <<comments, commentsByID, nextCommentID>>
      \/ /\ err = "none"
         /\ nextPostID < MaxPosts
         /\ nextPostID' = nextPostID + 1
         /\ postsByID' = With(postsByID, id, p)
         /\ posts' = insertSortedPosts(posts, p)
         /\ reply' = Answer("CreatePost", "none", id)
         /\ UNCHANGED <<comments, commentsByID, nextCommentID>>

LivePost(id) == id \in DOMAIN postsByID /\ ~postsByID[id].deleted

SwitchError(id, user) ==
  IF id <= 0 THEN "ErrInvalidID"
  ELSE IF ~LivePost(id) THEN "ErrPostNotFound"
  ELSE IF postsByID[id].author # user THEN "ErrForbidden"
  ELSE "none"

\* Mutant of WithPost: the slice keeps the old copy.
WithoutPost(s, p) == s

\* The slice with p written over the element that has its id.
WithPost(s, p) == [i \in DOMAIN s |-> IF s[i].id = p.id THEN p ELSE s[i]]

SetCommentsAllowed(id, user, allowed) ==
  LET err == SwitchError(id, user)
      p   == [postsByID[id] EXCEPT !.allowed = allowed]
  IN  \/ /\ err # "none"
         /\ reply' = Answer("SetCommentsAllowed", err, 0)
         /\ UNCHANGED <<posts, postsByID, nextPostID>>
         /\ UNCHANGED <<comments, commentsByID, nextCommentID>>
      \/ /\ err = "none"
         /\ postsByID' = With(postsByID, id, p)
         /\ posts' = WithPost(posts, p)
         /\ reply' = Answer("SetCommentsAllowed", "none", id)
         /\ UNCHANGED <<nextPostID, comments, commentsByID, nextCommentID>>

-----------------------------------------------------------------------------
(* Comments. *)

insertSortedComments(s, c) ==
  InsertAt(s, SearchFirst(s, {i \in DOMAIN s : StringLess(c.path, s[i].path)}), c)

\* Mutant of CommentError: any known comment will do as a parent.
CommentErrorAnyParent(bodyOK, post, parent) ==
  IF ~bodyOK THEN "ErrInvalidCommentBody"
  ELSE IF post <= 0 \/ (parent # Nil /\ parent <= 0) THEN "ErrInvalidID"
  ELSE IF ~LivePost(post) THEN "ErrPostNotFound"
  ELSE IF ~postsByID[post].allowed THEN "ErrCommentsDisabled"
  ELSE IF parent # Nil /\ parent \notin DOMAIN commentsByID THEN "ErrCommentNotFound"
  ELSE "none"

\* The checks of ForumService.CreateComment, then those of Comments.Create.
CommentError(bodyOK, post, parent) ==
  IF ~bodyOK THEN "ErrInvalidCommentBody"
  ELSE IF post <= 0 \/ (parent # Nil /\ parent <= 0) THEN "ErrInvalidID"
  ELSE IF ~LivePost(post) THEN "ErrPostNotFound"
  ELSE IF ~postsByID[post].allowed THEN "ErrCommentsDisabled"
  ELSE IF parent = Nil THEN "none"
  ELSE IF parent \notin DOMAIN commentsByID THEN "ErrCommentNotFound"
  ELSE IF commentsByID[parent].post # post THEN "ErrParentNotInPost"
  ELSE IF commentsByID[parent].deleted THEN "ErrParentDeleted"
  ELSE "none"

CreateComment(bodyOK, post, parent) ==
  LET err == CommentError(bodyOK, post, parent)
      id  == nextCommentID + 1
      c   == [id |-> id, post |-> post, parent |-> parent, deleted |-> FALSE,
              path |-> ChildPath(IF parent = Nil THEN <<>>
                                 ELSE commentsByID[parent].path, id)]
  IN  \/ /\ err # "none"
         /\ reply' = Answer("CreateComment", err, 0)
         /\ UNCHANGED <<posts, postsByID, nextPostID>>
         /\ UNCHANGED <<comments, commentsByID, nextCommentID>>
      \/ /\ err = "none"
         /\ id <= MaxComments
         /\ nextCommentID' = id
         /\ commentsByID' = With(commentsByID, id, c)
         /\ comments' = [comments EXCEPT ![post] = insertSortedComments(@, c)]
         /\ reply' = Answer("CreateComment", "none", id)
         /\ UNCHANGED <<posts, postsByID, nextPostID>>

-----------------------------------------------------------------------------
Init == /\ posts = <<>> /\ postsByID = <<>> /\ nextPostID = 0
        /\ comments = [p \in PostIDs |-> <<>>]
        /\ commentsByID = <<>> /\ nextCommentID = 0
        /\ reply = Answer("none", "none", 0)

Next ==
  \/ \E author \in Users, titleOK, bodyOK \in BOOLEAN, now \in Times :
       CreatePost(author, titleOK, bodyOK, now)
  \/ \E id \in PostIDs, user \in Users, allowed \in BOOLEAN :
       SetCommentsAllowed(id, user, allowed)
  \/ \E bodyOK \in BOOLEAN, post \in PostIDs, parent \in CommentIDs \cup {Nil} :
       CreateComment(bodyOK, post, parent)

Spec == Init /\ [][Next]_vars

-----------------------------------------------------------------------------
\* The slice of posts that a listing serves is the map of posts that ByID and
\* the guards read, newest first, through clock steps and comment switches.
PostsMirrorIndex ==
  /\ ToSet(posts) = {postsByID[id] : id \in DOMAIN postsByID}
  /\ \A i, j \in DOMAIN posts : i < j => Newer(posts[i], posts[j])

\* The depth that the API counts from the dots of a path is the number of
\* comments above it.
DepthCountsAncestors ==
  \A c \in DOMAIN commentsByID :
    Depth(commentsByID[c].path) = Cardinality(Ancestors(commentsByID)[c])

\* BuildCommentTree over a listing loses no thread: its roots are the comments
\* that answer nobody, and below each node hang its replies, oldest first.
TreeKeepsThreads ==
  \A p \in PostIDs :
    LET tree == BuildCommentTree(comments[p])
        of(parent) == {c \in DOMAIN commentsByID : commentsByID[c].post = p
                                                /\ commentsByID[c].parent = parent}
        oldestFirst(s) == \A i, j \in DOMAIN s : i < j => s[i] < s[j]
    IN  /\ ToSet(tree.roots) = of(Nil) /\ oldestFirst(tree.roots)
        /\ \A c \in DOMAIN tree.children :
             ToSet(tree.children[c]) = of(c) /\ oldestFirst(tree.children[c])

\* What schema.graphql says of the query comments: "depth-first, newest first".
CommentsNewestFirst ==
  \A p \in PostIDs : \A i, k \in DOMAIN comments[p] :
    /\ i < k
    /\ comments[p][i].parent = comments[p][k].parent
    => comments[p][i].id > comments[p][k].id

IDsOf(s) == [i \in DOMAIN s |-> s[i].id]

Contract == INSTANCE ForumStore WITH
  posts    <- [p \in DOMAIN postsByID |->
                 [author    |-> postsByID[p].author,
                  createdAt |-> postsByID[p].createdAt,
                  allowed   |-> postsByID[p].allowed,
                  deleted   |-> postsByID[p].deleted]],
  feed     <- IDsOf(posts),
  comments <- [c \in DOMAIN commentsByID |->
                 [post    |-> commentsByID[c].post,
                  parent  |-> commentsByID[c].parent,
                  deleted |-> commentsByID[c].deleted]],
  thread   <- [p \in DOMAIN postsByID |-> IDsOf(comments[p])]

\* The memory store implements the contract of the store interfaces: every
\* refusal has its reason, and the order of paths as strings keeps every listing
\* depth first, told from the parent links: no comment separates another from a
\* reply in its subtree, and siblings come by their ids.
ImplementsForumStore == Contract!Spec
=============================================================================
