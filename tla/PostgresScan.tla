---------------------------- MODULE PostgresScan ----------------------------
(***************************************************************************)
(* A client walking a listing of the PostgreSQL store page by page while   *)
(* other requests write.  A page of posts is one statement.  A page of     *)
(* comments is two, GetPost and then the listing, on connections and       *)
(* snapshots of their own.  A statement sees the rows committed before it: *)
(* rows become visible in another order than that of their ids and times.  *)
(*                                                                         *)
(* A cursor carries the sort key of the last item of its page.             *)
(***************************************************************************)
EXTENDS PostgresStore

CONSTANT MaxFirst   \* maxFirst, 100: clampFirst answers in 1..MaxFirst

ASSUME PageAssumption == MaxFirst \in Nat /\ MaxFirst >= 1

VARIABLES phase,    \* "idle", "open" (a cursor is held) or "done"
          target,   \* the post whose comments are listed; 0: the list of posts
          found,    \* GetPost has answered for the page that is being asked for
          cursor,   \* id of the last item seen, standing for its key; Nil: no cursor
          seen,     \* ids of the items of the pages so far
          owed      \* ids in the listing when the first page was read

scanVars == <<phase, target, found, cursor, seen, owed>>

-----------------------------------------------------------------------------
\* Mutant of ListFirst: the rows in the order in which they were inserted.
ListUnordered(t) ==
  SetToSortSeq(IF t = 0 THEN DOMAIN postRows
               ELSE {c \in DOMAIN commentRows : commentRows[c].post = t},
               LAMBDA a, b : a < b)

\* The queries ListPosts and ListCommentsByPost, without their LIMIT.
ListFirst(t) == IF t = 0 THEN ListPosts ELSE ListCommentsByPost(t)

\* Mutant of Beyond: a post of the same time as the cursor's is left out.
BeyondInTime(t, x, k) ==
  IF t = 0 THEN postRows[x].createdAt < postRows[k].createdAt
  ELSE StringLess(commentRows[k].path, commentRows[x].path)

\* The condition on the cursor in ListPostsAfter and ListCommentsByPostAfter.
Beyond(t, x, k) ==
  IF t = 0 THEN \/ postRows[x].createdAt < postRows[k].createdAt
                \/ postRows[x].createdAt = postRows[k].createdAt /\ x < k
  ELSE StringLess(commentRows[k].path, commentRows[x].path)

ListAfter(t, k) ==
  LET rows == ListFirst(t)
  IN  Filter(rows, {i \in DOMAIN rows : Beyond(t, rows[i], k)})

\* List and ListByPost: limit + 1 rows are fetched, and the last of more than
\* limit only tells that there is a next page.
ListPage(t, k, limit) ==
  LET rows  == IF k = Nil THEN ListFirst(t) ELSE ListAfter(t, k)
      items == SubSeq(rows, 1, IF Len(rows) > limit THEN limit ELSE Len(rows))
      next  == IF Len(rows) > limit THEN items[limit] ELSE Nil
  IN  /\ seen' = (IF k = Nil THEN <<>> ELSE seen) \o items
      /\ cursor' = next
      /\ phase' = IF next = Nil THEN "done" ELSE "open"

\* ListComments asks for the post first, for every page.  A post that is not
\* found answers the request and changes nothing.
GetPost(t) ==
  /\ \/ phase = "idle"
     \/ phase = "open" /\ t = target
  /\ t \in DOMAIN postRows /\ ~postRows[t].deleted
  /\ ~found /\ HasFreeConn
  /\ found' = TRUE /\ target' = t
  /\ UNCHANGED <<phase, cursor, seen, owed>> /\ UNCHANGED vars

FirstPage(t, limit) ==
  /\ phase = "idle"
  /\ IF t = 0 THEN ~found ELSE found /\ t = target
  /\ HasFreeConn
  /\ ListPage(t, Nil, limit)
  /\ target' = t /\ found' = FALSE
  /\ owed' = ToSet(ListFirst(t))
  /\ UNCHANGED vars

NextPage(limit) ==
  /\ phase = "open"
  /\ target # 0 => found
  /\ HasFreeConn
  /\ ListPage(target, cursor, limit)
  /\ found' = FALSE
  /\ UNCHANGED <<target, owed>> /\ UNCHANGED vars

\* The listing statement fails after GetPost: the page is asked for again.
PageFails ==
  /\ found /\ found' = FALSE
  /\ UNCHANGED <<phase, target, cursor, seen, owed>> /\ UNCHANGED vars

-----------------------------------------------------------------------------
ScanInit == /\ Init
            /\ phase = "idle" /\ target = 0 /\ found = FALSE /\ cursor = Nil
            /\ seen = <<>> /\ owed = {}

Write == Next /\ UNCHANGED scanVars

Read == \/ \E t \in PostIDs \ {0} : GetPost(t)
        \/ \E t \in PostIDs, limit \in 1..MaxFirst : FirstPage(t, limit)
        \/ \E limit \in 1..MaxFirst : NextPage(limit)
        \/ PageFails

ScanNext == Write \/ Read

\* Fairness is that of the writers: nothing makes a client read on.
ScanFairness ==
  \A r \in Requests :
    /\ WF_<<vars, scanVars>>(Statement(r) /\ UNCHANGED scanVars)
    /\ SF_<<vars, scanVars>>(Acquire(r) /\ UNCHANGED scanVars)
    /\ SF_<<vars, scanVars>>(Explain(r) /\ UNCHANGED scanVars)

ScanSpec == ScanInit /\ [][ScanNext]_<<vars, scanVars>> /\ ScanFairness

-----------------------------------------------------------------------------
\* The pages follow one another in the order of the listing and repeat nothing,
\* though rows with smaller ids and older times appear between them.
ScanInOrder == \A i, j \in DOMAIN seen : i < j => Beyond(target, seen[j], seen[i])

\* What a finished scan has missed was not committed when its first page was
\* read: a post or a comment that is late to become visible behind the cursor is
\* lost to this scan, and nothing else is.
ScanComplete == phase = "done" => owed \subseteq ToSet(seen)

\* No reply is ever seen before the comment it answers, or without it: where the
\* reply is ahead of the cursor, its parent has been seen, in whatever order the
\* two and their siblings became visible.
ScanKeepsThreads ==
  target # 0 =>
    \A j \in DOMAIN seen :
      LET parent == commentRows[seen[j]].parent
      IN  parent # Nil => \E i \in 1..(j - 1) : seen[i] = parent
=============================================================================
