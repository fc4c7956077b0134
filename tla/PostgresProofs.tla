--------------------------- MODULE PostgresProofs ---------------------------
(***************************************************************************)
(* Proofs about the postgres store, and a client that pages through it,    *)
(* for any requests, users, times, connections and bounds.  Nothing is     *)
(* assumed of the order in which statements of different requests run, nor *)
(* of what fails.  First what every call may rely on while others run;     *)
(* then the threads, whose rows become visible in any order; the scans     *)
(* over them; and that the calls together are the abstract state.          *)
(***************************************************************************)
EXTENDS PostgresScan, DataProofs

-----------------------------------------------------------------------------
(* The inductive invariant. *)

Ops == {"CreatePost", "SetCommentsAllowed", "CreateComment"}
Errors == {"none", "failed", "ErrPostNotFound", "ErrForbidden", "ErrCommentsDisabled",
           "ErrCommentNotFound", "ErrParentNotInPost", "ErrParentDeleted"}

\* A call; path and reasons are whatever they are.
CallRec(path, reasons) ==
  [at : {"idle", "begin", "explain", "done"} \cup Connected, op : Ops \cup {"none"},
   post : Nat, parent : Int, user : Users \cup {"none"}, allowed : BOOLEAN,
   id : Nat, path : {path}, createdAt : Times \cup {0}, err : Errors,
   reasons : {reasons}]

PostRec == [author : Users \cup {"none"}, createdAt : Times \cup {0},
            allowed : BOOLEAN, deleted : BOOLEAN]

Holding(q)  == q.at \in {"lockParent", "insert", "setPath", "commit"}
Posting(q)  == q.at = "commitPost"
Writing(q)  == q.at \in {"setPath", "commit"}
RowOf(q) == [post |-> q.post, parent |-> q.parent, deleted |-> FALSE, path |-> q.path]

\* The type of a call, and which statements belong to which operation.
CallTypeOK(q) ==
  /\ q \in CallRec(q.path, q.reasons)
  /\ q.at # "idle" => q.op \in Ops
  /\ q.at \in InTx => q.op = "CreateComment"
  /\ q.at \in {"insertPost", "commitPost"} => q.op = "CreatePost"
  /\ q.at \in {"update", "explain"} => q.op = "SetCommentsAllowed"
  /\ q.at # "idle" /\ q.op # "CreatePost" => q.post > 0
  /\ q.at # "idle" /\ q.op = "CreateComment" => q.parent = Nil \/ q.parent > 0

\* A transaction that has locked its post finds it open to comments for as long
\* as it holds the lock, in the rows ps.
LockInv(q, ps) ==
  Holding(q) => q.post \in DOMAIN ps /\ ps[q.post].allowed /\ ~ps[q.post].deleted

\* What a transaction knows of its parent, in the rows cs, and the path it makes
\* of it.
ParentInv(q, cs) ==
  /\ q.at = "lockParent" => q.parent # Nil
  /\ q.op = "CreateComment" /\ q.at \in {"begin", "lockPost", "lockParent"} => q.path = <<>>
  /\ q.at \in {"insert", "setPath", "commit"} /\ q.parent = Nil =>
       q.path = IF q.at = "commit" THEN PadID(q.id) ELSE <<>>
  /\ q.at \in {"insert", "setPath", "commit"} /\ q.parent # Nil =>
       /\ q.parent \in DOMAIN cs /\ cs[q.parent].post = q.post
       /\ q.path = IF q.at = "commit" THEN ChildPath(cs[q.parent].path, q.id)
                   ELSE cs[q.parent].path

\* A post or comment has its id from the insert on, and nobody sees it before the
\* commit.  The sequences are at pseq and cseq.
IDInv(q, ps, cs, pseq, cseq) ==
  /\ q.op = "CreateComment" /\ q.at \in {"begin", "lockPost", "lockParent", "insert"} =>
       q.id = 0
  /\ Posting(q) => q.id \in 1..pseq /\ q.id \notin DOMAIN ps
  /\ Writing(q) => q.id \in 1..cseq /\ q.id \notin DOMAIN cs

\* Answers, those too that wait for the rollback.
AnswerInv(q, cs) ==
  /\ q.at = "rollback" => q.err # "none" /\ (q.err # "failed" => q.id = 0)
  /\ q.at = "done" /\ q.op = "CreateComment" =>
       /\ q.err = "none" => q.id \in DOMAIN cs /\ cs[q.id] = RowOf(q)
       /\ q.err \notin {"none", "failed"} => q.id = 0

\* Reasons, those too that the second query of SetCommentsAllowed will find: a
\* post that was there when nothing was updated is still there, and another's.
ReasonInv(q, ps) ==
  /\ q.at = "rollback" => q.err \in {"failed"} \cup q.reasons
  /\ q.at = "done" => q.err \in {"none", "failed"} \cup q.reasons
  /\ q.at = "explain" => \/ "ErrPostNotFound" \in q.reasons
                         \/ q.post \in DOMAIN ps /\ ps[q.post].author # q.user

CallInv(q, ps, cs, pseq, cseq) ==
  /\ CallTypeOK(q) /\ LockInv(q, ps) /\ ParentInv(q, cs) /\ IDInv(q, ps, cs, pseq, cseq)
  /\ AnswerInv(q, cs) /\ ReasonInv(q, ps)

RowsInv ==
  /\ postRows \in [DOMAIN postRows -> PostRec]
  /\ commentSeq \in Nat /\ postSeq \in Nat
  /\ DOMAIN postRows \subseteq 1..postSeq
  /\ DOMAIN commentRows \subseteq 1..commentSeq
  /\ CommentsWhole

\* No two calls write a post, or a comment, under the same id.
SameTable(q1, q2) == \/ Posting(q1) /\ Posting(q2)
                     \/ Writing(q1) /\ Writing(q2)

DistinctIDs == \A r, s \in Requests :
  r # s /\ SameTable(req[r], req[s]) => req[r].id # req[s].id

StoreInv ==
  /\ RowsInv /\ DistinctIDs
  /\ req = [r \in Requests |-> req[r]]
  /\ \A r \in Requests : CallInv(req[r], postRows, commentRows, postSeq, commentSeq)

-----------------------------------------------------------------------------
(* What other requests do to the rows leaves a call as it was: posts and     *)
(* comments stay with their authors and rows, a locked post is not switched, *)
(* and no new comment has the id that the call has.                          *)

PostsKept(ps, new) == \A p \in DOMAIN ps : /\ p \in DOMAIN new
                                           /\ new[p].author = ps[p].author
                                           /\ new[p].deleted = ps[p].deleted

CommentsKept(cs, new) == \A c \in DOMAIN cs : c \in DOMAIN new /\ new[c] = cs[c]

LEMMA CallOutlives ==
  ASSUME NEW q, NEW ps, NEW cs, NEW pseq \in Nat, NEW cseq \in Nat,
         NEW ps2, NEW cs2, NEW pseq2 \in Nat, NEW cseq2 \in Nat,
         CallInv(q, ps, cs, pseq, cseq),
         PostsKept(ps, ps2), CommentsKept(cs, cs2), pseq <= pseq2, cseq <= cseq2,
         Holding(q) => ps2[q.post].allowed = ps[q.post].allowed,
         Posting(q) => q.id \notin DOMAIN ps2 \ DOMAIN ps,
         Writing(q) => q.id \notin DOMAIN cs2 \ DOMAIN cs
  PROVE  CallInv(q, ps2, cs2, pseq2, cseq2)
<1>1. LockInv(q, ps2)
  BY DEF CallInv, LockInv, PostsKept
<1>2. ParentInv(q, cs2)
  BY DEF CallInv, ParentInv, CommentsKept
<1>3. IDInv(q, ps2, cs2, pseq2, cseq2)
  BY DEF CallInv, IDInv
<1>4. AnswerInv(q, cs2)
  BY DEF CallInv, AnswerInv, CommentsKept
<1>5. ReasonInv(q, ps2)
  BY DEF CallInv, ReasonInv, PostsKept
<1> QED BY <1>1, <1>2, <1>3, <1>4, <1>5 DEF CallInv

\* A step of request r that leaves it the record q.
LEMMA StepPreserves ==
  ASSUME StoreInv, NEW r \in Requests, NEW q,
         req' = [req EXCEPT ![r] = q],
         CallInv(q, postRows', commentRows', postSeq', commentSeq'),
         RowsInv', postSeq <= postSeq', commentSeq <= commentSeq',
         PostsKept(postRows, postRows'), CommentsKept(commentRows, commentRows'),
         \A s \in Requests \ {r} :
           /\ Holding(req[s]) => postRows'[req[s].post].allowed = postRows[req[s].post].allowed
           /\ Posting(req[s]) => req[s].id \notin DOMAIN postRows' \ DOMAIN postRows
           /\ Writing(req[s]) => req[s].id \notin DOMAIN commentRows' \ DOMAIN commentRows
           /\ SameTable(req[s], q) => req[s].id # q.id
  PROVE  StoreInv'
<1>1. req' = [s \in Requests |-> IF s = r THEN q ELSE req[s]]
  BY DEF StoreInv
<1>2. ASSUME NEW s \in Requests
      PROVE  CallInv(req'[s], postRows', commentRows', postSeq', commentSeq')
  <2>1. CASE s = r
    BY <1>1, <2>1
  <2>2. CASE s # r
    <3>1. req'[s] = req[s]
      BY <1>1, <2>2
    <3>2. CallInv(req[s], postRows, commentRows, postSeq, commentSeq)
          /\ commentSeq \in Nat /\ commentSeq' \in Nat
          /\ postSeq \in Nat /\ postSeq' \in Nat
      BY DEF StoreInv, RowsInv
    <3> QED BY <2>2, <3>1, <3>2, CallOutlives
  <2> QED BY <2>1, <2>2
<1>3. DistinctIDs'
  <2> SUFFICES ASSUME NEW s \in Requests, NEW t \in Requests, s # t,
                      SameTable(req'[s], req'[t])
               PROVE  req'[s].id # req'[t].id
    BY DEF DistinctIDs, SameTable, Posting, Writing
  <2>1. /\ req'[s] = IF s = r THEN q ELSE req[s]
        /\ req'[t] = IF t = r THEN q ELSE req[t]
    BY <1>1
  <2>2. CASE s # r /\ t # r
    BY <2>1, <2>2 DEF StoreInv, DistinctIDs
  <2>3. CASE s = r
    <3>1. SameTable(req[t], q) /\ t # r
      BY <2>1, <2>3 DEF SameTable
    <3> QED BY <2>1, <2>3, <3>1
  <2>4. CASE t = r
    BY <2>1, <2>4
  <2> QED BY <2>2, <2>3, <2>4
<1> QED BY <1>1, <1>2, <1>3 DEF StoreInv

\* A step of request r that changes no rows.
LEMMA QuietStepPreserves ==
  ASSUME StoreInv, NEW r \in Requests, NEW q,
         req' = [req EXCEPT ![r] = q],
         UNCHANGED <<postRows, commentRows>>, commentSeq' \in Nat, postSeq' \in Nat,
         commentSeq <= commentSeq', postSeq <= postSeq',
         CallInv(q, postRows, commentRows, postSeq', commentSeq'),
         \/ ~Posting(q) /\ ~Posting(q) /\ ~Writing(q)
         \/ SameTable(req[r], q) /\ q.id = req[r].id
         \/ Posting(q) /\ q.id = postSeq + 1
         \/ Writing(q) /\ q.id = commentSeq + 1
  PROVE  StoreInv'
<1>1. RowsInv'
  BY DEF StoreInv, RowsInv, CommentsWhole
<1>2. ASSUME NEW s \in Requests \ {r}, SameTable(req[s], q)
      PROVE  req[s].id # q.id
  <2>1. /\ Posting(req[s]) => req[s].id \in 1..postSeq
        /\ Writing(req[s]) => req[s].id \in 1..commentSeq
        /\ postSeq \in Nat /\ commentSeq \in Nat
    BY DEF StoreInv, RowsInv, CallInv, IDInv
  <2>2. CASE Posting(q) /\ q.id = postSeq + 1
    BY <1>2, <2>1, <2>2 DEF SameTable, Posting, Writing
  <2>3. CASE Writing(q) /\ q.id = commentSeq + 1
    BY <1>2, <2>1, <2>3 DEF SameTable, Posting, Writing
  <2>4. CASE SameTable(req[r], q) /\ q.id = req[r].id
    BY <1>2, <2>4 DEF StoreInv, DistinctIDs, SameTable, Posting, Writing
  <2> QED BY <1>2, <2>2, <2>3, <2>4 DEF SameTable
<1>3. PostsKept(postRows, postRows') /\ CommentsKept(commentRows, commentRows')
  BY DEF PostsKept, CommentsKept
<1> QED BY <1>1, <1>2, <1>3, StepPreserves

-----------------------------------------------------------------------------
(* Reasons.  The conditions of ForumState in the rows of the store. *)

\* A condition that holds is among those that do.
LEMMA HeldConditions ==
  ASSUME NEW a, NEW b, NEW c, NEW d, NEW e, NEW f, NEW g
  PROVE  /\ b = TRUE => "ErrPostNotFound" \in
              Contract!Holding([ErrInvalidID |-> a, ErrPostNotFound |-> b, ErrForbidden |-> c])
         /\ c = TRUE => "ErrForbidden" \in
              Contract!Holding([ErrInvalidID |-> a, ErrPostNotFound |-> b, ErrForbidden |-> c])
         /\ LET all == Contract!Holding([ErrInvalidCommentBody |-> a, ErrInvalidID |-> b,
                         ErrPostNotFound |-> c, ErrCommentsDisabled |-> d,
                         ErrCommentNotFound |-> e, ErrParentNotInPost |-> f,
                         ErrParentDeleted |-> g])
            IN  /\ c = TRUE => "ErrPostNotFound" \in all
                /\ d = TRUE => "ErrCommentsDisabled" \in all
                /\ e = TRUE => "ErrCommentNotFound" \in all
                /\ f = TRUE => "ErrParentNotInPost" \in all
                /\ g = TRUE => "ErrParentDeleted" \in all
BY DEF Contract!Holding

\* What the queries of SetCommentsAllowed find is a reason.
LEMMA SwitchReasonsHold ==
  ASSUME NEW q, q.op = "SetCommentsAllowed", q.post \in Nat \ {0}
  PROVE  /\ q.post \notin DOMAIN postRows \/ postRows[q.post].deleted =>
              "ErrPostNotFound" \in Reasons(q)
         /\ q.post \in DOMAIN postRows /\ postRows[q.post].author # q.user =>
              "ErrForbidden" \in Reasons(q)
<1> DEFINE a == q.post <= 0
           b == q.post > 0 /\ ~Contract!LivePost(q.post)
           c == q.post \in DOMAIN postRows /\ postRows[q.post].author # q.user
<1>1. Reasons(q) = Contract!Holding([ErrInvalidID |-> a, ErrPostNotFound |-> b,
                                     ErrForbidden |-> c])
  BY DEF Reasons, Contract!SwitchReasons
<1>2. q.post \notin DOMAIN postRows \/ postRows[q.post].deleted => b = TRUE
  BY DEF Contract!LivePost
<1>3. q.post \in DOMAIN postRows /\ postRows[q.post].author # q.user => c = TRUE
  OBVIOUS
<1> HIDE DEF a, b, c
<1>4. b = TRUE => "ErrPostNotFound" \in Reasons(q)
  BY <1>1, HeldConditions
<1>5. c = TRUE => "ErrForbidden" \in Reasons(q)
  BY <1>1, HeldConditions
<1> QED BY <1>2, <1>3, <1>4, <1>5

\* So is what the two locking queries of CreateComment find.
LEMMA CommentReasonsHold ==
  ASSUME NEW q, q.op = "CreateComment", q.post \in Nat \ {0}
  PROVE  /\ q.post \notin DOMAIN postRows \/ postRows[q.post].deleted =>
              "ErrPostNotFound" \in Reasons(q)
         /\ q.post \in DOMAIN postRows /\ ~postRows[q.post].deleted
            /\ ~postRows[q.post].allowed =>
              "ErrCommentsDisabled" \in Reasons(q)
         /\ q.parent \in Nat \ {0} /\ q.parent \notin DOMAIN commentRows =>
              "ErrCommentNotFound" \in Reasons(q)
         /\ q.parent \in DOMAIN commentRows /\ commentRows[q.parent].post # q.post =>
              "ErrParentNotInPost" \in Reasons(q)
         /\ q.parent \in DOMAIN commentRows /\ commentRows[q.parent].deleted =>
              "ErrParentDeleted" \in Reasons(q)
<1> DEFINE cs == [k \in DOMAIN commentRows |-> [post    |-> commentRows[k].post,
                                                parent  |-> commentRows[k].parent,
                                                deleted |-> commentRows[k].deleted]]
           p == q.parent
           a == ~TRUE
           b == q.post <= 0 \/ (p # Contract!Nil /\ p <= 0)
           c == q.post > 0 /\ ~Contract!LivePost(q.post)
           d == Contract!LivePost(q.post) /\ ~postRows[q.post].allowed
           e == p # Contract!Nil /\ p > 0 /\ ~(p \in DOMAIN cs)
           f == p \in DOMAIN cs /\ cs[p].post # q.post
           g == p \in DOMAIN cs /\ cs[p].deleted
<1>1. Reasons(q) = Contract!Holding([ErrInvalidCommentBody |-> a, ErrInvalidID |-> b,
                         ErrPostNotFound |-> c, ErrCommentsDisabled |-> d,
                         ErrCommentNotFound |-> e, ErrParentNotInPost |-> f,
                         ErrParentDeleted |-> g])
  <2>1. Reasons(q) = Contract!CommentReasons(TRUE, q.post, q.parent)
    BY DEF Reasons
  <2> QED BY <2>1 DEF Contract!CommentReasons
<1>2. q.post \notin DOMAIN postRows \/ postRows[q.post].deleted => c = TRUE
  BY DEF Contract!LivePost
<1>3. q.post \in DOMAIN postRows /\ ~postRows[q.post].deleted
      /\ ~postRows[q.post].allowed => d = TRUE
  BY DEF Contract!LivePost
<1>4. q.parent \in Nat \ {0} /\ q.parent \notin DOMAIN commentRows => e = TRUE
  BY DEF Contract!Nil
<1>5. q.parent \in DOMAIN commentRows /\ commentRows[q.parent].post # q.post => f = TRUE
  <2>1. p \in DOMAIN commentRows => p \in DOMAIN cs /\ cs[p].post = commentRows[p].post
    OBVIOUS
  <2> QED BY <2>1
<1>6. q.parent \in DOMAIN commentRows /\ commentRows[q.parent].deleted => g = TRUE
  OBVIOUS
<1> HIDE DEF a, b, c, d, e, f, g
<1>7. /\ c = TRUE => "ErrPostNotFound" \in Reasons(q)
      /\ d = TRUE => "ErrCommentsDisabled" \in Reasons(q)
      /\ e = TRUE => "ErrCommentNotFound" \in Reasons(q)
      /\ f = TRUE => "ErrParentNotInPost" \in Reasons(q)
      /\ g = TRUE => "ErrParentDeleted" \in Reasons(q)
  <2> DEFINE all == Contract!Holding([ErrInvalidCommentBody |-> a, ErrInvalidID |-> b,
                         ErrPostNotFound |-> c, ErrCommentsDisabled |-> d,
                         ErrCommentNotFound |-> e, ErrParentNotInPost |-> f,
                         ErrParentDeleted |-> g])
  <2>1. /\ c = TRUE => "ErrPostNotFound" \in all
        /\ d = TRUE => "ErrCommentsDisabled" \in all
        /\ e = TRUE => "ErrCommentNotFound" \in all
        /\ f = TRUE => "ErrParentNotInPost" \in all
        /\ g = TRUE => "ErrParentDeleted" \in all
    BY ONLY HeldConditions
  <2>2. Reasons(q) = all
    BY ONLY <1>1
  <2> HIDE DEF all
  <2> QED BY ONLY <2>1, <2>2
<1> QED BY <1>2, <1>3, <1>4, <1>5, <1>6, <1>7

-----------------------------------------------------------------------------
(* The steps of every call. *)

\* Three statements change what others see.
LEMMA WritersOfRows ==
  ASSUME [Next]_vars
  PROVE  \/ UNCHANGED <<postRows, commentRows>>
         \/ \E r \in Requests : CommitPost(r) \/ UpdatePost(r) \/ Commit(r)
<1>1. CASE UNCHANGED vars
  BY <1>1 DEF vars
<1>2. ASSUME NEW r \in Requests,
             \/ Call(r) \/ Acquire(r) \/ Explain(r) \/ Fail(r) \/ Return(r)
             \/ InsertPost(r) \/ UpdateNothing(r) \/ LockPost(r) \/ LockParent(r)
             \/ InsertComment(r) \/ UpdateCommentPath(r) \/ Rollback(r)
      PROVE  UNCHANGED <<postRows, commentRows>>
  <2>1. CASE Call(r)
    BY <2>1 DEF Call, CreatePost, SetCommentsAllowed, CreateComment, Begin
  <2>2. CASE Acquire(r) \/ Explain(r) \/ Fail(r) \/ Return(r)
    BY <2>2 DEF Acquire, Explain, Fail, Return
  <2>3. CASE InsertPost(r) \/ UpdateNothing(r) \/ InsertComment(r) \/ UpdateCommentPath(r)
    BY <2>3 DEF InsertPost, UpdateNothing, InsertComment, UpdateCommentPath
  <2>4. CASE LockPost(r) \/ LockParent(r) \/ Rollback(r)
    BY <2>4 DEF LockPost, LockParent, ReadParent, Rollback
  <2> QED BY <1>2, <2>1, <2>2, <2>3, <2>4
<1>3. CASE Next
  <2>1. PICK r \in Requests :
          Call(r) \/ Acquire(r) \/ Statement(r) \/ Explain(r) \/ Fail(r) \/ Return(r)
    BY <1>3 DEF Next
  <2> QED BY <1>2, <2>1 DEF Statement
<1> QED BY <1>1, <1>3

\* What the invariant says of one request.
LEMMA CallHolds ==
  ASSUME StoreInv, NEW r \in Requests
  PROVE  /\ CallInv(req[r], postRows, commentRows, postSeq, commentSeq)
         /\ CallTypeOK(req[r]) /\ req[r] \in CallRec(req[r].path, req[r].reasons)
         /\ commentSeq \in Nat /\ postSeq \in Nat
BY DEF StoreInv, CallInv, CallTypeOK, RowsInv

\* A step of request r that changes nothing but its record.
LEMMA SilentStepPreserves ==
  ASSUME StoreInv, NEW r \in Requests, NEW q,
         req' = [req EXCEPT ![r] = q],
         UNCHANGED <<postRows, commentRows, postSeq, commentSeq>>,
         CallInv(q, postRows, commentRows, postSeq, commentSeq),
         \/ ~Posting(q) /\ ~Posting(q) /\ ~Writing(q)
         \/ SameTable(req[r], q) /\ q.id = req[r].id
  PROVE  StoreInv'
<1>1. /\ commentSeq' = commentSeq /\ postSeq' = postSeq
      /\ commentSeq \in Nat /\ postSeq \in Nat
  BY CallHolds
<1>2. /\ commentSeq' \in Nat /\ postSeq' \in Nat
      /\ commentSeq <= commentSeq' /\ postSeq <= postSeq'
  BY <1>1
<1>3. CallInv(q, postRows, commentRows, postSeq', commentSeq')
  BY <1>1
<1> QED BY <1>2, <1>3, QuietStepPreserves

\* Most of the invariant is about calls in a transaction: it asks little of one
\* that is before its first statement or has been given up.
LEMMA OutsideTransaction ==
  ASSUME NEW q, CallTypeOK(q),
         \/ q.at = "idle"
         \/ q.at \in {"begin", "insertPost", "update", "lockPost"}
            /\ q.path = <<>> /\ q.id = 0
         \/ q.at \in {"rollback", "done"} /\ q.err = "failed"
         \/ q.at = "done" /\ q.op # "CreateComment"
            /\ q.err \in {"none", "failed"} \cup q.reasons
  PROVE  /\ CallInv(q, postRows, commentRows, postSeq, commentSeq)
         /\ ~Posting(q) /\ ~Writing(q)
<1>1. ~Posting(q) /\ ~Writing(q) /\ ~Holding(q)
  BY DEF Posting, Writing, Holding
<1>2. LockInv(q, postRows)
  BY <1>1 DEF LockInv
<1>3. ParentInv(q, commentRows)
  BY DEF ParentInv
<1>4. IDInv(q, postRows, commentRows, postSeq, commentSeq)
  BY <1>1 DEF IDInv
<1>5. AnswerInv(q, commentRows)
  BY DEF AnswerInv
<1>6. ReasonInv(q, postRows)
  BY DEF ReasonInv
<1> QED BY <1>1, <1>2, <1>3, <1>4, <1>5, <1>6 DEF CallInv

LEMMA NoCallFacts ==
  /\ NoCall \in CallRec(<<>>, {})
  /\ NoCall.at = "idle" /\ NoCall.id = 0 /\ NoCall.err = "none" /\ NoCall.path = <<>>
BY DEF NoCall, CallRec, Errors, Nil

LEMMA CallPreserves ==
  ASSUME StoreInv, NEW r \in Requests, Call(r)
  PROVE  StoreInv'
<1>1. ASSUME NEW q \in CallRec(<<>>, {}), Begin(r, q),
             q.op \in Ops, q.path = <<>>, q.id = 0, q.err = "none",
             q.op # "CreatePost" => q.post > 0,
             q.op = "CreateComment" => q.parent = Nil \/ q.parent > 0
      PROVE  StoreInv'
  <2> DEFINE why == Reasons(q)
             b == [q EXCEPT !.at = "begin", !.reasons = why]
  <2>1. /\ req' = [req EXCEPT ![r] = b]
        /\ UNCHANGED <<postRows, commentRows, postSeq, commentSeq>>
    BY <1>1 DEF Begin
  <2>2. CallTypeOK(b) /\ b.at = "begin" /\ b.path = <<>> /\ b.id = 0
    <3> HIDE DEF why
    <3> QED BY <1>1 DEF CallTypeOK, CallRec, Connected, InTx
  <2> HIDE DEF b
  <2> QED BY <2>1, <2>2, OutsideTransaction, SilentStepPreserves
<1>2. ASSUME NEW user \in Users, CreatePost(r, user) PROVE StoreInv'
  <2> DEFINE q == [NoCall EXCEPT !.op = "CreatePost", !.user = user]
  <2>1. /\ q \in CallRec(<<>>, {}) /\ q.op = "CreatePost"
        /\ q.path = <<>> /\ q.id = 0 /\ q.err = "none"
    BY NoCallFacts DEF CallRec, Ops
  <2>2. Begin(r, q)
    BY <1>2 DEF CreatePost
  <2> HIDE DEF q
  <2> QED BY <1>1, <2>1, <2>2 DEF Ops
<1>3. ASSUME NEW post \in PostIDs \ {0}, NEW user \in Users, NEW allowed \in BOOLEAN,
             SetCommentsAllowed(r, post, user, allowed)
      PROVE  StoreInv'
  <2> DEFINE q == [NoCall EXCEPT !.op = "SetCommentsAllowed", !.post = post,
                                 !.user = user, !.allowed = allowed]
  <2>1. post \in Nat /\ post > 0
    BY PostgresAssumption DEF PostIDs
  <2>2. /\ q \in CallRec(<<>>, {}) /\ q.op = "SetCommentsAllowed" /\ q.post > 0
        /\ q.path = <<>> /\ q.id = 0 /\ q.err = "none"
    BY <2>1, NoCallFacts DEF CallRec, Ops
  <2>3. Begin(r, q)
    BY <1>3 DEF SetCommentsAllowed
  <2> HIDE DEF q
  <2> QED BY <1>1, <2>2, <2>3 DEF Ops
<1>4. ASSUME NEW post \in PostIDs \ {0}, NEW parent \in (CommentIDs \ {0}) \cup {Nil},
             CreateComment(r, post, parent)
      PROVE  StoreInv'
  <2> DEFINE q == [NoCall EXCEPT !.op = "CreateComment", !.post = post, !.parent = parent]
  <2>1. post \in Nat /\ post > 0 /\ parent \in Int /\ (parent = Nil \/ parent > 0)
    BY PostgresAssumption DEF PostIDs, CommentIDs, Nil
  <2>2. /\ q \in CallRec(<<>>, {}) /\ q.op = "CreateComment" /\ q.post > 0
        /\ q.path = <<>> /\ q.id = 0 /\ q.err = "none"
        /\ q.parent = Nil \/ q.parent > 0
    BY <2>1, NoCallFacts DEF CallRec, Ops
  <2>3. Begin(r, q)
    BY <1>4 DEF CreateComment
  <2> HIDE DEF q
  <2> QED BY <1>1, <2>2, <2>3 DEF Ops
<1> QED BY <1>2, <1>3, <1>4 DEF Call

\* Statements fail anywhere, and connections come and go.
LEMMA PassPreserves ==
  ASSUME StoreInv, NEW r \in Requests,
         Acquire(r) \/ Fail(r) \/ Return(r) \/ Rollback(r)
  PROVE  StoreInv'
<1>t. CallTypeOK(req[r]) /\ CallInv(req[r], postRows, commentRows, postSeq, commentSeq)
  BY CallHolds
<1>1. CASE Acquire(r)
  <2> DEFINE at == FirstStatement[req[r].op]
             q == [req[r] EXCEPT !.at = at]
  <2>1. /\ req' = [req EXCEPT ![r] = q] /\ req[r].at = "begin"
        /\ UNCHANGED <<postRows, commentRows, postSeq, commentSeq>>
    BY <1>1 DEF Acquire
  <2>2. /\ req[r].op \in Ops
        /\ at = IF req[r].op = "CreatePost" THEN "insertPost"
                ELSE IF req[r].op = "SetCommentsAllowed" THEN "update" ELSE "lockPost"
    BY <1>t, <2>1 DEF CallTypeOK, Ops, FirstStatement
  <2> HIDE DEF at
  <2>3. CallTypeOK(q) /\ q.id = req[r].id /\ q.path = req[r].path
        /\ q.at \in {"insertPost", "update", "lockPost"} /\ q.op = req[r].op
        /\ q.reasons = req[r].reasons /\ q.at = at
    BY <1>t, <2>1, <2>2 DEF CallTypeOK, CallRec, Ops, Connected, InTx
  <2> HIDE DEF q
  <2>4. CallInv(q, postRows, commentRows, postSeq, commentSeq) /\ ~Posting(q) /\ ~Writing(q)
    BY <1>t, <2>1, <2>2, <2>3
    DEF CallInv, LockInv, ParentInv, IDInv, AnswerInv, ReasonInv, Holding, Posting, Writing, Ops
  <2> QED BY <2>1, <2>4, SilentStepPreserves
<1>2. CASE Fail(r)
  <2> DEFINE q == IF req[r].at \in InTx THEN GiveUp(r, "failed") ELSE Answered(r, "failed")
  <2>1. /\ req' = [req EXCEPT ![r] = q] /\ req[r].at \notin {"idle", "rollback", "done"}
        /\ UNCHANGED <<postRows, commentRows, postSeq, commentSeq>>
    BY <1>2 DEF Fail
  <2>2. CallTypeOK(q) /\ q.at \in {"rollback", "done"} /\ q.err = "failed"
    <3>1. CASE req[r].at \in InTx
      <4>1. q = [req[r] EXCEPT !.at = "rollback", !.err = "failed"]
        BY <3>1 DEF GiveUp
      <4> HIDE DEF q
      <4> QED BY <1>t, <2>1, <3>1, <4>1 DEF CallTypeOK, CallRec, Connected, InTx, Errors
    <3>2. CASE req[r].at \notin InTx
      <4>1. q = [req[r] EXCEPT !.at = "done", !.err = "failed"]
        BY <3>2 DEF Answered
      <4> HIDE DEF q
      <4> QED BY <1>t, <2>1, <3>2, <4>1 DEF CallTypeOK, CallRec, Connected, InTx, Errors
    <3> QED BY <3>1, <3>2
  <2> HIDE DEF q
  <2> QED BY <2>1, <2>2, OutsideTransaction, SilentStepPreserves
<1>3. CASE Return(r)
  <2>1. CallTypeOK(NoCall)
    BY NoCallFacts DEF CallTypeOK, InTx, CallRec
  <2> QED BY <1>3, <2>1, NoCallFacts, OutsideTransaction, SilentStepPreserves DEF Return
<1>4. CASE Rollback(r)
  <2> DEFINE q == [req[r] EXCEPT !.at = "done", !.err = req[r].err]
  <2>1. /\ req' = [req EXCEPT ![r] = q] /\ req[r].at = "rollback"
        /\ UNCHANGED <<postRows, commentRows, postSeq, commentSeq>>
    BY <1>4 DEF Rollback, Answered
  <2>2. CallTypeOK(q) /\ q.at = "done" /\ q.err = req[r].err /\ q.id = req[r].id
        /\ q.reasons = req[r].reasons
    BY <1>t, <2>1 DEF CallTypeOK, CallRec, Connected, InTx
  <2> HIDE DEF q
  <2>3. CallInv(q, postRows, commentRows, postSeq, commentSeq) /\ ~Posting(q) /\ ~Writing(q)
    BY <1>t, <2>1, <2>2
    DEF CallInv, LockInv, ParentInv, IDInv, AnswerInv, ReasonInv, Holding, Posting, Writing
  <2> QED BY <2>1, <2>3, SilentStepPreserves
<1> QED BY <1>1, <1>2, <1>3, <1>4

-----------------------------------------------------------------------------
(* The statements that change no committed row. *)

\* SetCommentsAllowed: what the second query finds was a reason at one of the two.
LEMMA ExplainPreserves ==
  ASSUME StoreInv, NEW r \in Requests, UpdateNothing(r) \/ Explain(r)
  PROVE  StoreInv'
<1>t. CallTypeOK(req[r]) /\ CallInv(req[r], postRows, commentRows, postSeq, commentSeq)
  BY CallHolds
<1> DEFINE why == req[r].reasons \cup Reasons(req[r])
<1>w. ASSUME req[r].at \in {"update", "explain"}
      PROVE  /\ req[r].op = "SetCommentsAllowed" /\ req[r].post \in Nat \ {0}
             /\ req[r].post \notin DOMAIN postRows \/ postRows[req[r].post].deleted =>
                  "ErrPostNotFound" \in why
             /\ req[r].post \in DOMAIN postRows
                /\ postRows[req[r].post].author # req[r].user => "ErrForbidden" \in why
  <2>1. req[r].op = "SetCommentsAllowed" /\ req[r].post \in Nat \ {0}
    BY <1>t, <1>w DEF CallTypeOK, CallRec
  <2> QED BY <2>1, SwitchReasonsHold
<1>1. CASE UpdateNothing(r)
  <2> DEFINE q == [req[r] EXCEPT !.at = "explain", !.reasons = why]
  <2>1. /\ req' = [req EXCEPT ![r] = q] /\ req[r].at = "update" /\ ~Matches(r)
        /\ UNCHANGED <<postRows, commentRows, postSeq, commentSeq>>
    BY <1>1 DEF UpdateNothing
  <2>2. \/ "ErrPostNotFound" \in why
        \/ req[r].post \in DOMAIN postRows /\ postRows[req[r].post].author # req[r].user
    BY <1>w, <2>1 DEF Matches
  <2> HIDE DEF why
  <2>3. CallTypeOK(q) /\ q.at = "explain" /\ q.reasons = why
        /\ q.post = req[r].post /\ q.user = req[r].user /\ q.op = "SetCommentsAllowed"
    BY <1>t, <1>w, <2>1 DEF CallTypeOK, CallRec, Connected, InTx
  <2> HIDE DEF q
  <2>4. CallInv(q, postRows, commentRows, postSeq, commentSeq) /\ ~Posting(q) /\ ~Writing(q)
    BY <2>2, <2>3
    DEF CallInv, LockInv, ParentInv, IDInv, AnswerInv, ReasonInv, Holding, Posting, Writing
  <2> QED BY <2>1, <2>4, SilentStepPreserves
<1>2. CASE Explain(r)
  <2> DEFINE err == IF req[r].post \notin DOMAIN postRows THEN "ErrPostNotFound"
                    ELSE IF postRows[req[r].post].author # req[r].user THEN "ErrForbidden"
                    ELSE "ErrPostNotFound"
             a == Answered(r, err)
             q == [a EXCEPT !.reasons = @ \cup Reasons(req[r])]
  <2>1. /\ req' = [req EXCEPT ![r] = q] /\ req[r].at = "explain"
        /\ UNCHANGED <<postRows, commentRows, postSeq, commentSeq>>
    BY <1>2 DEF Explain
  <2>2. \/ "ErrPostNotFound" \in req[r].reasons
        \/ req[r].post \in DOMAIN postRows /\ postRows[req[r].post].author # req[r].user
    BY <1>t, <2>1 DEF CallInv, ReasonInv
  <2>3. err \in why /\ err \in Errors
    BY <1>w, <2>1, <2>2 DEF Errors
  <2> HIDE DEF err
  <2>4. /\ CallTypeOK(a) /\ a \in CallRec(req[r].path, req[r].reasons)
        /\ a.at = "done" /\ a.err = err
        /\ a.op = "SetCommentsAllowed" /\ a.reasons = req[r].reasons
    BY <1>t, <1>w, <2>1, <2>3 DEF CallTypeOK, CallRec, Connected, InTx, Answered
  <2>5. q = [a EXCEPT !.reasons = why]
    BY <2>4
  <2> HIDE DEF a, q, why
  <2>6. CallTypeOK(q) /\ q.at = "done" /\ q.err = err /\ q.reasons = why
        /\ q.op = "SetCommentsAllowed"
    BY <2>4, <2>5 DEF CallTypeOK, CallRec, Connected, InTx
  <2>7. CallInv(q, postRows, commentRows, postSeq, commentSeq) /\ ~Posting(q) /\ ~Writing(q)
    BY <2>3, <2>6, OutsideTransaction
  <2> QED BY <2>1, <2>7, SilentStepPreserves
<1> QED BY <1>1, <1>2

\* The two queries of CreateComment that lock: what they refuse, they refuse for a
\* reason; what they let pass holds as long as the lock.
LEMMA LockPreserves ==
  ASSUME StoreInv, NEW r \in Requests, LockPost(r) \/ LockParent(r)
  PROVE  StoreInv'
<1>t. CallTypeOK(req[r]) /\ CallInv(req[r], postRows, commentRows, postSeq, commentSeq)
  BY CallHolds
<1> DEFINE why == req[r].reasons \cup Reasons(req[r])
<1>w. ASSUME req[r].at \in {"lockPost", "lockParent"}
      PROVE  /\ req[r].op = "CreateComment" /\ req[r].post \in Nat \ {0}
             /\ req[r].id = 0 /\ req[r].path = <<>>
             /\ req[r].parent = Nil \/ req[r].parent \in Nat \ {0}
             /\ req[r].at = "lockParent" => req[r].parent # Nil
  BY <1>t, <1>w DEF CallTypeOK, CallRec, CallInv, IDInv, ParentInv, InTx, Nil
\* A refusal.
<1>g. ASSUME NEW err \in Errors, err \in why, err \notin {"none", "failed"},
             req[r].at \in {"lockPost", "lockParent"},
             req' = [req EXCEPT ![r] = [GiveUp(r, err) EXCEPT !.reasons = @ \cup Reasons(req[r])]],
             UNCHANGED <<postRows, commentRows, postSeq, commentSeq>>
      PROVE  StoreInv'
  <2> DEFINE a == GiveUp(r, err)
             q == [a EXCEPT !.reasons = @ \cup Reasons(req[r])]
  <2>1. /\ CallTypeOK(a) /\ a \in CallRec(req[r].path, req[r].reasons)
        /\ a.at = "rollback" /\ a.err = err /\ a.id = 0
        /\ a.op = "CreateComment" /\ a.reasons = req[r].reasons
    BY <1>t, <1>w, <1>g DEF CallTypeOK, CallRec, Connected, InTx, GiveUp
  <2>2. q = [a EXCEPT !.reasons = why]
    BY <2>1
  <2>3. req' = [req EXCEPT ![r] = q]
    BY <1>g
  <2>4. err \in why
    BY <1>g
  <2> HIDE DEF a, q, why
  <2>5. CallTypeOK(q) /\ q.at = "rollback" /\ q.err = err /\ q.reasons = why
        /\ q.op = "CreateComment" /\ q.id = 0
    BY <2>1, <2>2 DEF CallTypeOK, CallRec, Connected, InTx
  <2>6. CallInv(q, postRows, commentRows, postSeq, commentSeq) /\ ~Posting(q) /\ ~Writing(q)
    BY <1>g, <2>4, <2>5
    DEF CallInv, LockInv, ParentInv, IDInv, AnswerInv, ReasonInv, Holding, Posting, Writing
  <2> QED BY <1>g, <2>3, <2>6, SilentStepPreserves
<1>1. CASE LockPost(r)
  <2> DEFINE post == req[r].post
             err  == IF post \notin DOMAIN postRows \/ postRows[post].deleted
                     THEN "ErrPostNotFound"
                     ELSE IF ~postRows[post].allowed THEN "ErrCommentsDisabled"
                     ELSE "none"
             to == IF req[r].parent = Nil THEN "insert" ELSE "lockParent"
             next == IF err # "none" THEN GiveUp(r, err) ELSE [req[r] EXCEPT !.at = to]
  <2>1. /\ req' = [req EXCEPT ![r] = [next EXCEPT !.reasons = @ \cup Reasons(req[r])]]
        /\ req[r].at = "lockPost"
        /\ UNCHANGED <<postRows, commentRows, postSeq, commentSeq>>
    BY <1>1 DEF LockPost
  <2>2. err = "none" \/ (err \in why /\ err \in Errors)
    BY <1>w, <2>1, CommentReasonsHold DEF Errors
  <2>3. err = "none" => post \in DOMAIN postRows /\ postRows[post].allowed
                        /\ ~postRows[post].deleted
    OBVIOUS
  <2>4. err # "failed"
    OBVIOUS
  <2> HIDE DEF err
  <2>5. CASE err # "none"
    BY <1>g, <2>1, <2>2, <2>4, <2>5
  <2>6. CASE err = "none"
    <3> DEFINE a == [req[r] EXCEPT !.at = to]
               q == [a EXCEPT !.reasons = @ \cup Reasons(req[r])]
    <3>1. /\ CallTypeOK(a) /\ a \in CallRec(req[r].path, req[r].reasons)
          /\ a.at = to /\ a.post = post /\ a.parent = req[r].parent /\ a.id = 0
          /\ a.op = "CreateComment" /\ a.reasons = req[r].reasons /\ a.path = <<>>
      BY <1>t, <1>w, <2>1 DEF CallTypeOK, CallRec, Connected, InTx
    <3>2. q = [a EXCEPT !.reasons = why]
      BY <3>1
    <3>3. req' = [req EXCEPT ![r] = q]
      BY <2>1, <2>6
    <3> HIDE DEF a, q, why
    <3>4. CallTypeOK(q) /\ q.at = to /\ q.post = post /\ q.parent = req[r].parent
          /\ q.id = 0 /\ q.op = "CreateComment" /\ q.path = <<>>
      BY <3>1, <3>2 DEF CallTypeOK, CallRec, Connected, InTx
    <3>5. CallInv(q, postRows, commentRows, postSeq, commentSeq) /\ ~Posting(q) /\ ~Writing(q)
      BY <2>3, <2>6, <3>4
      DEF CallInv, LockInv, ParentInv, IDInv, AnswerInv, ReasonInv, Holding, Posting, Writing
    <3> QED BY <2>1, <3>3, <3>5, SilentStepPreserves
  <2> QED BY <2>5, <2>6
<1>2. CASE LockParent(r)
  <2> DEFINE parent == req[r].parent
             err == ParentError(r)
             path == commentRows[parent].path
             next == IF err # "none" THEN GiveUp(r, err)
                     ELSE [req[r] EXCEPT !.at = "insert", !.path = path]
  <2>1. /\ req' = [req EXCEPT ![r] = [next EXCEPT !.reasons = @ \cup Reasons(req[r])]]
        /\ req[r].at = "lockParent"
        /\ UNCHANGED <<postRows, commentRows, postSeq, commentSeq>>
    BY <1>2 DEF LockParent, ReadParent
  <2>2. err = "none" \/ (err \in why /\ err \in Errors)
    BY <1>w, <2>1, CommentReasonsHold DEF Errors, ParentError
  <2>3. err = "none" => parent \in DOMAIN commentRows /\ commentRows[parent].post = req[r].post
    BY DEF ParentError
  <2>4. err # "failed"
    BY DEF ParentError
  <2>5. LockInv(req[r], postRows)
    BY <1>t DEF CallInv
  <2> HIDE DEF err
  <2>6. CASE err # "none"
    BY <1>g, <2>1, <2>2, <2>4, <2>6
  <2>7. CASE err = "none"
    <3> DEFINE a == [req[r] EXCEPT !.at = "insert", !.path = path]
               q == [a EXCEPT !.reasons = @ \cup Reasons(req[r])]
    <3>n. parent # Nil
      BY <2>3, <2>7, CallHolds DEF Nil, StoreInv, RowsInv
    <3> HIDE DEF path
    <3>1. /\ CallTypeOK(a) /\ a \in CallRec(path, req[r].reasons)
          /\ a.at = "insert" /\ a.post = req[r].post /\ a.parent = parent /\ a.id = 0
          /\ a.op = "CreateComment" /\ a.reasons = req[r].reasons /\ a.path = path
      BY <1>t, <1>w, <2>1 DEF CallTypeOK, CallRec, Connected, InTx
    <3>2. q = [a EXCEPT !.reasons = why]
      BY <3>1
    <3>3. req' = [req EXCEPT ![r] = q]
      BY <2>1, <2>7 DEF path
    <3> HIDE DEF a, q, why
    <3>4. CallTypeOK(q) /\ q.at = "insert" /\ q.post = req[r].post /\ q.parent = parent
          /\ q.id = 0 /\ q.op = "CreateComment" /\ q.path = path
      BY <3>1, <3>2 DEF CallTypeOK, CallRec, Connected, InTx
    <3>5. LockInv(q, postRows)
      BY <2>1, <2>5, <3>4 DEF LockInv, Holding
    <3>6. ParentInv(q, commentRows)
      BY <2>3, <2>7, <3>n, <3>4 DEF ParentInv, path
    <3>7. CallInv(q, postRows, commentRows, postSeq, commentSeq) /\ ~Posting(q) /\ ~Writing(q)
      BY <3>4, <3>5, <3>6 DEF CallInv, IDInv, AnswerInv, ReasonInv, Posting, Writing
    <3> QED BY <2>1, <3>3, <3>7, SilentStepPreserves
  <2> QED BY <2>6, <2>7
<1> QED BY <1>1, <1>2

-----------------------------------------------------------------------------
(* The inserts, which take ids, and the second statement that writes a comment. *)

LEMMA InsertPreserves ==
  ASSUME StoreInv, NEW r \in Requests,
         InsertPost(r) \/ InsertComment(r) \/ UpdateCommentPath(r)
  PROVE  StoreInv'
<1>t. /\ CallTypeOK(req[r]) /\ CallInv(req[r], postRows, commentRows, postSeq, commentSeq)
      /\ postSeq \in Nat /\ commentSeq \in Nat
      /\ DOMAIN postRows \subseteq 1..postSeq /\ DOMAIN commentRows \subseteq 1..commentSeq
  BY CallHolds DEF StoreInv, RowsInv
<1>1. CASE InsertPost(r)
  <2> DEFINE id == postSeq + 1
  <2>1. PICK now \in Times :
          /\ req' = [req EXCEPT ![r].at = "commitPost", ![r].id = id, ![r].createdAt = now]
          /\ req[r].at = "insertPost" /\ postSeq' = id
          /\ UNCHANGED <<postRows, commentRows, commentSeq>>
    BY <1>1 DEF InsertPost
  <2> DEFINE q == [req[r] EXCEPT !.at = "commitPost", !.id = id, !.createdAt = now]
  <2>2. req' = [req EXCEPT ![r] = q]
    BY <2>1 DEF StoreInv
  <2>3. id \in Nat /\ id \in 1..postSeq' /\ id \notin DOMAIN postRows
    BY <1>t, <2>1
  <2> HIDE DEF id
  <2>4. CallTypeOK(q) /\ q.at = "commitPost" /\ q.id = id /\ q.op = "CreatePost"
    BY <1>t, <2>1, <2>3 DEF CallTypeOK, CallRec, Connected, InTx
  <2> HIDE DEF q
  <2>5. CallInv(q, postRows, commentRows, postSeq', commentSeq')
    BY <2>3, <2>4
    DEF CallInv, LockInv, ParentInv, IDInv, AnswerInv, ReasonInv, Holding, Posting, Writing
  <2>6. Posting(q) /\ q.id = postSeq + 1 /\ postSeq <= postSeq' /\ postSeq' \in Nat
        /\ commentSeq <= commentSeq' /\ commentSeq' \in Nat
    BY <1>t, <2>1, <2>4 DEF Posting, id
  <2> QED BY <2>1, <2>2, <2>5, <2>6, QuietStepPreserves
<1>2. CASE InsertComment(r)
  <2> DEFINE id == commentSeq + 1
             q == [req[r] EXCEPT !.at = "setPath", !.id = id]
  <2>1. /\ req' = [req EXCEPT ![r].at = "setPath", ![r].id = id]
        /\ req[r].at = "insert" /\ commentSeq' = id
        /\ UNCHANGED <<postRows, commentRows, postSeq>>
    BY <1>2 DEF InsertComment
  <2>2. req' = [req EXCEPT ![r] = q]
    BY <2>1 DEF StoreInv
  <2>3. id \in Nat /\ id \in 1..commentSeq' /\ id \notin DOMAIN commentRows
    BY <1>t, <2>1
  <2> HIDE DEF id
  <2>4. /\ CallTypeOK(q) /\ q.at = "setPath" /\ q.id = id /\ q.op = "CreateComment"
        /\ q.post = req[r].post /\ q.parent = req[r].parent /\ q.path = req[r].path
    BY <1>t, <2>1, <2>3 DEF CallTypeOK, CallRec, Connected, InTx
  <2> HIDE DEF q
  <2>5. CallInv(q, postRows, commentRows, postSeq', commentSeq')
    BY <1>t, <2>1, <2>3, <2>4
    DEF CallInv, LockInv, ParentInv, IDInv, AnswerInv, ReasonInv, Holding, Posting, Writing
  <2>6. Writing(q) /\ q.id = commentSeq + 1 /\ commentSeq <= commentSeq'
        /\ commentSeq' \in Nat /\ postSeq <= postSeq' /\ postSeq' \in Nat
    BY <1>t, <2>1, <2>4 DEF Writing, id
  <2> QED BY <2>1, <2>2, <2>5, <2>6, QuietStepPreserves
<1>3. CASE UpdateCommentPath(r)
  <2> DEFINE path == ChildPath(req[r].path, req[r].id)
             q == [req[r] EXCEPT !.at = "commit", !.path = path]
  <2>1. /\ req' = [req EXCEPT ![r] = q] /\ req[r].at = "setPath"
        /\ UNCHANGED <<postRows, commentRows, postSeq, commentSeq>>
    BY <1>3 DEF UpdateCommentPath, StoreInv
  <2>2. req[r].path = <<>> => path = PadID(req[r].id)
    BY DEF ChildPath
  <2> HIDE DEF path
  <2>3. /\ CallTypeOK(q) /\ q.at = "commit" /\ q.id = req[r].id /\ q.op = "CreateComment"
        /\ q.post = req[r].post /\ q.parent = req[r].parent /\ q.path = path
    BY <1>t, <2>1 DEF CallTypeOK, CallRec, Connected, InTx
  <2> HIDE DEF q
  <2>4. ParentInv(q, commentRows)
    BY <1>t, <2>1, <2>2, <2>3 DEF CallInv, ParentInv, path
  <2>5. CallInv(q, postRows, commentRows, postSeq, commentSeq)
    BY <1>t, <2>1, <2>3, <2>4
    DEF CallInv, LockInv, IDInv, AnswerInv, ReasonInv, Holding, Posting, Writing
  <2>6. SameTable(req[r], q) /\ q.id = req[r].id
    BY <2>1, <2>3 DEF SameTable, Writing
  <2> QED BY <2>1, <2>5, <2>6, SilentStepPreserves
<1> QED BY <1>1, <1>2, <1>3

-----------------------------------------------------------------------------
(* The statements that commit rows. *)

\* The answer of a call that has committed.
LEMMA CommittedAnswer ==
  ASSUME StoreInv, NEW r \in Requests, NEW err \in Reported, req[r].at # "idle"
  PROVE  /\ CallTypeOK(Answered(r, err))
         /\ Answered(r, err).at = "done" /\ Answered(r, err).err = err
         /\ Answered(r, err).op = req[r].op /\ Answered(r, err).id = req[r].id
         /\ Answered(r, err).post = req[r].post /\ Answered(r, err).path = req[r].path
         /\ Answered(r, err).parent = req[r].parent
         /\ ~Posting(Answered(r, err)) /\ ~Writing(Answered(r, err))
<1> DEFINE q == req[r]
           a == Answered(r, err)
<1>1. CallTypeOK(q)
  BY CallHolds
<1>2. q \in CallRec(q.path, q.reasons) /\ a = [q EXCEPT !.at = "done", !.err = err]
  BY <1>1 DEF CallTypeOK, Answered
<1>3. err \in Errors
  BY DEF Reported, Errors
<1> HIDE DEF q, a
<1>4. /\ a \in CallRec(q.path, q.reasons)
      /\ a.at = "done" /\ a.err = err /\ a.path = q.path /\ a.reasons = q.reasons
      /\ a.op = q.op /\ a.id = q.id /\ a.post = q.post /\ a.parent = q.parent
  BY ONLY <1>2, <1>3 DEF CallRec
<1>5. CallTypeOK(a)
  <2>1. q.at # "idle"
    BY DEF q
  <2> QED BY ONLY <1>1, <1>4, <2>1 DEF CallTypeOK, InTx
<1> QED BY <1>4, <1>5 DEF q, a, Posting, Writing

LEMMA CommitPostPreserves ==
  ASSUME StoreInv, NEW r \in Requests, CommitPost(r)
  PROVE  StoreInv'
<1> DEFINE id  == req[r].id
           row == [author |-> req[r].user, createdAt |-> req[r].createdAt,
                   allowed |-> TRUE, deleted |-> FALSE]
<1>1. PICK err \in Reported : req' = [req EXCEPT ![r] = Answered(r, err)]
  BY DEF CommitPost
<1>2. /\ req[r].at = "commitPost" /\ postRows' = With(postRows, id, row)
      /\ UNCHANGED <<commentRows, postSeq, commentSeq>>
  BY DEF CommitPost
<1>3. /\ CallTypeOK(req[r]) /\ CallInv(req[r], postRows, commentRows, postSeq, commentSeq)
      /\ postSeq \in Nat /\ commentSeq \in Nat
  BY CallHolds
<1>4. id \in 1..postSeq /\ id \notin DOMAIN postRows /\ req[r].op = "CreatePost"
      /\ row \in PostRec
  BY <1>2, <1>3 DEF CallInv, CallTypeOK, CallRec, IDInv, Posting, PostRec
<1> HIDE DEF row
<1>5. /\ DOMAIN postRows' = DOMAIN postRows \cup {id} /\ postRows'[id] = row
      /\ \A p \in DOMAIN postRows : postRows'[p] = postRows[p]
      /\ postRows' = [p \in DOMAIN postRows' |-> postRows'[p]]
  <2>1. postRows' = [x \in DOMAIN postRows \cup {id} |-> IF x = id THEN row ELSE postRows[x]]
    BY <1>2 DEF With
  <2> QED BY <1>4, <2>1
<1>6. RowsInv'
  <2>1. postRows' \in [DOMAIN postRows' -> PostRec]
    BY <1>4, <1>5 DEF StoreInv, RowsInv
  <2>2. CommentsWhole'
    BY <1>2, <1>5 DEF StoreInv, RowsInv, CommentsWhole
  <2> QED BY <1>2, <1>3, <1>4, <1>5, <2>1, <2>2 DEF StoreInv, RowsInv
<1>7. PostsKept(postRows, postRows') /\ CommentsKept(commentRows, commentRows')
  BY <1>2, <1>5 DEF PostsKept, CommentsKept
<1> DEFINE q == Answered(r, err)
<1>8. /\ CallTypeOK(q) /\ q.at = "done" /\ q.err \in {"none", "failed"}
      /\ q.op = "CreatePost" /\ ~Posting(q) /\ ~Writing(q)
  BY <1>2, <1>4, CommittedAnswer DEF Reported
<1> HIDE DEF q
<1>9. CallInv(q, postRows', commentRows', postSeq', commentSeq')
  BY <1>8 DEF CallInv, LockInv, ParentInv, IDInv, AnswerInv, ReasonInv, Holding
<1>10. ASSUME NEW s \in Requests \ {r}
       PROVE  /\ Holding(req[s]) => postRows'[req[s].post].allowed = postRows[req[s].post].allowed
              /\ Posting(req[s]) => req[s].id \notin DOMAIN postRows' \ DOMAIN postRows
              /\ Writing(req[s]) => req[s].id \notin DOMAIN commentRows' \ DOMAIN commentRows
              /\ ~SameTable(req[s], q)
  <2>1. Holding(req[s]) => req[s].post \in DOMAIN postRows
    BY CallHolds DEF CallInv, LockInv
  <2>2. Posting(req[s]) => req[s].id # id
    BY <1>2 DEF StoreInv, DistinctIDs, SameTable, Posting
  <2> QED BY <1>2, <1>5, <1>8, <2>1, <2>2 DEF SameTable
<1>12. /\ req' = [req EXCEPT ![r] = q]
       /\ postSeq <= postSeq' /\ commentSeq <= commentSeq'
  BY <1>1, <1>2, <1>3 DEF q
<1> QED
  BY <1>6, <1>7, <1>9, <1>10, <1>12, StepPreserves

\* The UPDATE waits for the share locks, so nobody who holds one notices.
LEMMA UpdatePostPreserves ==
  ASSUME StoreInv, NEW r \in Requests, UpdatePost(r)
  PROVE  StoreInv'
<1> DEFINE post == req[r].post
<1>1. PICK err \in Reported : req' = [req EXCEPT ![r] = Answered(r, err)]
  BY DEF UpdatePost
<1>2. /\ req[r].at = "update" /\ Matches(r) /\ ShareHolders(post) = {}
      /\ postRows' = [postRows EXCEPT ![post].allowed = req[r].allowed]
      /\ UNCHANGED <<commentRows, postSeq, commentSeq>>
  BY DEF UpdatePost
<1>3. /\ CallTypeOK(req[r]) /\ postSeq \in Nat /\ commentSeq \in Nat
      /\ postRows \in [DOMAIN postRows -> PostRec]
  BY CallHolds DEF StoreInv, RowsInv
<1>4. post \in DOMAIN postRows /\ req[r].allowed \in BOOLEAN /\ req[r].op = "SetCommentsAllowed"
  BY <1>2, <1>3 DEF Matches, CallTypeOK, CallRec
<1>5. /\ DOMAIN postRows' = DOMAIN postRows
      /\ \A p \in DOMAIN postRows : p # post => postRows'[p] = postRows[p]
      /\ postRows'[post] = [postRows[post] EXCEPT !.allowed = req[r].allowed]
      /\ postRows[post] \in PostRec
  BY <1>2, <1>3, <1>4
<1>6. /\ postRows'[post].author = postRows[post].author
      /\ postRows'[post].deleted = postRows[post].deleted
      /\ postRows'[post] \in PostRec
  BY <1>4, <1>5 DEF PostRec
<1>7. RowsInv'
  <2>1. postRows' \in [DOMAIN postRows' -> PostRec]
    BY <1>2, <1>3, <1>5, <1>6
  <2>2. CommentsWhole'
    BY <1>2, <1>5 DEF StoreInv, RowsInv, CommentsWhole
  <2> QED BY <1>2, <1>3, <1>5, <2>1, <2>2 DEF StoreInv, RowsInv
<1>8. PostsKept(postRows, postRows') /\ CommentsKept(commentRows, commentRows')
  BY <1>2, <1>5, <1>6 DEF PostsKept, CommentsKept
<1> DEFINE q == Answered(r, err)
<1>9. /\ CallTypeOK(q) /\ q.at = "done" /\ q.err \in {"none", "failed"}
      /\ q.op = "SetCommentsAllowed" /\ ~Posting(q) /\ ~Writing(q)
  BY <1>2, <1>4, CommittedAnswer DEF Reported
<1> HIDE DEF q
<1>10. CallInv(q, postRows', commentRows', postSeq', commentSeq')
  BY <1>9 DEF CallInv, LockInv, ParentInv, IDInv, AnswerInv, ReasonInv, Holding
<1>11. ASSUME NEW s \in Requests \ {r}
       PROVE  /\ Holding(req[s]) => postRows'[req[s].post].allowed = postRows[req[s].post].allowed
              /\ Posting(req[s]) => req[s].id \notin DOMAIN postRows' \ DOMAIN postRows
              /\ Writing(req[s]) => req[s].id \notin DOMAIN commentRows' \ DOMAIN commentRows
              /\ ~SameTable(req[s], q)
  <2>1. Holding(req[s]) => req[s].post # post
    BY <1>2 DEF ShareHolders, Holding
  <2>2. Holding(req[s]) => req[s].post \in DOMAIN postRows
    BY CallHolds DEF CallInv, LockInv
  <2> QED BY <1>2, <1>5, <1>9, <2>1, <2>2 DEF SameTable
<1>12. /\ req' = [req EXCEPT ![r] = q]
       /\ postSeq <= postSeq' /\ commentSeq <= commentSeq'
  BY <1>1, <1>2, <1>3 DEF q
<1> QED
  BY <1>7, <1>8, <1>10, <1>11, <1>12, StepPreserves

LEMMA CommitPreserves ==
  ASSUME StoreInv, NEW r \in Requests, Commit(r)
  PROVE  StoreInv'
<1> DEFINE id == req[r].id
           row == Row(r)
<1>1. PICK err \in Reported : req' = [req EXCEPT ![r] = Answered(r, err)]
  BY DEF Commit
<1>2. /\ req[r].at = "commit" /\ commentRows' = With(commentRows, id, row)
      /\ UNCHANGED <<postRows, postSeq, commentSeq>>
  BY DEF Commit
<1>3. /\ CallTypeOK(req[r]) /\ CallInv(req[r], postRows, commentRows, postSeq, commentSeq)
      /\ postSeq \in Nat /\ commentSeq \in Nat
      /\ DOMAIN commentRows \subseteq 1..commentSeq
  BY CallHolds DEF StoreInv, RowsInv
<1>4. id \in 1..commentSeq /\ id \notin DOMAIN commentRows /\ req[r].op = "CreateComment"
  BY <1>2, <1>3 DEF CallInv, CallTypeOK, IDInv, Writing, InTx
<1>5. /\ row.post = req[r].post /\ row.parent = req[r].parent /\ row.path = req[r].path
      /\ row = RowOf(req[r])
  BY DEF Row, RowOf
<1> HIDE DEF row
<1>6. /\ DOMAIN commentRows' = DOMAIN commentRows \cup {id} /\ commentRows'[id] = row
      /\ \A c \in DOMAIN commentRows : commentRows'[c] = commentRows[c]
  <2>1. commentRows' = [x \in DOMAIN commentRows \cup {id} |-> IF x = id THEN row ELSE commentRows[x]]
    BY <1>2 DEF With
  <2> QED BY <1>4, <2>1
<1>7. RowsInv'
  <2>1. ASSUME NEW c \in DOMAIN commentRows'
        PROVE  /\ commentRows'[c].post \in DOMAIN postRows'
               /\ commentRows'[c].parent = Nil => commentRows'[c].path = PadID(c)
               /\ commentRows'[c].parent # Nil =>
                    /\ commentRows'[c].parent \in DOMAIN commentRows'
                    /\ commentRows'[commentRows'[c].parent].post = commentRows'[c].post
                    /\ commentRows'[c].path =
                         ChildPath(commentRows'[commentRows'[c].parent].path, c)
    <3>1. CASE c = id
      <4>1. row.post \in DOMAIN postRows
        BY <1>2, <1>3, <1>5 DEF CallInv, LockInv, Holding
      <4>2. /\ row.parent = Nil => row.path = PadID(id)
            /\ row.parent # Nil =>
                 /\ row.parent \in DOMAIN commentRows
                 /\ commentRows[row.parent].post = row.post
                 /\ row.path = ChildPath(commentRows[row.parent].path, id)
        BY <1>2, <1>3, <1>5 DEF CallInv, ParentInv
      <4> QED BY <1>2, <1>6, <3>1, <4>1, <4>2
    <3>2. CASE c # id
      <4>1. c \in DOMAIN commentRows /\ commentRows'[c] = commentRows[c]
        BY <1>6, <3>2
      <4> QED BY <1>2, <1>6, <4>1 DEF StoreInv, RowsInv, CommentsWhole
    <3> QED BY <3>1, <3>2
  <2>2. CommentsWhole'
    BY <2>1 DEF CommentsWhole
  <2> QED BY <1>2, <1>3, <1>4, <1>6, <2>2 DEF StoreInv, RowsInv
<1>8. PostsKept(postRows, postRows') /\ CommentsKept(commentRows, commentRows')
  BY <1>2, <1>6 DEF PostsKept, CommentsKept
<1> DEFINE q == Answered(r, err)
<1>9. /\ CallTypeOK(q) /\ q.at = "done" /\ q.err \in {"none", "failed"}
      /\ q.id = id /\ RowOf(q) = row /\ ~Posting(q) /\ ~Writing(q)
  BY <1>2, <1>4, <1>5, CommittedAnswer DEF Reported, RowOf
<1> HIDE DEF q
<1>10. CallInv(q, postRows', commentRows', postSeq', commentSeq')
  BY <1>6, <1>9 DEF CallInv, LockInv, ParentInv, IDInv, AnswerInv, ReasonInv, Holding
<1>11. ASSUME NEW s \in Requests \ {r}
       PROVE  /\ Holding(req[s]) => postRows'[req[s].post].allowed = postRows[req[s].post].allowed
              /\ Posting(req[s]) => req[s].id \notin DOMAIN postRows' \ DOMAIN postRows
              /\ Writing(req[s]) => req[s].id \notin DOMAIN commentRows' \ DOMAIN commentRows
              /\ ~SameTable(req[s], q)
  <2>1. Writing(req[s]) => req[s].id # id
    BY <1>2 DEF StoreInv, DistinctIDs, SameTable, Writing
  <2> QED BY <1>2, <1>6, <1>9, <2>1 DEF SameTable
<1>12. /\ req' = [req EXCEPT ![r] = q]
       /\ postSeq <= postSeq' /\ commentSeq <= commentSeq'
  BY <1>1, <1>2, <1>3 DEF q
<1> QED
  BY <1>7, <1>8, <1>10, <1>11, <1>12, StepPreserves

-----------------------------------------------------------------------------
LEMMA StoreInvInit == Init => StoreInv
<1> SUFFICES ASSUME Init PROVE StoreInv
  OBVIOUS
<1>1. /\ postRows = <<>> /\ commentRows = <<>> /\ postSeq = 0 /\ commentSeq = 0
      /\ req = [r \in Requests |-> NoCall]
  BY DEF Init
<1>2. DOMAIN postRows = {} /\ DOMAIN commentRows = {}
  BY <1>1
<1>3. RowsInv
  BY <1>1, <1>2 DEF RowsInv, CommentsWhole
<1>4. \A r \in Requests : req[r] = NoCall
  BY <1>1
<1>5. CallTypeOK(NoCall)
  BY NoCallFacts DEF CallTypeOK, InTx, CallRec
<1>6. CallInv(NoCall, postRows, commentRows, postSeq, commentSeq) /\ ~Posting(NoCall) /\ ~Writing(NoCall)
  BY <1>5, NoCallFacts, OutsideTransaction
<1>7. DistinctIDs
  BY <1>4, <1>6 DEF DistinctIDs, SameTable
<1> QED BY <1>1, <1>3, <1>4, <1>6, <1>7 DEF StoreInv

LEMMA StoreInvNext == StoreInv /\ [Next]_vars => StoreInv'
<1> SUFFICES ASSUME StoreInv, [Next]_vars PROVE StoreInv'
  OBVIOUS
<1>1. CASE UNCHANGED vars
  BY <1>1 DEF vars, StoreInv, RowsInv, CommentsWhole, DistinctIDs
<1>2. ASSUME NEW r \in Requests,
             Call(r) \/ Acquire(r) \/ Statement(r) \/ Explain(r) \/ Fail(r) \/ Return(r)
      PROVE  StoreInv'
  <2>1. CASE Call(r)
    BY <2>1, CallPreserves
  <2>2. CASE Acquire(r) \/ Fail(r) \/ Return(r) \/ Rollback(r)
    BY <2>2, PassPreserves
  <2>3. CASE UpdateNothing(r) \/ Explain(r)
    BY <2>3, ExplainPreserves
  <2>4. CASE LockPost(r) \/ LockParent(r)
    BY <2>4, LockPreserves
  <2>5. CASE InsertPost(r) \/ InsertComment(r) \/ UpdateCommentPath(r)
    BY <2>5, InsertPreserves
  <2>6. CASE CommitPost(r) \/ UpdatePost(r) \/ Commit(r)
    BY <2>6, CommitPostPreserves, UpdatePostPreserves, CommitPreserves
  <2> QED BY <1>2, <2>1, <2>2, <2>3, <2>4, <2>5, <2>6 DEF Statement
<1> QED BY <1>1, <1>2 DEF Next

\* The invariant holds in every behaviour of the store.
LEMMA StoreInvAlways == SafetySpec => []StoreInv
BY StoreInvInit, StoreInvNext, PTL DEF SafetySpec

-----------------------------------------------------------------------------
\* In every store and under every failure a comment is seen whole or not at all,
\* below a parent of the same post.
THEOREM CommentsStayWhole == SafetySpec => []CommentsWhole
<1>1. StoreInv => CommentsWhole
  BY DEF StoreInv, RowsInv
<1> QED BY <1>1, StoreInvAlways, PTL

\* What CreateComment tells its caller is what became of the rows.
THEOREM AnswersAlwaysMatch == SafetySpec => []AnswersMatchRows
<1>1. StoreInv => AnswersMatchRows
  <2> SUFFICES ASSUME StoreInv, NEW r \in Requests, req[r].at = "done",
                      req[r].op = "CreateComment"
               PROVE  /\ req[r].err = "none" => /\ req[r].id \in DOMAIN commentRows
                                                /\ commentRows[req[r].id] = Row(r)
                      /\ req[r].err \notin {"none", "failed"} => req[r].id = 0
    BY DEF AnswersMatchRows
  <2>1. Row(r) = RowOf(req[r])
    BY DEF Row, RowOf
  <2> QED BY <2>1, CallHolds DEF CallInv, AnswerInv
<1> QED BY <1>1, StoreInvAlways, PTL

\* Nobody is refused without a reason that held at one of the statements.
THEOREM RefusalsHaveReasons == SafetySpec => []NoFalseRefusal
<1>1. StoreInv => NoFalseRefusal
  BY CallHolds DEF NoFalseRefusal, CallInv, ReasonInv
<1> QED BY <1>1, StoreInvAlways, PTL

\* A comment that becomes visible does so in a post that allows comments at that
\* very moment, however long ago its transaction looked: the share lock of
\* LockPostForComments keeps the author's switch waiting.
OnlyWhereAllowed ==
  \A c \in DOMAIN commentRows' \ DOMAIN commentRows :
    LET post == commentRows'[c].post
    IN  post \in DOMAIN postRows' /\ postRows'[post].allowed /\ ~postRows'[post].deleted

\* The lock does its work for any number of posts, transactions and switches.
THEOREM SwitchedOffMeansOff == SafetySpec => [][OnlyWhereAllowed]_vars
<1>1. StoreInv /\ [Next]_vars => [OnlyWhereAllowed]_vars
  <2> SUFFICES ASSUME StoreInv, [Next]_vars, NEW c \in DOMAIN commentRows' \ DOMAIN commentRows
               PROVE  LET post == commentRows'[c].post
                      IN  /\ post \in DOMAIN postRows' /\ postRows'[post].allowed
                          /\ ~postRows'[post].deleted
    BY DEF OnlyWhereAllowed
  <2>1. PICK r \in Requests : Commit(r)
    <3>1. commentRows' # commentRows
      OBVIOUS
    <3> QED BY <3>1, WritersOfRows DEF CommitPost, UpdatePost
  <2>2. /\ commentRows' = [x \in DOMAIN commentRows \cup {req[r].id} |->
                             IF x = req[r].id THEN Row(r) ELSE commentRows[x]]
        /\ postRows' = postRows /\ req[r].at = "commit"
    BY <2>1 DEF Commit, With
  <2>3. c = req[r].id /\ commentRows'[c].post = req[r].post
    BY <2>2 DEF Row
  <2>4. LockInv(req[r], postRows)
    BY CallHolds DEF CallInv
  <2> QED BY <2>2, <2>3, <2>4 DEF LockInv, Holding
<1> QED BY <1>1, StoreInvAlways, PTL DEF SafetySpec

-----------------------------------------------------------------------------
(* Threads: the invariant that the listings and the scans rest on. *)

CommentRow == [post : Nat, parent : Int, deleted : {FALSE}, path : Seq(Int)]

\* The calls of rq that have still to take an id of the table that op writes.
Pending(rq, op) == {r \in Requests : rq[r].op = op /\ rq[r].id = 0}

\* There are ids for all of them.
Roomy(rq, op, seq, max) == /\ IsFiniteSet(Pending(rq, op))
                           /\ seq + Cardinality(Pending(rq, op)) <= max

\* What the caller asked for, and what the call has found or made of it: its time,
\* its path, an id greater than that of the comment it answers.
Asked(q) ==
  /\ q.op = "CreatePost" => q.user \in Users
  /\ q.op = "SetCommentsAllowed" => q.user \in Users /\ q.post \in PostIDs /\ q.allowed \in BOOLEAN
  /\ q.op = "CreateComment" => q.post \in PostIDs /\ q.parent \in CommentIDs \cup {Nil}

Early == {"begin", "insertPost"}

WriterInv(q) ==
  /\ Asked(q)
  /\ q.path \in Seq(Int)
  /\ q.at = "commitPost" => q.createdAt \in Times
  /\ q.op = "CreatePost" /\ q.at \in Early => q.id = 0
  /\ Writing(q) /\ q.parent # Nil => q.parent < q.id

CommentRowsInv(cs) ==
  \A c \in DOMAIN cs : cs[c] \in CommentRow /\ (cs[c].parent # Nil => cs[c].parent < c)

ThreadsInv ==
  /\ CommentRowsInv(commentRows)
  /\ \A r \in Requests : WriterInv(req[r])
  /\ Roomy(req, "CreatePost", postSeq, MaxPosts)
  /\ Roomy(req, "CreateComment", commentSeq, MaxComments)

LEMMA RoomStays ==
  ASSUME NEW rq, NEW op, NEW seq \in Nat, NEW max \in Nat, Roomy(rq, op, seq, max),
         NEW new, Pending(new, op) \subseteq Pending(rq, op)
  PROVE  Roomy(new, op, seq, max)
<1> DEFINE P == Pending(rq, op)
           Q == Pending(new, op)
<1>1. IsFiniteSet(P) /\ seq + Cardinality(P) <= max /\ Q \in SUBSET P
  BY DEF Roomy
<1> HIDE DEF P, Q
<1>2. IsFiniteSet(Q) /\ Cardinality(Q) <= Cardinality(P)
  BY <1>1, FS_Subset
<1>3. Cardinality(P) \in Nat /\ Cardinality(Q) \in Nat
  BY <1>1, <1>2, FS_CardinalityType
<1>4. seq + Cardinality(Q) <= max
  BY <1>1, <1>2, <1>3
<1> QED BY <1>2, <1>4 DEF Roomy, Q

LEMMA RoomTaken ==
  ASSUME NEW rq, NEW op, NEW seq \in Nat, NEW max \in Nat, Roomy(rq, op, seq, max),
         seq + Cardinality(Pending(rq, op)) < max,
         NEW r, NEW new, Pending(new, op) \subseteq Pending(rq, op) \cup {r}
  PROVE  Roomy(new, op, seq, max)
<1> DEFINE P == Pending(rq, op)
           Q == Pending(new, op)
           R == P \cup {r}
<1>1. IsFiniteSet(P) /\ seq + Cardinality(P) < max /\ Q \in SUBSET R
  BY DEF Roomy
<1> HIDE DEF P, Q
<1>2. IsFiniteSet(R) /\ (Cardinality(R) = Cardinality(P) \/ Cardinality(R) = Cardinality(P) + 1)
  BY <1>1, FS_AddElement
<1> HIDE DEF R
<1>3. IsFiniteSet(Q) /\ Cardinality(Q) <= Cardinality(R)
  BY <1>1, <1>2, FS_Subset
<1>4. Cardinality(P) \in Nat /\ Cardinality(Q) \in Nat
  BY <1>1, <1>3, FS_CardinalityType
<1>5. seq + Cardinality(Q) <= max
  BY <1>1, <1>2, <1>3, <1>4
<1> QED BY <1>3, <1>5 DEF Roomy, Q

LEMMA RoomUsed ==
  ASSUME NEW rq, NEW op, NEW seq \in Nat, NEW max \in Nat, Roomy(rq, op, seq, max),
         NEW r \in Pending(rq, op), NEW new, Pending(new, op) \subseteq Pending(rq, op) \ {r}
  PROVE  Roomy(new, op, seq + 1, max) /\ seq + 1 <= max
<1> DEFINE P == Pending(rq, op)
           Q == Pending(new, op)
           R == P \ {r}
<1>1. IsFiniteSet(P) /\ seq + Cardinality(P) <= max /\ Q \in SUBSET R /\ r \in P
  BY DEF Roomy
<1> HIDE DEF P, Q
<1>2. IsFiniteSet(R) /\ Cardinality(R) = Cardinality(P) - 1
  BY <1>1, FS_RemoveElement
<1> HIDE DEF R
<1>3. IsFiniteSet(Q) /\ Cardinality(Q) <= Cardinality(R)
  BY <1>1, <1>2, FS_Subset
<1>4. Cardinality(P) \in Nat /\ Cardinality(Q) \in Nat
  BY <1>1, <1>3, FS_CardinalityType
<1>5. seq + 1 + Cardinality(Q) <= max /\ seq + 1 <= max
  BY <1>1, <1>2, <1>3, <1>4
<1> QED BY <1>3, <1>5 DEF Roomy, Q

\* Ids up to the bound fit in the width, where zeros in front make the order of
\* the strings that of the numbers.
Text == [n \in CommentIDs |-> PadID(n)]

LEMMA TextIsNumerals == Numerals(Text, IDWidth)
<1>1. /\ Base \in Nat /\ Base >= 2 /\ IDWidth \in Nat \ {0} /\ MaxComments \in Nat
      /\ MaxComments < Pow(Base, IDWidth)
  BY PathAssumption, PostgresAssumption
<1>2. DOMAIN Text \subseteq Nat /\ \A n \in DOMAIN Text : n <= MaxComments
  BY <1>1 DEF Text, CommentIDs
<1>3. Pow(Base, IDWidth) \in Nat
  BY <1>1, PowFacts
<1>4. ASSUME NEW n \in DOMAIN Text
      PROVE  Text[n] = Digits(Base, IDWidth, n) /\ Text[n] \in Seq(Nat) /\ Len(Text[n]) = IDWidth
  <2>1. n \in Nat
    BY <1>2
  <2>2. Text[n] = Digits(Base, IDWidth, n)
    BY DEF Text, PadID
  <2> QED BY <1>1, <2>1, <2>2, DigitsType
<1>5. ASSUME NEW m \in DOMAIN Text, NEW n \in DOMAIN Text, m < n
      PROVE  StringLess(Text[m], Text[n])
  <2>1. m \in Nat /\ n \in Nat /\ n < Pow(Base, IDWidth)
    BY <1>1, <1>2, <1>3
  <2>2. StringLess(Digits(Base, IDWidth, m), Digits(Base, IDWidth, n))
    BY <1>1, <1>5, <2>1, DigitsKeepOrder
  <2> QED BY <1>4, <2>2
<1> QED BY <1>1, <1>2, <1>4, <1>5 DEF Numerals

-----------------------------------------------------------------------------
(* The steps keep it. *)

SameCall(q, o) == /\ q.op = o.op /\ q.user = o.user /\ q.post = o.post /\ q.parent = o.parent
                  /\ q.allowed = o.allowed

LEMMA WriterStays ==
  ASSUME NEW q, NEW o, SameCall(q, o), WriterInv(o), q.path \in Seq(Int),
         q.at = "commitPost" => q.createdAt \in Times,
         Writing(q) => Writing(o) /\ q.id = o.id,
         q.at \in Early => o.at \in Early /\ q.id = o.id
  PROVE  WriterInv(q)
BY DEF SameCall, WriterInv, Asked

\* A step of request r that takes no id and commits no comment.
LEMMA ThreadsStay ==
  ASSUME StoreInv, ThreadsInv, NEW r \in Requests, NEW q, req' = [req EXCEPT ![r] = q],
         WriterInv(q), UNCHANGED <<commentRows, postSeq, commentSeq>>,
         q.op = "none" \/ (q.op = req[r].op /\ q.id = req[r].id)
  PROVE  ThreadsInv'
<1>1. /\ req = [s \in Requests |-> req[s]] /\ postSeq \in Nat /\ commentSeq \in Nat
      /\ MaxPosts \in Nat /\ MaxComments \in Nat
  BY PostgresAssumption DEF StoreInv, RowsInv
<1>2. \A s \in Requests : req'[s] = IF s = r THEN q ELSE req[s]
  BY <1>1
<1>3. \A op \in {"CreatePost", "CreateComment"} : Pending(req', op) \subseteq Pending(req, op)
  BY <1>2 DEF Pending
<1>4. Roomy(req', "CreatePost", postSeq, MaxPosts)
  BY <1>1, <1>3, RoomStays DEF ThreadsInv
<1>5. Roomy(req', "CreateComment", commentSeq, MaxComments)
  BY <1>1, <1>3, RoomStays DEF ThreadsInv
<1> QED BY <1>2, <1>4, <1>5 DEF ThreadsInv

LEMMA BeginThreads ==
  ASSUME StoreInv, ThreadsInv, NEW r \in Requests, Call(r)
  PROVE  ThreadsInv'
<1>1. /\ req = [s \in Requests |-> req[s]] /\ postSeq \in Nat /\ commentSeq \in Nat
      /\ MaxPosts \in Nat /\ MaxComments \in Nat
  BY PostgresAssumption DEF StoreInv, RowsInv
<1>2. ASSUME NEW q \in CallRec(<<>>, {}), Begin(r, q), q.path = <<>>, q.id = 0, Asked(q),
             \/ q.op = "SetCommentsAllowed"
             \/ q.op = "CreatePost" /\ Room("CreatePost", postSeq, MaxPosts)
             \/ q.op = "CreateComment" /\ Room("CreateComment", commentSeq, MaxComments)
      PROVE  ThreadsInv'
  <2> DEFINE why == Reasons(q)
             b == [q EXCEPT !.at = "begin", !.reasons = why]
  <2>1. /\ req' = [req EXCEPT ![r] = b]
        /\ UNCHANGED <<postRows, commentRows, postSeq, commentSeq>>
    BY <1>2 DEF Begin
  <2>2. SameCall(b, q) /\ b.at = "begin" /\ b.path = <<>> /\ b.id = 0
    <3> HIDE DEF why
    <3> QED BY <1>2 DEF SameCall, CallRec
  <2> HIDE DEF b
  <2>3. WriterInv(b)
    BY <1>2, <2>2 DEF WriterInv, Asked, SameCall, Writing, Early
  <2>4. \A s \in Requests : req'[s] = IF s = r THEN b ELSE req[s]
    BY <1>1, <2>1
  <2>5. /\ Pending(req', q.op) \subseteq Pending(req, q.op) \cup {r}
        /\ \A op : op # q.op => Pending(req', op) \subseteq Pending(req, op)
    BY <2>2, <2>4 DEF Pending, SameCall
  <2>6. Roomy(req', "CreatePost", postSeq, MaxPosts)
    <3>1. CASE q.op = "CreatePost"
      <4>1. postSeq + Cardinality(Pending(req, "CreatePost")) < MaxPosts
        BY <1>2, <3>1 DEF Room, Pending
      <4> QED BY <1>1, <2>5, <3>1, <4>1, RoomTaken DEF ThreadsInv
    <3>2. CASE q.op # "CreatePost"
      BY <1>1, <2>5, <3>2, RoomStays DEF ThreadsInv
    <3> QED BY <3>1, <3>2
  <2>7. Roomy(req', "CreateComment", commentSeq, MaxComments)
    <3>1. CASE q.op = "CreateComment"
      <4>1. commentSeq + Cardinality(Pending(req, "CreateComment")) < MaxComments
        BY <1>2, <3>1 DEF Room, Pending
      <4> QED BY <1>1, <2>5, <3>1, <4>1, RoomTaken DEF ThreadsInv
    <3>2. CASE q.op # "CreateComment"
      BY <1>1, <2>5, <3>2, RoomStays DEF ThreadsInv
    <3> QED BY <3>1, <3>2
  <2> QED BY <2>1, <2>3, <2>4, <2>6, <2>7 DEF ThreadsInv
<1>3. ASSUME NEW user \in Users, CreatePost(r, user) PROVE ThreadsInv'
  <2> DEFINE q == [NoCall EXCEPT !.op = "CreatePost", !.user = user]
  <2>1. /\ q \in CallRec(<<>>, {}) /\ q.op = "CreatePost" /\ q.path = <<>> /\ q.id = 0
        /\ q.user = user
    BY NoCallFacts DEF CallRec, Ops
  <2>2. Begin(r, q) /\ Room("CreatePost", postSeq, MaxPosts)
    BY <1>3 DEF CreatePost
  <2> HIDE DEF q
  <2>3. Asked(q)
    BY <2>1 DEF Asked
  <2> QED BY <1>2, <2>1, <2>2, <2>3
<1>4. ASSUME NEW post \in PostIDs \ {0}, NEW user \in Users, NEW allowed \in BOOLEAN,
             SetCommentsAllowed(r, post, user, allowed)
      PROVE  ThreadsInv'
  <2> DEFINE q == [NoCall EXCEPT !.op = "SetCommentsAllowed", !.post = post,
                                 !.user = user, !.allowed = allowed]
  <2>1. post \in Nat
    BY PostgresAssumption DEF PostIDs
  <2>2. /\ q \in CallRec(<<>>, {}) /\ q.op = "SetCommentsAllowed" /\ q.path = <<>> /\ q.id = 0
        /\ q.post = post /\ q.user = user /\ q.allowed = allowed
    BY <2>1, NoCallFacts DEF CallRec, Ops
  <2>3. Begin(r, q)
    BY <1>4 DEF SetCommentsAllowed
  <2> HIDE DEF q
  <2>4. Asked(q)
    BY <2>2 DEF Asked
  <2> QED BY <1>2, <2>2, <2>3, <2>4
<1>5. ASSUME NEW post \in PostIDs \ {0}, NEW parent \in (CommentIDs \ {0}) \cup {Nil},
             CreateComment(r, post, parent)
      PROVE  ThreadsInv'
  <2> DEFINE q == [NoCall EXCEPT !.op = "CreateComment", !.post = post, !.parent = parent]
  <2>1. post \in Nat /\ parent \in Int
    BY PostgresAssumption DEF PostIDs, CommentIDs, Nil
  <2>2. /\ q \in CallRec(<<>>, {}) /\ q.op = "CreateComment" /\ q.path = <<>> /\ q.id = 0
        /\ q.post = post /\ q.parent = parent
    BY <2>1, NoCallFacts DEF CallRec, Ops
  <2>3. Begin(r, q) /\ Room("CreateComment", commentSeq, MaxComments)
    BY <1>5 DEF CreateComment
  <2> HIDE DEF q
  <2>4. Asked(q)
    BY <2>2 DEF Asked
  <2> QED BY <1>2, <2>2, <2>3, <2>4
<1> QED BY <1>3, <1>4, <1>5 DEF Call
\* Steps that take no id and make no path.
LEMMA QuietThreads ==
  ASSUME StoreInv, ThreadsInv, NEW r \in Requests,
         \/ Acquire(r) \/ Fail(r) \/ Rollback(r) \/ UpdateNothing(r) \/ Explain(r)
         \/ CommitPost(r) \/ UpdatePost(r)
  PROVE  ThreadsInv'
<1> DEFINE o == req[r]
<1>1. /\ o \in CallRec(o.path, o.reasons) /\ WriterInv(o) /\ o.path \in Seq(Int)
      /\ req = [s \in Requests |-> req[s]]
      /\ o.at # "idle" => o.op \in Ops
  BY CallHolds DEF CallTypeOK, ThreadsInv, WriterInv, StoreInv
<1>2. ASSUME NEW q, req' = [req EXCEPT ![r] = q], SameCall(q, o), q.id = o.id, q.path = o.path,
             q.at # "commitPost", ~Writing(q), q.at \in Early => o.at \in Early, UNCHANGED <<commentRows, postSeq, commentSeq>>
      PROVE  ThreadsInv'
  <2>1. WriterInv(q)
    BY <1>1, <1>2, WriterStays
  <2>2. q.op = o.op
    BY <1>2 DEF SameCall
  <2> QED BY <1>2, <2>1, <2>2, ThreadsStay
<1> DEFINE rec(at, err, why) == [o EXCEPT !.at = at, !.err = err, !.reasons = why]
           Places == {"explain", "done", "insertPost", "update", "lockPost", "rollback"}
<1>3. ASSUME NEW at, NEW err, NEW why
      PROVE  /\ SameCall(rec(at, err, why), o) /\ rec(at, err, why).id = o.id
             /\ rec(at, err, why).path = o.path /\ rec(at, err, why).at = at
  BY <1>1 DEF SameCall, CallRec
<1>4. /\ \A at, err : [o EXCEPT !.at = at, !.err = err] = rec(at, err, o.reasons)
      /\ \A at, why : [o EXCEPT !.at = at, !.reasons = why] = rec(at, o.err, why)
      /\ \A at : [o EXCEPT !.at = at] = rec(at, o.err, o.reasons)
  BY <1>1 DEF CallRec
<1>o. o = req[r]
  OBVIOUS
<1> HIDE DEF rec, o
<1>5. ASSUME NEW at \in Places, NEW err, NEW why, req' = [req EXCEPT ![r] = rec(at, err, why)],
             at \in Early => o.at \in Early, UNCHANGED <<commentRows, postSeq, commentSeq>>
      PROVE  ThreadsInv'
  <2> DEFINE q == rec(at, err, why)
  <2>1. SameCall(q, o) /\ q.id = o.id /\ q.path = o.path /\ q.at = at
    BY <1>3
  <2>2. req' = [req EXCEPT ![r] = q]
    BY <1>5
  <2> HIDE DEF q
  <2>3. q.at # "commitPost" /\ ~Writing(q) /\ (q.at \in Early => o.at \in Early)
    BY <1>5, <2>1 DEF Writing
  <2> QED BY <1>2, <1>5, <2>1, <2>2, <2>3
<1>8. CASE Acquire(r)
  <2> DEFINE at == FirstStatement[o.op]
  <2>1. /\ at \in {"insertPost", "update", "lockPost"} /\ o.at \in Early
        /\ UNCHANGED <<commentRows, postSeq, commentSeq>>
    BY <1>o, <1>1, <1>8 DEF Acquire, FirstStatement, Ops, Early
  <2>2. req' = [req EXCEPT ![r] = [o EXCEPT !.at = at]]
    BY <1>o, <1>1, <1>8 DEF Acquire
  <2> HIDE DEF at
  <2>3. req' = [req EXCEPT ![r] = rec(at, o.err, o.reasons)]
    BY <1>4, <2>2
  <2> QED BY <1>5, <2>1, <2>3
<1>9. CASE Fail(r)
  <2>1. UNCHANGED <<commentRows, postSeq, commentSeq>>
    BY <1>9 DEF Fail
  <2>2. PICK at \in {"rollback", "done"} :
          req' = [req EXCEPT ![r] = [o EXCEPT !.at = at, !.err = "failed"]]
    BY <1>o, <1>9 DEF Fail, GiveUp, Answered
  <2>3. req' = [req EXCEPT ![r] = rec(at, "failed", o.reasons)]
    BY <1>4, <2>2
  <2> QED BY <1>5, <2>1, <2>3 DEF Early
<1>10. CASE Rollback(r) \/ CommitPost(r) \/ UpdatePost(r)
  <2>1. UNCHANGED <<commentRows, postSeq, commentSeq>>
    BY <1>10 DEF Rollback, CommitPost, UpdatePost
  <2>2. PICK err : req' = [req EXCEPT ![r] = [o EXCEPT !.at = "done", !.err = err]]
    BY <1>o, <1>10 DEF Rollback, CommitPost, UpdatePost, Answered
  <2>3. req' = [req EXCEPT ![r] = rec("done", err, o.reasons)]
    BY <1>4, <2>2
  <2> QED BY <1>5, <2>1, <2>3 DEF Early
<1>11. CASE UpdateNothing(r)
  <2> DEFINE why == o.reasons \cup Reasons(o)
  <2>1. UNCHANGED <<commentRows, postSeq, commentSeq>>
    BY <1>11 DEF UpdateNothing
  <2>2. req' = [req EXCEPT ![r] = [o EXCEPT !.at = "explain", !.reasons = why]]
    BY <1>o, <1>1, <1>11 DEF UpdateNothing
  <2> HIDE DEF why
  <2>3. req' = [req EXCEPT ![r] = rec("explain", o.err, why)]
    BY <1>4, <2>2
  <2> QED BY <1>5, <2>1, <2>3 DEF Early
<1>12. CASE Explain(r)
  <2>1. UNCHANGED <<commentRows, postSeq, commentSeq>>
    BY <1>12 DEF Explain
  <2>2. PICK err : req' = [req EXCEPT ![r] = [Answered(r, err) EXCEPT
                                                !.reasons = @ \cup Reasons(o)]]
    BY <1>o, <1>12, Zenon DEF Explain
  <2> DEFINE why == o.reasons \cup Reasons(o)
  <2>3. \A rs : [Answered(r, err) EXCEPT !.reasons = @ \cup rs] = rec("done", err, o.reasons \cup rs)
    BY <1>o, <1>1 DEF Answered, CallRec, rec
  <2>4. req' = [req EXCEPT ![r] = rec("done", err, why)]
    BY <2>2, <2>3
  <2> HIDE DEF why
  <2> QED BY <1>5, <2>1, <2>4 DEF Early
<1> QED BY <1>8, <1>9, <1>10, <1>11, <1>12
\* The locks, which read the path of the comment that is answered.
LEMMA LockThreads ==
  ASSUME StoreInv, ThreadsInv, NEW r \in Requests, LockPost(r) \/ LockParent(r)
  PROVE  ThreadsInv'
<1> DEFINE o == req[r]
           rec(at, err, path, why) ==
             [o EXCEPT !.at = at, !.err = err, !.path = path, !.reasons = why]
           spoken == Reasons(o)
           why == o.reasons \cup spoken
           because(q) == [q EXCEPT !.reasons = @ \cup spoken]
<1> HIDE DEF spoken
<1>1. /\ o \in CallRec(o.path, o.reasons) /\ WriterInv(o) /\ o.path \in Seq(Int)
      /\ req = [s \in Requests |-> req[s]]
      /\ CommentRowsInv(commentRows)
  BY CallHolds DEF CallTypeOK, ThreadsInv, WriterInv, StoreInv
<1>2. ASSUME NEW at, NEW err, NEW path, NEW given
      PROVE  LET q == rec(at, err, path, given)
             IN  SameCall(q, o) /\ q.id = o.id /\ q.path = path /\ q.at = at
  BY <1>1 DEF SameCall, CallRec
<1>3. /\ \A err : because(GiveUp(r, err)) = rec("rollback", err, o.path, why)
      /\ \A at : because([o EXCEPT !.at = at]) = rec(at, o.err, o.path, why)
      /\ \A path : because([o EXCEPT !.at = "insert", !.path = path])
                      = rec("insert", o.err, path, why)
  BY <1>1 DEF CallRec, GiveUp
<1>4. o = req[r]
  OBVIOUS
<1> HIDE DEF rec, o, why, because
<1>5. ASSUME NEW at \in {"rollback", "insert", "lockParent"}, NEW err, NEW path \in Seq(Int),
             req' = [req EXCEPT ![r] = rec(at, err, path, why)],
             UNCHANGED <<commentRows, postSeq, commentSeq>>
      PROVE  ThreadsInv'
  <2> DEFINE q == rec(at, err, path, why)
  <2>1. SameCall(q, o) /\ q.id = o.id /\ q.path = path /\ q.at = at
    BY <1>2
  <2>2. req' = [req EXCEPT ![r] = q]
    BY <1>5
  <2> HIDE DEF q
  <2>3. q.at # "commitPost" /\ ~Writing(q) /\ q.at \notin Early
    BY <2>1 DEF Writing, Early
  <2>4. WriterInv(q)
    BY <1>1, <2>1, <2>3, WriterStays
  <2>5. q.op = o.op
    BY <2>1 DEF SameCall
  <2> QED BY <1>4, <1>5, <2>1, <2>2, <2>4, <2>5, ThreadsStay
<1>6. CASE LockPost(r)
  <2>1. UNCHANGED <<commentRows, postSeq, commentSeq>>
    BY <1>6 DEF LockPost
  <2>2. \/ \E err : req' = [req EXCEPT ![r] = because(GiveUp(r, err))]
        \/ \E at \in {"insert", "lockParent"} :
             req' = [req EXCEPT ![r] = because([o EXCEPT !.at = at])]
    BY <1>6, <1>4 DEF LockPost, because, spoken
  <2>3. CASE \E err : req' = [req EXCEPT ![r] = because(GiveUp(r, err))]
    <3>1. PICK err : req' = [req EXCEPT ![r] = because(GiveUp(r, err))]
      BY <2>3
    <3>2. req' = [req EXCEPT ![r] = rec("rollback", err, o.path, why)]
      BY <1>3, <1>4, <3>1
    <3> QED BY <1>1, <1>5, <2>1, <3>2
  <2>4. CASE \E at \in {"insert", "lockParent"} :
               req' = [req EXCEPT ![r] = because([o EXCEPT !.at = at])]
    <3>1. PICK at \in {"insert", "lockParent"} :
            req' = [req EXCEPT ![r] = because([o EXCEPT !.at = at])]
      BY <2>4
    <3>2. req' = [req EXCEPT ![r] = rec(at, o.err, o.path, why)]
      BY <1>3, <1>4, <3>1
    <3> QED BY <1>1, <1>5, <2>1, <3>2
  <2> QED BY <2>2, <2>3, <2>4
<1>7. CASE LockParent(r)
  <2> DEFINE err == ParentError(r)
             path == commentRows[o.parent].path
  <2>1. UNCHANGED <<commentRows, postSeq, commentSeq>>
    BY <1>7 DEF LockParent, ReadParent
  <2>2. CASE err # "none"
    <3> HIDE DEF err
    <3>1. req' = [req EXCEPT ![r] = because(GiveUp(r, err))]
      BY <1>4, <1>7, <2>2 DEF LockParent, ReadParent, err, because, spoken
    <3>2. req' = [req EXCEPT ![r] = rec("rollback", err, o.path, why)]
      BY <1>3, <1>4, <3>1
    <3> QED BY <1>1, <1>5, <2>1, <3>2
  <2>3. CASE err = "none"
    <3>1. req' = [req EXCEPT ![r] = because([o EXCEPT !.at = "insert", !.path = path])]
      BY <1>4, <1>7, <2>3 DEF LockParent, ReadParent, because, spoken
    <3>2. path \in Seq(Int)
      <4>1. o.parent \in DOMAIN commentRows
        BY <1>4, <2>3 DEF ParentError
      <4>2. commentRows[o.parent] \in CommentRow
        BY <1>1, <4>1 DEF CommentRowsInv
      <4> QED BY <4>2 DEF CommentRow
    <3> HIDE DEF path
    <3>3. req' = [req EXCEPT ![r] = rec("insert", o.err, path, why)]
      BY <1>3, <1>4, <3>1
    <3> QED BY <1>5, <2>1, <3>2, <3>3
  <2> QED BY <2>2, <2>3
<1> QED BY <1>6, <1>7

\* The statements that take ids, and the one that makes the path.
LEMMA InsertThreads ==
  ASSUME StoreInv, ThreadsInv, NEW r \in Requests,
         InsertPost(r) \/ InsertComment(r) \/ UpdateCommentPath(r)
  PROVE  ThreadsInv'
<1> DEFINE o == req[r]
<1>1. /\ o \in CallRec(o.path, o.reasons) /\ WriterInv(o) /\ o.path \in Seq(Int) /\ o.id \in Nat
      /\ req = [s \in Requests |-> req[s]] /\ CommentRowsInv(commentRows)
      /\ CallTypeOK(o) /\ CallInv(o, postRows, commentRows, postSeq, commentSeq)
      /\ postSeq \in Nat /\ commentSeq \in Nat /\ MaxPosts \in Nat /\ MaxComments \in Nat
      /\ DOMAIN commentRows \subseteq 1..commentSeq
  BY CallHolds, PostgresAssumption
  DEF CallTypeOK, CallRec, ThreadsInv, WriterInv, StoreInv, RowsInv
<1>p. Roomy(req, "CreatePost", postSeq, MaxPosts) /\ Roomy(req, "CreateComment", commentSeq, MaxComments)
  BY DEF ThreadsInv
<1>2. ASSUME NEW q, req' = [req EXCEPT ![r] = q]
      PROVE  \A s \in Requests : req'[s] = IF s = r THEN q ELSE req[s]
  BY <1>1, <1>2
<1>3. CASE InsertPost(r)
  <2>1. PICK now \in Times :
          req' = [req EXCEPT ![r].at = "commitPost", ![r].id = postSeq + 1, ![r].createdAt = now]
    BY <1>3 DEF InsertPost
  <2>2. /\ o.at = "insertPost" /\ postSeq' = postSeq + 1 /\ UNCHANGED <<commentRows, commentSeq>>
    BY <1>3 DEF InsertPost
  <2> DEFINE q == [o EXCEPT !.at = "commitPost", !.id = postSeq + 1, !.createdAt = now]
  <2>3. req' = [req EXCEPT ![r] = q]
    BY <1>1, <2>1
  <2>4. /\ SameCall(q, o) /\ q.path = o.path /\ q.at = "commitPost" /\ q.createdAt = now
        /\ q.id = postSeq + 1 /\ q.op = "CreatePost" /\ o.op = "CreatePost"
    BY <1>1, <2>2 DEF SameCall, CallRec, CallTypeOK
  <2> HIDE DEF q
  <2>5. WriterInv(q)
    <3>1. ~Writing(q)
      BY <2>4 DEF Writing
    <3> QED BY <1>1, <2>4, <3>1, WriterStays DEF Early
  <2>7. Pending(req', "CreateComment") \subseteq Pending(req, "CreateComment")
    BY <1>2, <2>3, <2>4 DEF Pending
  <2>8. Roomy(req', "CreateComment", commentSeq, MaxComments)
    BY <1>1, <1>p, <2>7, RoomStays
  <2>9. Pending(req', "CreatePost") \subseteq Pending(req, "CreatePost") \ {r}
    BY <1>1, <1>2, <2>3, <2>4 DEF Pending
  <2>10. r \in Pending(req, "CreatePost")
    BY <1>1, <2>2, <2>4 DEF Pending, WriterInv, Early
  <2>11. Roomy(req', "CreatePost", postSeq + 1, MaxPosts)
    BY <1>1, <1>p, <2>9, <2>10, RoomUsed
  <2> QED BY <1>1, <1>2, <2>2, <2>3, <2>5, <2>8, <2>11 DEF ThreadsInv
<1>4. CASE InsertComment(r)
  <2>1. /\ req' = [req EXCEPT ![r].at = "setPath", ![r].id = commentSeq + 1]
        /\ o.at = "insert" /\ commentSeq' = commentSeq + 1
        /\ UNCHANGED <<commentRows, postSeq>>
    BY <1>4 DEF InsertComment
  <2> DEFINE q == [o EXCEPT !.at = "setPath", !.id = commentSeq + 1]
  <2>3. req' = [req EXCEPT ![r] = q]
    BY <1>1, <2>1
  <2>4. /\ SameCall(q, o) /\ q.path = o.path /\ q.at = "setPath" /\ q.parent = o.parent
        /\ q.id = commentSeq + 1 /\ q.op = "CreateComment" /\ o.op = "CreateComment"
    BY <1>1, <2>1 DEF SameCall, CallRec, CallTypeOK, InTx
  <2> HIDE DEF q
  <2>5. WriterInv(q)
    <3>1. o.parent # Nil => o.parent \in DOMAIN commentRows
      BY <1>1, <2>1 DEF CallInv, ParentInv
    <3>2. q.parent # Nil => q.parent < q.id
      BY <1>1, <2>4, <3>1
    <3> QED BY <1>1, <2>4, <3>2 DEF WriterInv, Asked, SameCall, Early
  <2>7. Pending(req', "CreatePost") \subseteq Pending(req, "CreatePost")
    BY <1>2, <2>3, <2>4 DEF Pending
  <2>8. Roomy(req', "CreatePost", postSeq, MaxPosts)
    BY <1>1, <1>p, <2>7, RoomStays
  <2>9. Pending(req', "CreateComment") \subseteq Pending(req, "CreateComment") \ {r}
    BY <1>1, <1>2, <2>3, <2>4 DEF Pending
  <2>10. r \in Pending(req, "CreateComment")
    BY <1>1, <2>1, <2>4 DEF Pending, CallInv, IDInv
  <2>11. Roomy(req', "CreateComment", commentSeq + 1, MaxComments)
    BY <1>1, <1>p, <2>9, <2>10, RoomUsed
  <2> QED BY <1>1, <1>2, <2>1, <2>3, <2>5, <2>8, <2>11 DEF ThreadsInv
<1>5. CASE UpdateCommentPath(r)
  <2> DEFINE path == ChildPath(o.path, o.id)
             q == [o EXCEPT !.at = "commit", !.path = path]
  <2>1. /\ req' = [req EXCEPT ![r] = q] /\ o.at = "setPath"
        /\ UNCHANGED <<postRows, commentRows, postSeq, commentSeq>>
    BY <1>1, <1>5 DEF UpdateCommentPath
  <2>2. path \in Seq(Int)
    <3>1. PadID(o.id) \in Seq(Nat)
      BY <1>1, PathAssumption, DigitsType DEF PadID
    <3>2. PadID(o.id) \in Seq(Int) /\ <<Dot>> \in Seq(Int)
      BY <3>1, NatsAreInts DEF Dot
    <3> DEFINE text == PadID(o.id)
               above == o.path
    <3>3. text \in Seq(Int) /\ above \in Seq(Int) /\ path = IF above = <<>> THEN text ELSE above \o <<Dot>> \o text
      BY <1>1, <3>2 DEF ChildPath
    <3> HIDE DEF text, above, path
    <3> QED BY <3>2, <3>3
  <2> HIDE DEF path
  <2>4. /\ SameCall(q, o) /\ q.path = path /\ q.at = "commit" /\ q.id = o.id /\ q.op = o.op
    BY <1>1 DEF SameCall, CallRec
  <2> HIDE DEF q
  <2>5. WriterInv(q)
    <3>1. Writing(o)
      BY <2>1 DEF Writing
    <3> QED BY <1>1, <2>2, <2>4, <3>1, WriterStays DEF Early
  <2>6. req' = [req EXCEPT ![r] = q] /\ q.op = req[r].op /\ q.id = req[r].id
    BY <2>1, <2>4
  <2> QED BY <2>1, <2>5, <2>6, ThreadsStay
<1> QED BY <1>3, <1>4, <1>5

LEMMA CommitThreads ==
  ASSUME StoreInv, ThreadsInv, NEW r \in Requests, Commit(r)
  PROVE  ThreadsInv'
<1> DEFINE o == req[r]
           id == o.id
           row == Row(r)
<1>1. /\ CallTypeOK(o) /\ WriterInv(o) /\ o \in CallRec(o.path, o.reasons)
      /\ CallInv(o, postRows, commentRows, postSeq, commentSeq)
      /\ req = [s \in Requests |-> req[s]]
      /\ CommentRowsInv(commentRows)
  BY CallHolds DEF ThreadsInv, StoreInv
<1>p. /\ Roomy(req, "CreatePost", postSeq, MaxPosts) /\ Roomy(req, "CreateComment", commentSeq, MaxComments)
      /\ postSeq \in Nat /\ commentSeq \in Nat /\ MaxPosts \in Nat /\ MaxComments \in Nat
  BY CallHolds, PostgresAssumption DEF ThreadsInv
<1>2. PICK err \in Reported : req' = [req EXCEPT ![r] = Answered(r, err)]
  BY DEF Commit
<1>3. /\ o.at = "commit" /\ commentRows' = With(commentRows, id, row)
      /\ UNCHANGED <<postRows, postSeq, commentSeq>>
  BY DEF Commit
<1>4. /\ row.parent = o.parent /\ row \in CommentRow
  BY <1>1 DEF Row, CommentRow, CallRec, WriterInv
<1>5. o.parent # Nil => o.parent < id
  BY <1>1, <1>3 DEF WriterInv, Writing
<1> HIDE DEF row
<1>6. commentRows' = [c \in DOMAIN commentRows \cup {id} |-> IF c = id THEN row ELSE commentRows[c]]
  BY <1>3 DEF With
<1>7. CommentRowsInv(commentRows')
  <2> SUFFICES ASSUME NEW c \in DOMAIN commentRows \cup {id}
               PROVE  /\ commentRows'[c] \in CommentRow
                      /\ commentRows'[c].parent # Nil => commentRows'[c].parent < c
    BY <1>6 DEF CommentRowsInv
  <2> QED BY <1>1, <1>4, <1>5, <1>6 DEF CommentRowsInv
<1> DEFINE q == Answered(r, err)
<1>8. SameCall(q, o) /\ q.path = o.path /\ q.at = "done" /\ q.id = o.id
  BY <1>1 DEF Answered, SameCall, CallRec
<1>9. req' = [req EXCEPT ![r] = q]
  BY <1>2
<1> HIDE DEF q
<1>10. WriterInv(q)
  <2>1. ~Writing(q) /\ q.at \notin Early /\ q.at # "commitPost" /\ q.path \in Seq(Int)
    BY <1>1, <1>8 DEF Writing, Early, WriterInv
  <2> QED BY <1>1, <1>8, <2>1, WriterStays
<1>11. \A s \in Requests : req'[s] = IF s = r THEN q ELSE req[s]
  BY <1>1, <1>9
<1>12. \A op \in {"CreatePost", "CreateComment"} : Pending(req', op) \subseteq Pending(req, op)
  BY <1>8, <1>11 DEF Pending, SameCall
<1>13. Roomy(req', "CreatePost", postSeq, MaxPosts)
  BY <1>12, <1>p, RoomStays
<1>14. Roomy(req', "CreateComment", commentSeq, MaxComments)
  BY <1>12, <1>p, RoomStays
<1> QED BY <1>1, <1>3, <1>7, <1>10, <1>11, <1>13, <1>14 DEF ThreadsInv

LEMMA NoCallThreads == WriterInv(NoCall) /\ NoCall.op = "none"
<1>1. <<>> \in Seq(Int)
  OBVIOUS
<1> QED BY <1>1 DEF WriterInv, Asked, NoCall, Writing, Early

LEMMA ReturnThreads ==
  ASSUME StoreInv, ThreadsInv, NEW r \in Requests, Return(r)
  PROVE  ThreadsInv'
<1>1. req' = [req EXCEPT ![r] = NoCall] /\ UNCHANGED <<commentRows, postSeq, commentSeq>>
  BY DEF Return
<1> QED BY <1>1, NoCallThreads, ThreadsStay

LEMMA ThreadsInvInit == Init => ThreadsInv
<1> SUFFICES ASSUME Init PROVE ThreadsInv
  OBVIOUS
<1>1. /\ commentRows = <<>> /\ postSeq = 0 /\ commentSeq = 0
      /\ \A r \in Requests : req[r] = NoCall
  BY DEF Init
<1>2. DOMAIN commentRows = {}
  BY <1>1
<1>3. \A op \in Ops : Pending(req, op) = {}
  BY <1>1, NoCallThreads DEF Pending, Ops
<1>4. MaxPosts \in Nat /\ MaxComments \in Nat /\ IsFiniteSet({}) /\ Cardinality({}) = 0
  BY PostgresAssumption, FS_EmptySet
<1>5. Roomy(req, "CreatePost", 0, MaxPosts) /\ Roomy(req, "CreateComment", 0, MaxComments)
  BY <1>3, <1>4 DEF Roomy, Ops
<1> QED BY <1>1, <1>2, <1>5, NoCallThreads DEF ThreadsInv, CommentRowsInv

LEMMA ThreadsInvNext == StoreInv /\ ThreadsInv /\ [Next]_vars => ThreadsInv'
<1> SUFFICES ASSUME StoreInv, ThreadsInv, [Next]_vars PROVE ThreadsInv'
  OBVIOUS
<1>1. CASE UNCHANGED vars
  BY <1>1 DEF vars, ThreadsInv
<1>2. ASSUME NEW r \in Requests,
             Call(r) \/ Acquire(r) \/ Statement(r) \/ Explain(r) \/ Fail(r) \/ Return(r)
      PROVE  ThreadsInv'
  <2>1. CASE Call(r)
    BY <2>1, BeginThreads
  <2>2. CASE \/ Acquire(r) \/ Fail(r) \/ Rollback(r) \/ UpdateNothing(r) \/ Explain(r)
             \/ CommitPost(r) \/ UpdatePost(r)
    BY <2>2, QuietThreads
  <2>3. CASE LockPost(r) \/ LockParent(r)
    BY <2>3, LockThreads
  <2>4. CASE InsertPost(r) \/ InsertComment(r) \/ UpdateCommentPath(r)
    BY <2>4, InsertThreads
  <2>5. CASE Commit(r) \/ Return(r)
    BY <2>5, CommitThreads, ReturnThreads
  <2> QED BY <1>2, <2>1, <2>2, <2>3, <2>4, <2>5 DEF Statement
<1> QED BY <1>1, <1>2 DEF Next

LEMMA ThreadsInvAlways == SafetySpec => [](StoreInv /\ ThreadsInv)
BY StoreInvInit, StoreInvNext, ThreadsInvInit, ThreadsInvNext, PTL DEF SafetySpec

-----------------------------------------------------------------------------
(* The committed comments as threads, and the order of their paths. *)

PathsOf(cs) == [c \in DOMAIN cs |-> cs[c].path]

LEMMA PathIsText ==
  ASSUME NEW p \in Seq(Int), NEW n \in Nat
  PROVE  ChildPath(p, n) \in Seq(Int) /\ ChildPath(p, n) # <<>> /\ PadID(n) \in Seq(Int)
<1>1. PadID(n) \in Seq(Nat) /\ Len(PadID(n)) = IDWidth /\ IDWidth >= 1 /\ IDWidth \in Nat
  BY PathAssumption, DigitsType DEF PadID
<1>2. PadID(n) \in Seq(Int)
  BY <1>1, NatsAreInts
<1>3. PadID(n) # <<>>
  BY <1>1
<1>4. CASE p = <<>>
  BY <1>2, <1>3, <1>4 DEF ChildPath
<1>5. CASE p # <<>>
  <2> DEFINE q == p \o <<Dot>> \o PadID(n)
  <2>1. q \in Seq(Int) /\ Len(q) = Len(p) + 1 + IDWidth
    BY <1>1, ReplyPath
  <2>2. ChildPath(p, n) = q
    BY <1>5 DEF ChildPath
  <2> HIDE DEF q
  <2>3. Len(p) \in Nat
    OBVIOUS
  <2>4. q # <<>>
    BY <1>1, <2>1, <2>3
  <2> QED BY <1>2, <2>1, <2>2, <2>4
<1> QED BY <1>4, <1>5

LEMMA CommentsAreThreads ==
  ASSUME StoreInv, ThreadsInv
  PROVE  /\ Answering(commentRows) /\ Numerals(Text, IDWidth)
         /\ Pathed(commentRows, PathsOf(commentRows), Text)
<1>1. /\ DOMAIN commentRows \subseteq 1..commentSeq /\ commentSeq \in Nat /\ CommentsWhole
      /\ CommentRowsInv(commentRows) /\ Roomy(req, "CreateComment", commentSeq, MaxComments)
  BY DEF StoreInv, RowsInv, ThreadsInv
<1>2. commentSeq <= MaxComments /\ MaxComments \in Nat
  <2>1. Cardinality(Pending(req, "CreateComment")) \in Nat
    BY <1>1, FS_CardinalityType DEF Roomy
  <2> QED BY <1>1, <2>1, PostgresAssumption DEF Roomy
<1>3. ASSUME NEW c \in DOMAIN commentRows
      PROVE  /\ c \in Nat /\ c \in CommentIDs
             /\ commentRows[c].path \in Seq(Int)
             /\ commentRows[c].parent = Nil => commentRows[c].path = PadID(c)
             /\ commentRows[c].parent # Nil =>
                  /\ commentRows[c].parent \in DOMAIN commentRows
                  /\ commentRows[c].parent < c
                  /\ commentRows[c].path = ChildPath(commentRows[commentRows[c].parent].path, c)
  <2>1. c \in 1..commentSeq
    BY <1>1
  <2>2. c \in Nat /\ c \in CommentIDs
    BY <1>1, <1>2, <2>1 DEF CommentIDs
  <2>3. commentRows[c] \in CommentRow /\ (commentRows[c].parent # Nil => commentRows[c].parent < c)
    BY <1>1 DEF CommentRowsInv
  <2>4. commentRows[c].path \in Seq(Int)
    BY <2>3 DEF CommentRow
  <2>5. /\ commentRows[c].parent = Nil => commentRows[c].path = PadID(c)
        /\ commentRows[c].parent # Nil =>
                  /\ commentRows[c].parent \in DOMAIN commentRows
                  /\ commentRows[c].path = ChildPath(commentRows[commentRows[c].parent].path, c)
    BY <1>1 DEF CommentsWhole
  <2> QED BY <2>2, <2>3, <2>4, <2>5
<1>4. Answering(commentRows)
  BY <1>3 DEF Answering
<1>5. ASSUME NEW c \in DOMAIN commentRows PROVE commentRows[c].path # <<>>
  <2>1. CASE commentRows[c].parent = Nil
    <3>1. <<>> \in Seq(Int) /\ ChildPath(<<>>, c) = PadID(c)
      BY DEF ChildPath
    <3>2. ChildPath(<<>>, c) # <<>>
      BY <1>3, <3>1, PathIsText
    <3> QED BY <1>3, <2>1, <3>1, <3>2
  <2>2. CASE commentRows[c].parent # Nil
    <3> DEFINE above == commentRows[commentRows[c].parent].path
    <3>1. above \in Seq(Int) /\ commentRows[c].path = ChildPath(above, c) /\ c \in Nat
      BY <1>3, <2>2
    <3> HIDE DEF above
    <3> QED BY <3>1, PathIsText
  <2> QED BY <2>1, <2>2
<1>6. Pathed(commentRows, PathsOf(commentRows), Text)
  <2> DEFINE path == PathsOf(commentRows)
  <2>1. \A c \in DOMAIN commentRows : path[c] = commentRows[c].path /\ Text[c] = PadID(c)
    BY <1>3 DEF PathsOf, Text
  <2>2. DOMAIN commentRows \subseteq DOMAIN Text
    BY <1>3 DEF Text
  <2> HIDE DEF path
  <2>3. ASSUME NEW c \in DOMAIN commentRows
        PROVE  /\ path[c] \in Seq(Int)
               /\ path[c] = IF commentRows[c].parent = Nil THEN Text[c]
                            ELSE path[commentRows[c].parent] \o <<Dot>> \o Text[c]
    <3>1. CASE commentRows[c].parent = Nil
      BY <1>3, <2>1, <3>1
    <3>2. CASE commentRows[c].parent # Nil
      <4>1. ChildPath(path[commentRows[c].parent], c)
              = path[commentRows[c].parent] \o <<Dot>> \o Text[c]
        BY <1>3, <1>5, <2>1, <3>2 DEF ChildPath
      <4> QED BY <1>3, <2>1, <3>2, <4>1
    <3> QED BY <3>1, <3>2
  <2> QED BY <2>2, <2>3 DEF Pathed, path
<1> QED BY <1>4, <1>6, TextIsNumerals

-----------------------------------------------------------------------------
(* The rows that a listing has, and their order. *)

RowsOf(t) == IF t = 0 THEN DOMAIN postRows
             ELSE {c \in DOMAIN commentRows : commentRows[c].post = t}

Order(t) == {e \in RowsOf(t) \X RowsOf(t) : Beyond(t, e[2], e[1])}

\* A strict total order.
Total(S, R) == /\ \A a \in S : <<a, a>> \notin R
               /\ \A a, b, c \in S : <<a, b>> \in R /\ <<b, c>> \in R => <<a, c>> \in R
               /\ \A a, b \in S : a # b => <<a, b>> \in R \/ <<b, a>> \in R

LEMMA OrderMeans ==
  ASSUME NEW t, NEW a \in RowsOf(t), NEW b \in RowsOf(t)
  PROVE  <<a, b>> \in Order(t) <=> Beyond(t, b, a)
BY DEF Order

LEMMA PostKeys ==
  ASSUME StoreInv
  PROVE  /\ IsFiniteSet(DOMAIN postRows)
         /\ \A p \in DOMAIN postRows : p \in Nat /\ postRows[p].createdAt \in Int
<1>1. /\ postSeq \in Nat /\ DOMAIN postRows \in SUBSET (1..postSeq)
      /\ \A p \in DOMAIN postRows : postRows[p] \in PostRec
  BY DEF StoreInv, RowsInv
<1>2. IsFiniteSet(1..postSeq)
  BY <1>1, FS_Interval
<1>3. IsFiniteSet(DOMAIN postRows)
  <2> DEFINE S == DOMAIN postRows
             T == 1..postSeq
  <2>1. S \in SUBSET T /\ IsFiniteSet(T)
    BY <1>1, <1>2
  <2> HIDE DEF S, T
  <2>2. IsFiniteSet(S)
    BY <2>1, FS_Subset
  <2> QED BY <2>2 DEF S
<1>4. ASSUME NEW p \in DOMAIN postRows PROVE p \in Nat /\ postRows[p].createdAt \in Int
  <2>1. p \in Nat
    BY <1>1
  <2>2. postRows[p].createdAt \in Times \cup {0}
    BY <1>1 DEF PostRec
  <2>3. Times \subseteq Int
    BY PostgresAssumption
  <2>4. Times \cup {0} \subseteq Int
    BY <2>3
  <2>5. postRows[p].createdAt \in Int
    BY ONLY <2>2, <2>4
  <2> QED BY <2>1, <2>5
<1> QED BY <1>3, <1>4

LEMMA RowsAreOrdered ==
  ASSUME StoreInv, ThreadsInv, NEW t
  PROVE  IsFiniteSet(RowsOf(t)) /\ RowsOf(t) \subseteq Nat /\ Total(RowsOf(t), Order(t))
<1>1. CASE t = 0
  <2>2. \A p \in DOMAIN postRows : p \in Nat /\ postRows[p].createdAt \in Int
    BY PostKeys
  <2>3. IsFiniteSet(RowsOf(t)) /\ RowsOf(t) = DOMAIN postRows
    BY <1>1, PostKeys DEF RowsOf
  <2>4. \A a, b \in RowsOf(t) : <<a, b>> \in Order(t) <=>
          \/ postRows[b].createdAt < postRows[a].createdAt
          \/ postRows[b].createdAt = postRows[a].createdAt /\ b < a
    BY <1>1, OrderMeans DEF Beyond
  <2>5. Total(RowsOf(t), Order(t))
    BY <2>2, <2>3, <2>4 DEF Total
  <2> QED BY <2>2, <2>3, <2>5
<1>2. CASE t # 0
  <2> DEFINE path == PathsOf(commentRows)
  <2>1. /\ Answering(commentRows) /\ Numerals(Text, IDWidth) /\ Pathed(commentRows, path, Text)
        /\ commentSeq \in Nat /\ DOMAIN commentRows \subseteq 1..commentSeq
    BY CommentsAreThreads DEF StoreInv, RowsInv
  <2>2. \A c \in DOMAIN commentRows : path[c] = commentRows[c].path /\ c \in Nat
    BY <2>1 DEF PathsOf
  <2>3. IsFiniteSet(RowsOf(t)) /\ RowsOf(t) \subseteq DOMAIN commentRows
    <3>1. RowsOf(t) \subseteq DOMAIN commentRows /\ IsFiniteSet(1..commentSeq)
      BY <1>2, <2>1, FS_Interval DEF RowsOf
    <3> QED BY <2>1, <3>1, FS_Subset
  <2> HIDE DEF path
  <2>4. \A c \in RowsOf(t) : c \in DOMAIN commentRows /\ path[c] \in Seq(Int)
    BY <2>1, <2>3 DEF Pathed
  <2>5. \A a, b \in RowsOf(t) : <<a, b>> \in Order(t) <=> StringLess(path[a], path[b])
    BY <1>2, <2>2, <2>4, OrderMeans DEF Beyond
  <2>6. \A a \in RowsOf(t) : <<a, a>> \notin Order(t)
    BY <2>4, <2>5, StringLessIsIrreflexive
  <2>7. \A a, b, c \in RowsOf(t) :
          <<a, b>> \in Order(t) /\ <<b, c>> \in Order(t) => <<a, c>> \in Order(t)
    BY <2>4, <2>5, StringLessIsTransitive
  <2>8. ASSUME NEW a \in RowsOf(t), NEW b \in RowsOf(t), a # b
        PROVE  <<a, b>> \in Order(t) \/ <<b, a>> \in Order(t)
    <3>1. path[a] # path[b]
      BY <2>1, <2>4, <2>8, PathsDiffer
    <3> QED BY <2>4, <2>5, <3>1, StringLessIsTotal
  <2> DEFINE T == RowsOf(t)
             R == Order(t)
  <2>9. /\ \A a \in T : <<a, a>> \notin R
        /\ \A a, b, c \in T : <<a, b>> \in R /\ <<b, c>> \in R => <<a, c>> \in R
        /\ \A a, b \in T : a # b => <<a, b>> \in R \/ <<b, a>> \in R
    BY <2>6, <2>7, <2>8
  <2> HIDE DEF T, R
  <2>10. Total(T, R)
    BY ONLY <2>9 DEF Total
  <2> QED BY <2>2, <2>3, <2>10 DEF T, R
<1> QED BY <1>1, <1>2

\* The answer to ORDER BY: every row, in the order.
Listed(L, S, R) == L \in Seq(S) /\ Ordered(L, R) /\ \A x \in S : \E i \in 1..Len(L) : L[i] = x

LEMMA OrderByIsListed ==
  ASSUME NEW S, NEW R, IsFiniteSet(S), R \subseteq S \X S, Total(S, R),
         NEW before, \A b \in S : before[b] = {a \in S : <<a, b>> \in R}
  PROVE  Listed(OrderBy(S, before), S, R)
<1>1. Ranked(S, before)
  <2>1. ASSUME NEW r \in S PROVE before[r] \subseteq S /\ r \notin before[r]
    <3>1. before[r] = {a \in S : <<a, r>> \in R}
      OBVIOUS
    <3>2. <<r, r>> \notin R
      BY DEF Total
    <3> QED BY ONLY <3>1, <3>2
  <2>2. ASSUME NEW r \in S, NEW q \in before[r], NEW p \in before[q] PROVE p \in before[r]
    <3>1. q \in S /\ <<q, r>> \in R
      OBVIOUS
    <3>2. p \in S /\ <<p, q>> \in R
      BY <3>1
    <3>3. <<p, r>> \in R
      BY <3>1, <3>2 DEF Total
    <3> QED BY <3>2, <3>3
  <2>3. ASSUME NEW q \in S, NEW r \in S, q # r PROVE q \in before[r] \/ r \in before[q]
    <3>1. <<q, r>> \in R \/ <<r, q>> \in R
      BY <2>3 DEF Total
    <3> QED BY <3>1
  <2> QED BY <2>1, <2>2, <2>3 DEF Ranked
<1>2. /\ OrderBy(S, before) \in Seq(S)
      /\ \A x \in S : \E i \in 1..Len(OrderBy(S, before)) : OrderBy(S, before)[i] = x
      /\ \A i, j \in 1..Len(OrderBy(S, before)) : i < j =>
           OrderBy(S, before)[i] \in before[OrderBy(S, before)[j]]
  BY <1>1, OrderByFacts
<1> DEFINE L == OrderBy(S, before)
<1> HIDE DEF L
<1>3. Ordered(L, R)
  <2>1. \A i \in 1..Len(L) : L[i] \in S
    BY <1>2 DEF L
  <2>2. \A i, j \in 1..Len(L) : i < j => L[i] \in before[L[j]]
    BY <1>2 DEF L
  <2> QED BY <2>1, <2>2 DEF Ordered
<1> QED BY <1>2, <1>3 DEF Listed, L

LEMMA ListingIsListed ==
  ASSUME StoreInv, ThreadsInv, NEW t
  PROVE  Listed(ListFirst(t), RowsOf(t), Order(t))
<1>1. IsFiniteSet(RowsOf(t)) /\ Total(RowsOf(t), Order(t)) /\ Order(t) \subseteq RowsOf(t) \X RowsOf(t)
  BY RowsAreOrdered DEF Order
<1>2. CASE t = 0
  <2> DEFINE before == [b \in DOMAIN postRows |->
                          {a \in DOMAIN postRows :
                             \/ postRows[a].createdAt > postRows[b].createdAt
                             \/ postRows[a].createdAt = postRows[b].createdAt /\ a > b}]
  <2>1. RowsOf(t) = DOMAIN postRows
    BY <1>2 DEF RowsOf
  <2>2. ListFirst(t) = OrderBy(RowsOf(t), before)
    BY <1>2, <2>1 DEF ListFirst, ListPosts
  <2>0. \A p \in DOMAIN postRows : p \in Nat /\ postRows[p].createdAt \in Int
    BY PostKeys
  <2>3. \A b \in RowsOf(t) : before[b] = {a \in RowsOf(t) : <<a, b>> \in Order(t)}
    <3>1. \A a, b \in RowsOf(t) : <<a, b>> \in Order(t) <=>
            \/ postRows[a].createdAt > postRows[b].createdAt
            \/ postRows[a].createdAt = postRows[b].createdAt /\ a > b
      BY <1>2, <2>0, <2>1, OrderMeans DEF Beyond
    <3> QED BY <2>1, <3>1
  <2> HIDE DEF before
  <2> QED BY <1>1, <2>2, <2>3, OrderByIsListed
<1>3. CASE t # 0
  <2> DEFINE rows == {c \in DOMAIN commentRows : commentRows[c].post = t}
             before == [b \in rows |->
                          {a \in rows : StringLess(commentRows[a].path, commentRows[b].path)}]
  <2>1. RowsOf(t) = rows
    BY <1>3 DEF RowsOf
  <2>2. ListFirst(t) = OrderBy(RowsOf(t), before)
    BY <1>3, <2>1 DEF ListFirst, ListCommentsByPost
  <2>3. \A b \in RowsOf(t) : before[b] = {a \in RowsOf(t) : <<a, b>> \in Order(t)}
    <3>1. \A a, b \in RowsOf(t) : <<a, b>> \in Order(t) <=>
            StringLess(commentRows[a].path, commentRows[b].path)
      BY <1>3, OrderMeans DEF Beyond
    <3> HIDE DEF rows
    <3> QED BY <2>1, <3>1
  <2> HIDE DEF before
  <2> QED BY <1>1, <2>2, <2>3, OrderByIsListed
<1> QED BY <1>2, <1>3

\* The rows of S beyond a row k, in order: what a query with a cursor selects.
Rest(S, R, k) == {x \in S : <<k, x>> \in R}

LEMMA AfterIsListed ==
  ASSUME StoreInv, ThreadsInv, NEW t, NEW k \in RowsOf(t)
  PROVE  Listed(ListAfter(t, k), Rest(RowsOf(t), Order(t), k), Order(t))
<1> DEFINE L == ListFirst(t)
           S == RowsOf(t)
           R == Order(t)
           P == {i \in DOMAIN L : Beyond(t, L[i], k)}
           A == Filter(L, P)
           B == Rest(S, R, k)
<1>1. L \in Seq(S) /\ Ordered(L, R) /\ \A x \in S : \E i \in 1..Len(L) : L[i] = x
  BY ListingIsListed DEF Listed
<1>2. \A i \in 1..Len(L) : L[i] \in S /\ (i \in P <=> <<k, L[i]>> \in R)
  <2>1. \A i \in 1..Len(L) : L[i] \in S /\ i \in DOMAIN L
    BY <1>1
  <2>2. \A i \in 1..Len(L) : <<k, L[i]>> \in R <=> Beyond(t, L[i], k)
    BY <2>1, OrderMeans
  <2> QED BY <2>1, <2>2
<1>3. ListAfter(t, k) = A
  BY DEF ListAfter
<1> HIDE DEF L, S, R, P
<1>4. A \in Seq(S) /\ \E picked : Picks(A, L, P, Len(L), picked)
  BY <1>1, FilterFacts
<1>5. PICK picked : Picks(A, L, P, Len(L), picked)
  BY <1>4
<1> HIDE DEF A
<1>6. \A i \in 1..Len(A) : picked[i] \in 1..Len(L) /\ picked[i] \in P /\ A[i] = L[picked[i]]
  BY <1>5 DEF Picks
<1>7. \A i \in 1..Len(A) : A[i] \in B
  BY <1>2, <1>6 DEF Rest, B
<1>8. A \in Seq(B)
  <2>1. Len(A) \in Nat /\ A = [i \in 1..Len(A) |-> A[i]]
    BY <1>4
  <2> QED BY <1>7, <2>1
<1>9. Ordered(A, R)
  <2> SUFFICES ASSUME NEW i \in 1..Len(A), NEW j \in 1..Len(A), i < j
               PROVE  <<A[i], A[j]>> \in R
    BY DEF Ordered
  <2>1. picked[i] < picked[j]
    BY <1>5 DEF Picks
  <2>2. /\ picked[i] \in 1..Len(L) /\ A[i] = L[picked[i]]
        /\ picked[j] \in 1..Len(L) /\ A[j] = L[picked[j]]
    BY ONLY <1>6, i \in 1..Len(A), j \in 1..Len(A)
  <2>3. \A m, n \in 1..Len(L) : m < n => <<L[m], L[n]>> \in R
    BY ONLY <1>1 DEF Ordered
  <2> QED BY ONLY <2>1, <2>2, <2>3
<1>10. ASSUME NEW x \in B PROVE \E i \in 1..Len(A) : A[i] = x
  <2>1. x \in S /\ <<k, x>> \in R
    BY DEF Rest, B
  <2>2. PICK n \in 1..Len(L) : L[n] = x
    BY <1>1, <2>1
  <2>3. n \in P
    BY <1>2, <2>1, <2>2
  <2>4. PICK i \in 1..Len(A) : picked[i] = n
    BY <1>5, <2>3 DEF Picks
  <2> QED BY <1>6, <2>2, <2>4
<1> QED BY <1>3, <1>8, <1>9, <1>10 DEF Listed, S, R, B

\* The pages that were read and one more: the first rows of an answer, of which
\* the one at the limit is the new cursor if there are more.
PageOf(rows, limit) == SubSeq(rows, 1, IF Len(rows) > limit THEN limit ELSE Len(rows))

Behind(p, T, R) == \A i \in 1..Len(p), x \in T : <<p[i], x>> \in R

\* t is p and a page of rows, which is a listing of T, the rows beyond p.
Paged(t, p, rows, limit, S, T, R) ==
  /\ t \in Seq(S) /\ Ordered(t, R) /\ Len(t) >= Len(p)
  /\ \A i \in 1..Len(p) : t[i] = p[i]
  /\ \A i \in 1..Len(t) : i > Len(p) => t[i] \in T
  /\ Len(rows) <= limit => \A x \in T : \E i \in 1..Len(t) : t[i] = x
  /\ Len(rows) > limit =>
       /\ Len(t) >= 1 /\ PageOf(rows, limit)[limit] = t[Len(t)]
       /\ \A x \in T : (\E i \in 1..Len(t) : t[i] = x) \/ <<t[Len(t)], x>> \in R
  /\ \A x \in T, i \in 1..Len(t) : <<x, t[i]>> \in R => \E j \in 1..Len(t) : t[j] = x

LEMMA PagesInOrder ==
  ASSUME NEW S, NEW R, Total(S, R), NEW p \in Seq(S), Ordered(p, R),
         NEW T \in SUBSET S, NEW rows, Listed(rows, T, R),
         NEW limit \in Nat, limit >= 1,
         Behind(p, T, R),
         NEW t, t = p \o PageOf(rows, limit)
  PROVE  Paged(t, p, rows, limit, S, T, R)
<1> DEFINE m == IF Len(rows) > limit THEN limit ELSE Len(rows)
<1>1. rows \in Seq(T) /\ Ordered(rows, R) /\ \A x \in T : \E i \in 1..Len(rows) : rows[i] = x
  BY DEF Listed
<1>2. m \in Nat /\ m <= Len(rows) /\ Len(rows) \in Nat /\ Len(p) \in Nat
      /\ (Len(rows) <= limit => m = Len(rows)) /\ (Len(rows) > limit => m = limit)
  BY <1>1
<1>3. \A i \in 1..Len(rows) : rows[i] \in T /\ rows[i] \in S
  BY <1>1
<1>4. rows \in Seq(S)
  <2>1. rows = [i \in 1..Len(rows) |-> rows[i]]
    BY <1>1
  <2> QED BY <1>2, <1>3, <2>1
<1>5. PageOf(rows, limit) = SubSeq(rows, 1, m) /\ t = p \o SubSeq(rows, 1, m)
  BY DEF PageOf
<1>0. Len(rows) > limit => SubSeq(rows, 1, m)[limit] = rows[limit]
  BY <1>2, <1>4, SubSeqFacts
<1> HIDE DEF m
<1>6. Leads(S, R, p, rows, 1, m)
  <2>1. 1 \in 1..(Len(rows) + 1) /\ m \in (1 - 1)..Len(rows)
    BY <1>2
  <2>2. \A i \in 1..Len(p), j \in 1..m : <<p[i], rows[j]>> \in R
    <3>1. \A j \in 1..m : rows[j] \in T
      BY <1>2, <1>3
    <3> QED BY <3>1 DEF Behind
  <2> QED BY <1>1, <1>4, <2>1, <2>2 DEF Leads
<1>7. t \in Seq(S) /\ Ordered(t, R) /\ Spliced(t, p, rows, 1, m)
  BY <1>5, <1>6, ConcatKeepsOrdered
<1>8. /\ Len(t) = Len(p) + m
      /\ \A i \in 1..Len(p) : t[i] = p[i]
      /\ \A i \in (Len(p) + 1)..Len(t) : i - Len(p) \in 1..m /\ t[i] = rows[i - Len(p)]
      /\ \A j \in 1..m : Len(p) + j \in 1..Len(t) /\ t[Len(p) + j] = rows[j]
  <2>1. /\ Len(t) = Len(p) + (m - 1 + 1)
        /\ \A i \in 1..Len(p) : t[i] = p[i]
        /\ \A i \in (Len(p) + 1)..Len(t) :
             1 + (i - Len(p)) - 1 \in 1..m /\ t[i] = rows[1 + (i - Len(p)) - 1]
        /\ \A j \in 1..m :
             Len(p) + (j - 1) + 1 \in 1..Len(t) /\ t[Len(p) + (j - 1) + 1] = rows[j]
    BY <1>7 DEF Spliced
  <2>2. ASSUME NEW i \in (Len(p) + 1)..Len(t)
        PROVE  i - Len(p) \in 1..m /\ t[i] = rows[i - Len(p)]
    <3>1. 1 + (i - Len(p)) - 1 = i - Len(p)
      BY <1>2, <2>1
    <3> QED BY <2>1, <3>1
  <2>3. ASSUME NEW j \in 1..m PROVE Len(p) + j \in 1..Len(t) /\ t[Len(p) + j] = rows[j]
    <3>1. Len(p) + (j - 1) + 1 = Len(p) + j
      BY <1>2
    <3> QED BY <2>1, <3>1
  <2> QED BY <1>2, <2>1, <2>2, <2>3
<1>9. ASSUME NEW i \in 1..Len(t), i > Len(p) PROVE t[i] \in T
  <2>1. i \in (Len(p) + 1)..Len(t)
    BY <1>2, <1>8, <1>9
  <2>2. i - Len(p) \in 1..Len(rows) /\ t[i] = rows[i - Len(p)]
    BY <1>2, <1>8, <2>1
  <2> QED BY <1>3, <2>2
<1>10. ASSUME NEW x \in T
       PROVE  \/ \E i \in 1..Len(t) : t[i] = x
              \/ Len(rows) > limit /\ \E n \in (m + 1)..Len(rows) : rows[n] = x
  <2>1. PICK n \in 1..Len(rows) : rows[n] = x
    BY <1>1
  <2>2. CASE n <= m
    <3>1. n \in 1..m
      BY <1>2, <2>2
    <3>2. Len(p) + n \in 1..Len(t) /\ t[Len(p) + n] = rows[n]
      BY ONLY <1>8, <3>1
    <3> QED BY ONLY <2>1, <3>2
  <2>3. CASE n > m
    <3>1. n \in (m + 1)..Len(rows) /\ Len(rows) > limit
      BY ONLY <1>2, <2>3, n \in 1..Len(rows)
    <3>2. \E k \in (m + 1)..Len(rows) : rows[k] = x
      BY ONLY <2>1, <3>1
    <3> QED BY ONLY <3>1, <3>2
  <2>4. n <= m \/ n > m
    BY ONLY <1>2, n \in 1..Len(rows)
  <2> QED BY ONLY <2>2, <2>3, <2>4
<1>11. ASSUME Len(rows) > limit
       PROVE  /\ Len(t) >= 1 /\ PageOf(rows, limit)[limit] = t[Len(t)] /\ t[Len(t)] = rows[m]
              /\ m \in 1..Len(rows)
  <2>1. m = limit /\ m \in 1..m /\ m \in 1..Len(rows)
    BY <1>2, <1>11
  <2>2. Len(t) >= 1 /\ t[Len(t)] = rows[m]
    BY <1>2, <1>8, <2>1
  <2> QED BY <1>0, <1>5, <1>11, <2>1, <2>2
<1>12. ASSUME NEW n \in (m + 1)..Len(rows), NEW x, rows[n] = x, Len(rows) > limit
       PROVE  <<t[Len(t)], x>> \in R
  <2>1. n \in 1..Len(rows) /\ m \in 1..Len(rows) /\ m < n
    BY ONLY <1>2, <1>11, <1>12
  <2>2. <<rows[m], rows[n]>> \in R
    BY ONLY <1>1, <2>1 DEF Ordered
  <2> QED BY ONLY <1>11, <1>12, <2>2
<1>13. ASSUME NEW x \in T, NEW i \in 1..Len(t), <<x, t[i]>> \in R
       PROVE  \E j \in 1..Len(t) : t[j] = x
  <2> SUFFICES ASSUME Len(rows) > limit, \E n \in (m + 1)..Len(rows) : rows[n] = x
               PROVE  FALSE
    <3>1. \/ \E j \in 1..Len(t) : t[j] = x
          \/ Len(rows) > limit /\ \E n \in (m + 1)..Len(rows) : rows[n] = x
      BY ONLY <1>10, x \in T
    <3> QED BY <3>1, Zenon
  <2>0. PICK n \in (m + 1)..Len(rows) : rows[n] = x
    OBVIOUS
  <2>1. <<t[Len(t)], x>> \in R /\ Len(t) \in 1..Len(t)
    <3>1. Len(t) >= 1 /\ Len(t) \in Nat
      BY <1>7, <1>11
    <3>2. <<t[Len(t)], x>> \in R
      BY ONLY <1>12, <2>0, Len(rows) > limit
    <3> QED BY ONLY <3>1, <3>2
  <2>2. t[i] \in S /\ t[Len(t)] \in S /\ x \in S
    BY ONLY <1>7, <2>1, i \in 1..Len(t), x \in T, T \subseteq S
  <2>3. i = Len(t) \/ <<t[i], t[Len(t)]>> \in R
    <3>1. i < Len(t) => <<t[i], t[Len(t)]>> \in R
      BY <1>7, <2>1 DEF Ordered
    <3>2. Len(t) \in Nat /\ (i < Len(t) \/ i = Len(t))
      BY <1>7
    <3> QED BY <3>1, <3>2
  <2>4. <<x, t[Len(t)]>> \in R
    BY <1>13, <2>2, <2>3 DEF Total
  <2> QED BY <2>1, <2>2, <2>4 DEF Total
<1>14. Len(rows) <= limit => \A x \in T : \E i \in 1..Len(t) : t[i] = x
  BY <1>2, <1>10
<1>15. Len(rows) > limit => \A x \in T : (\E i \in 1..Len(t) : t[i] = x) \/ <<t[Len(t)], x>> \in R
  BY <1>10, <1>12
<1>16. Len(t) >= Len(p) /\ (\A i \in 1..Len(t) : i > Len(p) => t[i] \in T)
  BY <1>2, <1>8, <1>9
<1>17. \A x \in T, i \in 1..Len(t) : <<x, t[i]>> \in R => \E j \in 1..Len(t) : t[j] = x
  BY <1>13
<1>18. Len(rows) > limit => Len(t) >= 1 /\ PageOf(rows, limit)[limit] = t[Len(t)]
  BY <1>11
<1>19. t \in Seq(S) /\ Ordered(t, R) /\ \A i \in 1..Len(p) : t[i] = p[i]
  BY <1>7, <1>8
<1> QED BY ONLY <1>14, <1>15, <1>16, <1>17, <1>18, <1>19 DEF Paged

-----------------------------------------------------------------------------
(* Scans. *)

\* s is what the pages of t have shown: in the order of the listing, and with each
\* comment the one it answers.
WalkInv(t, s) ==
  /\ s \in Seq(RowsOf(t)) /\ Ordered(s, Order(t))
  /\ t # 0 => \A i \in 1..Len(s) :
                commentRows[s[i]].parent # Nil =>
                  \E j \in 1..Len(s) : s[j] = commentRows[s[i]].parent

\* The rows that are still to come after s.
Ahead(t, s) == IF Len(s) = 0 THEN RowsOf(t) ELSE Rest(RowsOf(t), Order(t), s[Len(s)])

\* Slice s is old with rows of T in front of the others of T behind it.
Extended(s, old, t, T) ==
  /\ s \in Seq(RowsOf(t)) /\ Ordered(s, Order(t)) /\ Len(s) >= Len(old)
  /\ \A i \in 1..Len(old) : s[i] = old[i]
  /\ \A i \in 1..Len(s) : i > Len(old) => s[i] \in T
  /\ \A x \in T, i \in 1..Len(s) : <<x, s[i]>> \in Order(t) => \E j \in 1..Len(s) : s[j] = x

LEMMA PageKeepsThreads ==
  ASSUME StoreInv, ThreadsInv, NEW t, t # 0, NEW old, WalkInv(t, old),
         NEW s, Extended(s, old, t, Ahead(t, old))
  PROVE  WalkInv(t, s)
<1> DEFINE S == RowsOf(t)
           R == Order(t)
           T == Ahead(t, old)
           path == PathsOf(commentRows)
<1>1. /\ Answering(commentRows) /\ Numerals(Text, IDWidth) /\ Pathed(commentRows, path, Text)
  BY CommentsAreThreads
<1>2. /\ S \subseteq DOMAIN commentRows /\ \A c \in S : path[c] = commentRows[c].path
      /\ \A a, b \in S : <<a, b>> \in R <=> StringLess(path[a], path[b])
  <2>1. S \subseteq DOMAIN commentRows /\ \A c \in S : path[c] = commentRows[c].path
    BY DEF RowsOf, PathsOf
  <2> HIDE DEF path
  <2>2. \A a, b \in S : <<a, b>> \in R <=> StringLess(path[a], path[b])
    BY <2>1, OrderMeans DEF Beyond
  <2> QED BY <2>1, <2>2
<1>3. Total(S, R)
  BY RowsAreOrdered
<1>4. /\ old \in Seq(S) /\ Len(old) \in Nat /\ \A i \in 1..Len(old) : old[i] \in S
      /\ \A i \in 1..Len(old) : commentRows[old[i]].parent # Nil =>
           \E j \in 1..Len(old) : old[j] = commentRows[old[i]].parent
  <2>1. old \in Seq(S)
    BY DEF WalkInv
  <2>2. Len(old) \in Nat /\ \A i \in 1..Len(old) : old[i] \in S
    BY ONLY <2>1
  <2> QED BY <2>1, <2>2 DEF WalkInv
<1>5. /\ s \in Seq(S) /\ Ordered(s, R) /\ Len(s) >= Len(old)
      /\ \A i \in 1..Len(old) : s[i] = old[i]
      /\ \A i \in 1..Len(s) : i > Len(old) => s[i] \in T
      /\ \A x \in T, i \in 1..Len(s) : <<x, s[i]>> \in R => \E j \in 1..Len(s) : s[j] = x
  BY DEF Extended
<1>6. T = IF Len(old) = 0 THEN S ELSE Rest(S, R, old[Len(old)])
  BY DEF Ahead
<1> HIDE DEF R, T, path
<1>7. ASSUME NEW c \in S, commentRows[c].parent # Nil
      PROVE  commentRows[c].parent \in S /\ <<commentRows[c].parent, c>> \in R
             /\ Extends(path[c], path[commentRows[c].parent])
  <2> DEFINE a == commentRows[c].parent
  <2>1. a \in S
    BY <1>2, <1>7 DEF RowsOf, StoreInv, RowsInv, CommentsWhole
  <2>2. Extends(path[c], path[a])
    BY <1>1, <1>2, <1>7, ParentIsExtended
  <2>3. path[a] \in Seq(Int) /\ path[c] \in Seq(Int)
    BY <1>1, <1>2, <2>1 DEF Pathed
  <2>4. StringLess(path[a], path[c])
    BY <2>2, <2>3, ExtensionIsGreater
  <2> QED BY <1>2, <2>1, <2>2, <2>4
<1> HIDE DEF S
<1>8. ASSUME NEW i \in 1..Len(s), commentRows[s[i]].parent # Nil
      PROVE  \E j \in 1..Len(s) : s[j] = commentRows[s[i]].parent
  <2> DEFINE c == s[i]
             a == commentRows[c].parent
  <2>0. Len(s) \in Nat /\ 1..Len(old) \subseteq 1..Len(s)
    BY <1>4, <1>5
  <2>1. CASE i <= Len(old)
    <3>1. i \in 1..Len(old) /\ c = old[i]
      BY <1>4, <1>5, <2>1
    <3>2. PICK j \in 1..Len(old) : old[j] = a
      BY <1>4, <1>8, <3>1
    <3> QED BY <1>5, <2>0, <3>2
  <2>2. CASE i > Len(old)
    <3>1. c \in T /\ c \in S
      BY <1>5, <2>2
    <3>2. a \in S /\ <<a, c>> \in R /\ Extends(path[c], path[a])
      BY <1>7, <1>8, <3>1
    <3>3. CASE a \in T
      BY <1>5, <3>2, <3>3
    <3>4. CASE a \notin T
      <4> DEFINE k == old[Len(old)]
                 D == {old[j] : j \in 1..Len(old)}
      <4>1. Len(old) # 0 /\ <<k, c>> \in R /\ <<k, a>> \notin R
        BY <1>6, <3>1, <3>2, <3>4 DEF Rest
      <4>2. Len(old) \in 1..Len(old) /\ k \in S /\ k \in D
        BY <1>4, <4>1
      <4> HIDE DEF k
      <4>3. a = k \/ <<a, k>> \in R
        BY <1>3, <3>2, <4>1, <4>2 DEF Total
      <4>4. a \in D
        <5>1. CASE a = k
          BY <4>2, <5>1
        <5>2. CASE <<a, k>> \in R
          <6>1. path[a] \in Seq(Int) /\ path[c] \in Seq(Int) /\ path[k] \in Seq(Int)
            BY <1>1, <1>2, <3>1, <3>2, <4>2 DEF Pathed
          <6>2. <<c, k>> \notin R
            BY <1>3, <3>1, <4>1, <4>2 DEF Total
          <6>3. StringLess(path[a], path[k]) /\ ~StringLess(path[c], path[k])
            BY <1>2, <3>1, <3>2, <4>2, <5>2, <6>2
          <6>4. Extends(path[k], path[a])
            BY <3>2, <6>1, <6>3, BetweenExtensions
          <6>5. a \in Ancestors(commentRows)[k]
            BY <1>1, <1>2, <3>2, <4>2, <6>4, ExtendedIsAncestor
          <6>6. D \in SUBSET DOMAIN commentRows
            BY <1>2, <1>4
          <6>7. \A d \in D : commentRows[d].parent # Nil => commentRows[d].parent \in D
            BY <1>4
          <6> HIDE DEF D
          <6>8. Ancestors(commentRows)[k] \subseteq D
            BY <1>1, <4>2, <6>6, <6>7, AncestorsWithin
          <6> QED BY <6>5, <6>8
        <5> QED BY <4>3, <5>1, <5>2
      <4>5. PICK j \in 1..Len(old) : old[j] = a
        BY <4>4
      <4> QED BY <1>5, <2>0, <4>5
    <3> QED BY <3>3, <3>4
  <2>3. i <= Len(old) \/ i > Len(old)
    BY <1>4, <2>0
  <2> QED BY <2>1, <2>2, <2>3
<1> QED BY <1>5, <1>8 DEF WalkInv, S, R

\* What a page adds to the pages so far: rows of those ahead, and a cursor at the
\* last of them with the rest ahead of it, or none if there is no rest.
LEMMA PageAdds ==
  ASSUME StoreInv, ThreadsInv, NEW t, NEW old, WalkInv(t, old),
         NEW rows, Listed(rows, Ahead(t, old), Order(t)),
         NEW limit \in Nat, limit >= 1, NEW s, s = old \o PageOf(rows, limit)
  PROVE  WalkInv(t, s) /\ Paged(s, old, rows, limit, RowsOf(t), Ahead(t, old), Order(t))
<1> DEFINE S == RowsOf(t)
           R == Order(t)
           T == Ahead(t, old)
<1>1. Total(S, R)
  BY RowsAreOrdered
<1>2. old \in Seq(S) /\ Ordered(old, R)
  BY DEF WalkInv
<1>3. Len(old) \in Nat /\ \A i \in 1..Len(old) : old[i] \in S
  BY ONLY <1>2
<1>4. T = IF Len(old) = 0 THEN S ELSE Rest(S, R, old[Len(old)])
  BY DEF Ahead
<1>r. Listed(rows, T, R)
  OBVIOUS
<1>w. ASSUME Extended(s, old, t, T) PROVE WalkInv(t, s)
  <2>1. CASE t = 0
    BY <1>w, <2>1 DEF Extended, WalkInv
  <2>2. CASE t # 0
    BY <1>w, <2>2, PageKeepsThreads
  <2> QED BY <2>1, <2>2
<1>e. ASSUME /\ s \in Seq(S) /\ Ordered(s, R) /\ Len(s) >= Len(old)
             /\ \A i \in 1..Len(old) : s[i] = old[i]
             /\ \A i \in 1..Len(s) : i > Len(old) => s[i] \in T
             /\ \A x \in T, i \in 1..Len(s) : <<x, s[i]>> \in R => \E j \in 1..Len(s) : s[j] = x
      PROVE  Extended(s, old, t, T)
  BY <1>e DEF Extended
<1> HIDE DEF S, R, T
<1>5. T \in SUBSET S
  BY <1>4 DEF Rest
<1>6. Behind(old, T, R)
  <2> SUFFICES ASSUME NEW i \in 1..Len(old), NEW x \in T PROVE <<old[i], x>> \in R
    BY DEF Behind
  <2>1. Len(old) # 0 /\ Len(old) \in 1..Len(old)
    BY <1>3
  <2>2. <<old[Len(old)], x>> \in R /\ x \in S
    BY <1>4, <1>5, <2>1 DEF Rest
  <2>3. i = Len(old) \/ <<old[i], old[Len(old)]>> \in R
    <3>1. i < Len(old) => <<old[i], old[Len(old)]>> \in R
      BY <1>2, <2>1 DEF Ordered
    <3> QED BY <1>3, <3>1
  <2> QED BY <1>1, <1>3, <2>1, <2>2, <2>3 DEF Total
<1>l. limit \in Nat /\ limit >= 1 /\ s = old \o PageOf(rows, limit)
  OBVIOUS
<1>7. Paged(s, old, rows, limit, S, T, R)
  BY ONLY <1>1, <1>2, <1>5, <1>6, <1>r, <1>l, PagesInOrder
<1>8. WalkInv(t, s)
  <2>1. Extended(s, old, t, T)
    BY <1>7, <1>e DEF Paged
  <2> QED BY <2>1, <1>w
<1> QED BY <1>7, <1>8 DEF S, T, R

\* owed is in the pages s or ahead of their last item k.
Accounted(t, s, open) ==
  /\ owed \subseteq RowsOf(t)
  /\ \A x \in owed : (\E i \in 1..Len(s) : s[i] = x)
                     \/ (open /\ <<s[Len(s)], x>> \in Order(t))

ScanInv ==
  /\ WalkInv(target, seen)
  /\ phase = "idle" => seen = <<>>
  /\ phase = "open" => Len(seen) >= 1 /\ cursor = seen[Len(seen)]
  /\ phase # "idle" => Accounted(target, seen, phase = "open")

LEMMA ScanInvInit == ScanInit => ScanInv
<1> SUFFICES ASSUME ScanInit PROVE ScanInv
  OBVIOUS
<1>1. seen = <<>> /\ phase = "idle"
  BY DEF ScanInit
<1>2. WalkInv(target, <<>>)
  BY DEF WalkInv, Ordered
<1> QED BY <1>1, <1>2 DEF ScanInv

\* A page of t behind old, of which the new cursor and phase are those of ListPage.
LEMMA PageStep ==
  ASSUME StoreInv, ThreadsInv, NEW t, NEW old, WalkInv(t, old),
         NEW k, NEW limit \in 1..MaxFirst, ListPage(t, k, limit),
         k = Nil => old = <<>>,
         k # Nil => old = seen /\ Len(old) >= 1 /\ k = old[Len(old)] /\ k \in RowsOf(t)
  PROVE  /\ WalkInv(t, seen') /\ phase' \in {"open", "done"}
         /\ phase' = "open" => Len(seen') >= 1 /\ cursor' = seen'[Len(seen')]
         /\ \A x : (\E i \in 1..Len(old) : old[i] = x) => \E i \in 1..Len(seen') : seen'[i] = x
         /\ \A x \in Ahead(t, old) : (\E i \in 1..Len(seen') : seen'[i] = x)
                     \/ (phase' = "open" /\ <<seen'[Len(seen')], x>> \in Order(t))
<1> DEFINE rows == IF k = Nil THEN ListFirst(t) ELSE ListAfter(t, k)
           next == IF Len(rows) > limit THEN PageOf(rows, limit)[limit] ELSE Nil
<1>1. limit \in Nat /\ limit >= 1
  BY PageAssumption
<1>2. /\ seen' = old \o PageOf(rows, limit) /\ cursor' = next
      /\ phase' = IF next = Nil THEN "done" ELSE "open"
  BY DEF ListPage, PageOf
<1>3. Listed(rows, Ahead(t, old), Order(t))
  <2>1. CASE k = Nil
    <3>1. Ahead(t, old) = RowsOf(t)
      BY <2>1 DEF Ahead
    <3> QED BY <2>1, <3>1, ListingIsListed
  <2>2. CASE k # Nil
    <3>1. Ahead(t, old) = Rest(RowsOf(t), Order(t), k)
      BY <2>2 DEF Ahead
    <3> QED BY <2>2, <3>1, AfterIsListed
  <2> QED BY <2>1, <2>2
<1> HIDE DEF rows
<1> DEFINE s == seen'
<1>4. s = old \o PageOf(rows, limit)
  BY <1>2
<1> HIDE DEF s
<1>5. WalkInv(t, s) /\ Paged(s, old, rows, limit, RowsOf(t), Ahead(t, old), Order(t))
  <2>1. StoreInv /\ ThreadsInv /\ WalkInv(t, old)
    OBVIOUS
  <2> QED BY ONLY <1>1, <1>3, <1>4, <2>1, PageAdds
<1>6. Len(rows) \in Nat /\ Len(old) \in Nat /\ Len(s) \in Nat
  BY <1>3, <1>5 DEF Listed, WalkInv, Paged
<1>7. Len(rows) > limit => next = s[Len(s)] /\ next \in Nat
  <2> SUFFICES ASSUME Len(rows) > limit PROVE next = s[Len(s)] /\ next \in Nat
    OBVIOUS
  <2>1. next = s[Len(s)] /\ Len(s) \in 1..Len(s)
    BY <1>5, <1>6 DEF Paged
  <2>2. s \in Seq(RowsOf(t)) /\ RowsOf(t) \subseteq Nat
    BY <1>5, RowsAreOrdered DEF WalkInv
  <2> QED BY <2>1, <2>2
<1>8. Len(rows) <= limit => next = Nil
  BY <1>1, <1>6
<1>9. Nil \notin Nat
  BY DEF Nil
<1> HIDE DEF next
<1>10. Len(rows) <= limit \/ Len(rows) > limit
  BY <1>1, <1>6
<1>11. 1..Len(old) \subseteq 1..Len(s)
  BY <1>5, <1>6 DEF Paged
<1>12. phase' = "open" <=> Len(rows) > limit
  BY <1>1, <1>2, <1>6, <1>7, <1>8, <1>9
<1>13. \A x : (\E i \in 1..Len(old) : old[i] = x) => \E i \in 1..Len(s) : s[i] = x
  BY <1>5, <1>11 DEF Paged
<1>14. \A x \in Ahead(t, old) : (\E i \in 1..Len(s) : s[i] = x)
                  \/ (phase' = "open" /\ <<s[Len(s)], x>> \in Order(t))
  BY <1>5, <1>10, <1>12 DEF Paged
<1>15. phase' = "open" => Len(s) >= 1 /\ cursor' = s[Len(s)]
  BY <1>2, <1>5, <1>7, <1>12 DEF Paged
<1>16. phase' \in {"open", "done"}
  BY <1>2
<1> QED BY <1>5, <1>13, <1>14, <1>15, <1>16 DEF s

LEMMA ReadStep ==
  ASSUME StoreInv, ThreadsInv, ScanInv, Read
  PROVE  ScanInv'
<1>0. UNCHANGED <<postRows, commentRows>>
  BY DEF Read, GetPost, FirstPage, NextPage, PageFails, vars
<1>1. ASSUME NEW t, target' = t
      PROVE  /\ WalkInv(target, seen)' <=> WalkInv(t, seen')
             /\ RowsOf(target)' = RowsOf(t) /\ Order(target)' = Order(t)
  BY <1>0, <1>1 DEF RowsOf, Order, Beyond, WalkInv
<1>2. ASSUME NEW t, NEW k, NEW limit \in 1..MaxFirst, ListPage(t, k, limit), target' = t,
             NEW old, WalkInv(t, old), k = Nil => old = <<>>,
             k # Nil => old = seen /\ Len(old) >= 1 /\ k = old[Len(old)] /\ k \in RowsOf(t),
             owed' \subseteq RowsOf(t),
             \A x \in owed' : (\E i \in 1..Len(old) : old[i] = x) \/ x \in Ahead(t, old)
      PROVE  ScanInv'
  <2>1. /\ WalkInv(t, seen') /\ phase' \in {"open", "done"}
        /\ phase' = "open" => Len(seen') >= 1 /\ cursor' = seen'[Len(seen')]
        /\ \A x : (\E i \in 1..Len(old) : old[i] = x) => \E i \in 1..Len(seen') : seen'[i] = x
        /\ \A x \in Ahead(t, old) : (\E i \in 1..Len(seen') : seen'[i] = x)
                     \/ (phase' = "open" /\ <<seen'[Len(seen')], x>> \in Order(t))
    BY <1>2, PageStep
  <2>2. Accounted(target, seen, phase = "open")'
    BY <1>1, <1>2, <2>1 DEF Accounted
  <2> QED BY <1>1, <1>2, <2>1, <2>2 DEF ScanInv
<1>3. ASSUME NEW t, GetPost(t) PROVE ScanInv'
  <2>1. /\ target' = t /\ UNCHANGED <<phase, cursor, seen, owed>>
        /\ phase = "idle" \/ (phase = "open" /\ t = target)
    BY <1>3 DEF GetPost
  <2>2. CASE phase = "idle"
    <3>1. seen' = <<>>
      BY <2>1, <2>2 DEF ScanInv
    <3>2. WalkInv(t, <<>>)
      BY DEF WalkInv, Ordered
    <3> QED BY <1>1, <2>1, <2>2, <3>1, <3>2 DEF ScanInv
  <2>3. CASE phase = "open" /\ t = target
    <3>1. Accounted(target, seen, phase = "open")'
      BY <1>1, <2>1, <2>3 DEF ScanInv, Accounted
    <3> QED BY <1>1, <2>1, <2>3, <3>1 DEF ScanInv
  <2> QED BY <2>1, <2>2, <2>3
<1>4. ASSUME NEW t, NEW limit \in 1..MaxFirst, FirstPage(t, limit) PROVE ScanInv'
  <2>1. ListPage(t, Nil, limit) /\ target' = t /\ owed' = ToSet(ListFirst(t))
    BY <1>4 DEF FirstPage
  <2>2. WalkInv(t, <<>>) /\ Ahead(t, <<>>) = RowsOf(t)
    BY DEF WalkInv, Ordered, Ahead
  <2>3. owed' \subseteq RowsOf(t)
    <3>1. ListFirst(t) \in Seq(RowsOf(t))
      BY ListingIsListed DEF Listed
    <3> QED BY <2>1, <3>1 DEF ToSet
  <2> QED BY <1>2, <2>1, <2>2, <2>3
<1>5. ASSUME NEW limit \in 1..MaxFirst, NextPage(limit) PROVE ScanInv'
  <2> DEFINE t == target
  <2>1. ListPage(t, cursor, limit) /\ target' = t /\ owed' = owed /\ phase = "open"
    BY <1>5 DEF NextPage
  <2>2. WalkInv(t, seen) /\ Len(seen) >= 1 /\ cursor = seen[Len(seen)] /\ Accounted(t, seen, TRUE)
    BY <2>1 DEF ScanInv
  <2>3. cursor \in RowsOf(t)
    BY <2>2 DEF WalkInv
  <2>4. cursor # Nil
    <3>1. cursor \in Nat
      BY <2>3, RowsAreOrdered
    <3> QED BY <3>1 DEF Nil
  <2>5. owed \subseteq RowsOf(t)
        /\ \A x \in owed : (\E i \in 1..Len(seen) : seen[i] = x) \/ x \in Ahead(t, seen)
    BY <2>2 DEF Accounted, Ahead, Rest
  <2> HIDE DEF t
  <2> QED BY <1>2, <2>1, <2>2, <2>3, <2>4, <2>5
<1>6. ASSUME PageFails PROVE ScanInv'
  <2>1. UNCHANGED <<phase, target, cursor, seen, owed>>
    BY <1>6 DEF PageFails
  <2>2. phase # "idle" => Accounted(target, seen, phase = "open")'
    BY <1>1, <2>1 DEF ScanInv, Accounted
  <2> QED BY <1>1, <2>1, <2>2 DEF ScanInv
<1> QED BY <1>3, <1>4, <1>5, <1>6 DEF Read

\* A write changes no sort key, and no comment at all.
LEMMA RowsStay ==
  ASSUME StoreInv, [Next]_vars
  PROVE  /\ DOMAIN postRows \subseteq DOMAIN postRows'
         /\ \A x \in DOMAIN postRows : postRows'[x].createdAt = postRows[x].createdAt
         /\ DOMAIN commentRows \subseteq DOMAIN commentRows'
         /\ \A x \in DOMAIN commentRows : commentRows'[x] = commentRows[x]
<1>1. CASE UNCHANGED <<postRows, commentRows>>
  BY <1>1
<1>2. ASSUME NEW r \in Requests, CommitPost(r) \/ UpdatePost(r) \/ Commit(r)
      PROVE  /\ DOMAIN postRows \subseteq DOMAIN postRows'
             /\ \A x \in DOMAIN postRows : postRows'[x].createdAt = postRows[x].createdAt
             /\ DOMAIN commentRows \subseteq DOMAIN commentRows'
             /\ \A x \in DOMAIN commentRows : commentRows'[x] = commentRows[x]
  <2>1. /\ req[r].at = "commitPost" => req[r].id \notin DOMAIN postRows
        /\ req[r].at = "commit" => req[r].id \notin DOMAIN commentRows
        /\ \A p \in DOMAIN postRows : postRows[p] \in PostRec
    BY DEF StoreInv, RowsInv, CallInv, IDInv, Posting, Writing
  <2>2. CASE CommitPost(r)
    BY <2>1, <2>2 DEF CommitPost, With
  <2>3. CASE UpdatePost(r)
    BY <2>1, <2>3 DEF UpdatePost, PostRec
  <2>4. CASE Commit(r)
    BY <2>1, <2>4 DEF Commit, With
  <2> QED BY <1>2, <2>2, <2>3, <2>4
<1>3. \/ UNCHANGED <<postRows, commentRows>>
      \/ \E r \in Requests : CommitPost(r) \/ UpdatePost(r) \/ Commit(r)
  BY WritersOfRows
<1> QED BY <1>1, <1>2, <1>3

LEMMA WriteStep ==
  ASSUME StoreInv, ScanInv, [Next]_vars, UNCHANGED scanVars
  PROVE  ScanInv'
<1> DEFINE t == target
<1>1. /\ UNCHANGED <<phase, target, cursor, seen, owed>>
      /\ seen \in Seq(RowsOf(t)) /\ Ordered(seen, Order(t))
  BY DEF scanVars, ScanInv, WalkInv
<1>2. RowsOf(t) \subseteq RowsOf(t)'
  BY <1>1, RowsStay DEF RowsOf
<1>3. Order(t) \subseteq Order(t)'
  <2> SUFFICES ASSUME NEW a \in RowsOf(t), NEW b \in RowsOf(t), Beyond(t, b, a)
               PROVE  Beyond(t, b, a)'
    BY <1>2 DEF Order
  <2>1. CASE t = 0
    BY <1>1, <2>1, RowsStay DEF Beyond, RowsOf
  <2>2. CASE t # 0
    BY <1>1, <2>2, RowsStay DEF Beyond, RowsOf
  <2> QED BY <2>1, <2>2
<1>4. Len(seen) \in Nat /\ \A i \in 1..Len(seen) : seen[i] \in RowsOf(t)
  <2> HIDE DEF t
  <2> QED BY <1>1
<1>5. WalkInv(target, seen)'
  <2>1. seen \in Seq(RowsOf(t)') /\ Ordered(seen, Order(t)')
    BY <1>1, <1>2, <1>3 DEF Ordered
  <2>2. ASSUME t # 0, NEW i \in 1..Len(seen), commentRows'[seen[i]].parent # Nil
        PROVE  \E j \in 1..Len(seen) : seen[j] = commentRows'[seen[i]].parent
    <3>1. seen[i] \in DOMAIN commentRows
      BY <1>4, <2>2 DEF RowsOf
    <3>2. commentRows'[seen[i]] = commentRows[seen[i]]
      BY <3>1, RowsStay
    <3> QED BY <2>2, <3>2 DEF ScanInv, WalkInv
  <2> QED BY <1>1, <2>1, <2>2 DEF WalkInv
<1>6. phase # "idle" => Accounted(target, seen, phase = "open")'
  BY <1>1, <1>2, <1>3 DEF ScanInv, Accounted
<1> QED BY <1>1, <1>5, <1>6 DEF ScanInv

LEMMA ScanInvAlways == ScanSpec => [](StoreInv /\ ThreadsInv /\ ScanInv)
<1>1. ScanInit => StoreInv /\ ThreadsInv /\ ScanInv
  BY StoreInvInit, ThreadsInvInit, ScanInvInit DEF ScanInit
<1>2. StoreInv /\ ThreadsInv /\ ScanInv /\ [ScanNext]_<<vars, scanVars>>
        => (StoreInv /\ ThreadsInv /\ ScanInv)'
  <2> SUFFICES ASSUME StoreInv, ThreadsInv, ScanInv, [ScanNext]_<<vars, scanVars>>
               PROVE  StoreInv' /\ ThreadsInv' /\ ScanInv'
    OBVIOUS
  <2>1. [Next]_vars /\ (UNCHANGED scanVars \/ Read)
    BY DEF ScanNext, Write, Read, GetPost, FirstPage, NextPage, PageFails
  <2>2. StoreInv' /\ ThreadsInv'
    BY <2>1, StoreInvNext, ThreadsInvNext
  <2>3. ScanInv'
    BY <2>1, ReadStep, WriteStep
  <2> QED BY <2>2, <2>3
<1> QED BY <1>1, <1>2, PTL DEF ScanSpec

-----------------------------------------------------------------------------
(* The theorems about scans. *)

\* Whatever is committed between two pages, in whatever order, no page repeats an
\* item of an earlier one or goes back in the listing.
THEOREM PagesGoForward == ScanSpec => []ScanInOrder
<1>1. StoreInv /\ ThreadsInv /\ ScanInv => ScanInOrder
  <2> SUFFICES ASSUME ScanInv, NEW i \in DOMAIN seen, NEW j \in DOMAIN seen, i < j
               PROVE  Beyond(target, seen[j], seen[i])
    BY DEF ScanInOrder
  <2>1. seen \in Seq(RowsOf(target)) /\ Ordered(seen, Order(target))
    BY DEF ScanInv, WalkInv
  <2>2. i \in 1..Len(seen) /\ j \in 1..Len(seen)
    BY <2>1
  <2>3. <<seen[i], seen[j]>> \in Order(target)
    BY <2>1, <2>2 DEF Ordered
  <2> QED BY <2>3 DEF Order
<1> QED BY <1>1, ScanInvAlways, PTL

\* A finished scan has had every row that was committed when its first page was read.
THEOREM PagesMissNothing == ScanSpec => []ScanComplete
<1>1. StoreInv /\ ThreadsInv /\ ScanInv => ScanComplete
  <2> SUFFICES ASSUME ScanInv, phase = "done", NEW x \in owed PROVE x \in ToSet(seen)
    BY DEF ScanComplete
  <2>1. seen \in Seq(RowsOf(target)) /\ Accounted(target, seen, phase = "open")
    BY DEF ScanInv, WalkInv
  <2>2. PICK i \in 1..Len(seen) : seen[i] = x
    BY <2>1 DEF Accounted
  <2> QED BY <2>1, <2>2 DEF ToSet
<1> QED BY <1>1, ScanInvAlways, PTL

\* Though ids become visible out of order, no reply is seen before or without the
\* comment that it answers.
THEOREM PagesKeepThreads == ScanSpec => []ScanKeepsThreads
<1>1. StoreInv /\ ThreadsInv /\ ScanInv => ScanKeepsThreads
  <2> SUFFICES ASSUME StoreInv, ThreadsInv, ScanInv, target # 0, NEW j \in DOMAIN seen,
                      commentRows[seen[j]].parent # Nil
               PROVE  \E i \in 1..(j - 1) : seen[i] = commentRows[seen[j]].parent
    BY DEF ScanKeepsThreads
  <2> DEFINE path == PathsOf(commentRows)
             c == seen[j]
             a == commentRows[c].parent
  <2>1. /\ seen \in Seq(RowsOf(target)) /\ Ordered(seen, Order(target))
        /\ Answering(commentRows) /\ Numerals(Text, IDWidth) /\ Pathed(commentRows, path, Text)
    BY CommentsAreThreads DEF ScanInv, WalkInv
  <2>2. j \in 1..Len(seen) /\ Len(seen) \in Nat /\ \A i \in 1..Len(seen) : seen[i] \in RowsOf(target)
    BY <2>1
  <2>3. PICK i \in 1..Len(seen) : seen[i] = a
    BY <2>2 DEF ScanInv, WalkInv
  <2>4. /\ c \in DOMAIN commentRows /\ a \in DOMAIN commentRows
        /\ path[c] = commentRows[c].path /\ path[a] = commentRows[a].path
    BY <2>2, <2>3 DEF RowsOf, PathsOf
  <2> HIDE DEF path
  <2>5. path[a] \in Seq(Int) /\ path[c] \in Seq(Int) /\ Extends(path[c], path[a])
    BY <2>1, <2>4, ParentIsExtended DEF Pathed
  <2>6. StringLess(path[a], path[c])
    BY <2>5, ExtensionIsGreater
  <2>7. ~(j <= i)
    <3>1. ASSUME j < i PROVE StringLess(path[c], path[a])
      <4>1. <<c, a>> \in Order(target)
        BY <2>1, <2>2, <2>3, <3>1 DEF Ordered
      <4> QED BY <2>4, <4>1 DEF Order, Beyond
    <3>2. CASE j < i
      BY <2>5, <2>6, <3>1, <3>2, StringLessIsTransitive, StringLessIsIrreflexive
    <3>3. CASE j = i
      BY <2>3, <2>5, <2>6, <3>3, StringLessIsIrreflexive
    <3> QED BY <2>2, <3>2, <3>3
  <2>8. i \in 1..(j - 1)
    BY <2>2, <2>7
  <2> QED BY <2>3, <2>8
<1> QED BY <1>1, ScanInvAlways, PTL

-----------------------------------------------------------------------------
(* A listing is the only one of its rows. *)

LEMMA ListingsAgree ==
  ASSUME NEW S, NEW R, Total(S, R), NEW L, Listed(L, S, R), NEW M, Listed(M, S, R)
  PROVE  Len(L) <= Len(M) /\ \A n \in 1..Len(L) : L[n] = M[n]
<1> DEFINE T == {n \in Nat : n \in 1..Len(L) => n \in 1..Len(M) /\ L[n] = M[n]}
<1>1. /\ L \in Seq(S) /\ \A i, j \in 1..Len(L) : i < j => <<L[i], L[j]>> \in R
      /\ M \in Seq(S) /\ \A i, j \in 1..Len(M) : i < j => <<M[i], M[j]>> \in R
      /\ \A x \in S : \E i \in 1..Len(L) : L[i] = x
      /\ \A x \in S : \E i \in 1..Len(M) : M[i] = x
  BY DEF Listed, Ordered
<1>2. /\ Len(L) \in Nat /\ \A i \in 1..Len(L) : L[i] \in S
      /\ Len(M) \in Nat /\ \A i \in 1..Len(M) : M[i] \in S
  BY ONLY <1>1
<1>3. \A a, b \in S : <<a, b>> \in R => <<b, a>> \notin R /\ a # b
  BY DEF Total
<1>4. ASSUME NEW n \in Nat, \A m \in 0..(n - 1) : m \in T PROVE n \in T
  <2> SUFFICES ASSUME n \in 1..Len(L) PROVE n \in 1..Len(M) /\ L[n] = M[n]
    OBVIOUS
  <2> DEFINE x == L[n]
  <2>1. PICK k \in 1..Len(M) : M[k] = x
    BY <1>1, <1>2
  <2>0. \A m \in 1..(n - 1) : m \in 1..Len(L) /\ m \in 1..Len(M) /\ L[m] = M[m]
    BY <1>2, <1>4
  <2>2. ~(k < n)
    <3>1. SUFFICES ASSUME k < n PROVE FALSE
      OBVIOUS
    <3>2. k \in 1..Len(L) /\ L[k] = x
      BY <2>0, <2>1, <3>1
    <3>3. <<L[k], L[n]>> \in R
      BY <1>1, <3>1, <3>2
    <3> QED BY <1>2, <1>3, <3>2, <3>3
  <2>3. ~(n < k)
    <3>1. SUFFICES ASSUME n < k PROVE FALSE
      OBVIOUS
    <3> DEFINE y == M[n]
    <3>2. n \in 1..Len(M)
      BY <1>2, <2>1, <3>1
    <3>3. y \in S /\ x \in S /\ <<y, x>> \in R
      BY <1>1, <1>2, <2>1, <3>1, <3>2
    <3>4. PICK j \in 1..Len(L) : L[j] = y
      BY <1>1, <3>3
    <3>5. CASE j < n
      <4>1. j \in 1..(n - 1)
        BY <3>4, <3>5
      <4>2. <<M[j], M[n]>> \in R /\ M[j] = y
        BY <1>1, <2>0, <3>2, <3>4, <3>5, <4>1
      <4> QED BY <1>3, <3>3, <4>2
    <3>6. CASE j = n
      BY <1>3, <3>3, <3>4, <3>6
    <3>7. CASE n < j
      <4>1. <<x, y>> \in R
        BY <1>1, <3>4, <3>7
      <4> QED BY <1>3, <3>3, <4>1
    <3> QED BY <3>4, <3>5, <3>6, <3>7
  <2> QED BY <2>1, <2>2, <2>3
<1>5. Nat \subseteq T
  <2> HIDE DEF T
  <2> QED BY <1>4, StrongInduction
<1>6. \A n \in 1..Len(L) : n \in 1..Len(M) /\ L[n] = M[n]
  BY <1>5
<1>7. Len(L) <= Len(M)
  <2>1. CASE Len(L) = 0
    BY <1>2, <2>1
  <2>2. CASE Len(L) # 0
    <3>1. Len(L) \in 1..Len(L)
      BY <1>2, <2>2
    <3> QED BY <1>2, <1>6, <3>1
  <2> QED BY <2>1, <2>2
<1> QED BY <1>6, <1>7

LEMMA SameListing ==
  ASSUME NEW S, NEW R, Total(S, R), NEW L, Listed(L, S, R), NEW M, Listed(M, S, R)
  PROVE  L = M
<1>1. /\ Len(L) <= Len(M) /\ \A n \in 1..Len(L) : L[n] = M[n]
      /\ Len(M) <= Len(L)
  BY ListingsAgree
<1>2. L \in Seq(S) /\ M \in Seq(S)
  BY DEF Listed
<1>3. L = [i \in 1..Len(L) |-> L[i]] /\ M = [i \in 1..Len(M) |-> M[i]] /\ Len(L) \in Nat /\ Len(M) \in Nat
  BY <1>2
<1>4. Len(L) = Len(M)
  <2>1. Len(L) <= Len(M) /\ Len(M) <= Len(L) /\ Len(L) \in Nat /\ Len(M) \in Nat
    BY <1>1, <1>3
  <2> QED BY ONLY <2>1
<1> QED BY <1>1, <1>3, <1>4

\* A row more is a row inserted at its place in the order.
Inserted(M, L, k, x, Q) ==
  /\ M = InsertAt(L, k, x)
  /\ \A i \in 1..Len(L) : IF i < k THEN <<L[i], x>> \in Q ELSE <<x, L[i]>> \in Q

LEMMA ListingGrows ==
  ASSUME NEW S, NEW R, Total(S, R), NEW L, Listed(L, S, R),
         NEW x, x \notin S, NEW Z, Z = S \cup {x}, NEW Q, Total(Z, Q), NEW M, Listed(M, Z, Q),
         \A a, b \in S : <<a, b>> \in Q <=> <<a, b>> \in R
  PROVE  \E k \in 1..(Len(L) + 1) : Inserted(M, L, k, x, Q)
<1>1. /\ M \in Seq(Z) /\ \A i, j \in 1..Len(M) : i < j => <<M[i], M[j]>> \in Q
      /\ \A y \in Z : \E i \in 1..Len(M) : M[i] = y
  BY DEF Listed, Ordered
<1>2. Len(M) \in Nat /\ \A i \in 1..Len(M) : M[i] \in Z
  BY ONLY <1>1
<1>3. \A a, b \in Z : <<a, b>> \in Q => a # b
  BY DEF Total
<1>4. PICK k \in 1..Len(M) : M[k] = x
  BY <1>1
<1> DEFINE N == [i \in 1..(Len(M) - 1) |-> IF i < k THEN M[i] ELSE M[i + 1]]
<1>5. \A i \in 1..Len(M) : i # k => M[i] \in S
  <2> SUFFICES ASSUME NEW i \in 1..Len(M), i # k, M[i] = x PROVE FALSE
    BY <1>2
  <2>1. <<M[i], M[k]>> \in Q \/ <<M[k], M[i]>> \in Q
    BY <1>1, <1>4
  <2> QED BY <1>2, <1>3, <1>4, <2>1
<1>6. /\ N \in Seq(S) /\ Len(N) = Len(M) - 1
      /\ \A i \in 1..Len(N) : N[i] = IF i < k THEN M[i] ELSE M[i + 1]
  <2>1. Len(M) - 1 \in Nat
    BY <1>2, <1>4
  <2>2. \A i \in 1..(Len(M) - 1) : (IF i < k THEN M[i] ELSE M[i + 1]) \in S
    BY <1>2, <1>5
  <2>3. N \in [1..(Len(M) - 1) -> S]
    BY <2>2
  <2>4. N \in Seq(S)
    BY <2>1, <2>3
  <2>5. DOMAIN N = 1..(Len(M) - 1)
    OBVIOUS
  <2>6. Len(N) = Len(M) - 1
    <3> DEFINE m == Len(M) - 1
    <3> HIDE DEF N
    <3> QED BY <2>1, <2>4, <2>5
  <2> QED BY <2>4, <2>6
<1> HIDE DEF N
<1>7. \A i, j \in 1..Len(N) : i < j => <<N[i], N[j]>> \in R
  <2> SUFFICES ASSUME NEW i \in 1..Len(N), NEW j \in 1..Len(N), i < j PROVE <<N[i], N[j]>> \in R
    OBVIOUS
  <2> DEFINE p == IF i < k THEN i ELSE i + 1
             q == IF j < k THEN j ELSE j + 1
  <2>1. p \in 1..Len(M) /\ q \in 1..Len(M) /\ p < q /\ p # k /\ q # k
    BY <1>2, <1>4, <1>6
  <2>2. N[i] = M[p] /\ N[j] = M[q]
    BY <1>6
  <2> HIDE DEF p, q
  <2>3. <<M[p], M[q]>> \in Q /\ M[p] \in S /\ M[q] \in S
    BY <1>1, <1>5, <2>1
  <2> QED BY <2>2, <2>3
<1>8. ASSUME NEW y \in S PROVE \E i \in 1..Len(N) : N[i] = y
  <2>1. PICK j \in 1..Len(M) : M[j] = y
    BY <1>1
  <2>2. j # k
    BY <1>4, <2>1
  <2>3. CASE j < k
    <3>1. j \in 1..Len(N) /\ N[j] = y
      BY <1>2, <1>4, <1>6, <2>1, <2>3
    <3> QED BY <3>1
  <2>4. CASE k < j
    <3>1. j - 1 \in 1..Len(N) /\ ~(j - 1 < k) /\ (j - 1) + 1 = j
      BY <1>2, <1>4, <1>6, <2>1, <2>4
    <3>2. N[j - 1] = M[(j - 1) + 1]
      BY <1>6, <3>1
    <3> QED BY <2>1, <3>1, <3>2
  <2> QED BY <2>1, <2>2, <2>3, <2>4
<1>9. N = L
  <2>1. Listed(N, S, R)
    BY <1>6, <1>7, <1>8 DEF Listed, Ordered
  <2> QED BY <2>1, SameListing
<1>10. /\ L \in Seq(Z) /\ Len(L) = Len(M) - 1 /\ Len(L) \in Nat /\ k \in 1..(Len(L) + 1)
       /\ \A i \in 1..Len(L) : L[i] = IF i < k THEN M[i] ELSE M[i + 1]
  <2>1. L \in Seq(Z)
    BY <1>6, <1>9
  <2> QED BY <1>2, <1>4, <1>6, <1>9, <2>1
<1> DEFINE t == InsertAt(L, k, x)
<1>11. /\ t \in Seq(Z) /\ Len(t) = Len(L) + 1
       /\ \A i \in 1..Len(t) : t[i] = IF i < k THEN L[i] ELSE IF i = k THEN x ELSE L[i - 1]
  <2>1. x \in Z
    OBVIOUS
  <2> QED BY ONLY <1>10, <2>1, InsertAtFacts
<1> HIDE DEF t
<1>12. ASSUME NEW i \in 1..Len(M) PROVE t[i] = M[i]
  <2>0. i \in 1..Len(t)
    BY <1>2, <1>10, <1>11
  <2>1. CASE i < k
    <3>1. i \in 1..Len(L)
      BY <1>10, <2>1
    <3> QED BY <1>10, <1>11, <2>0, <2>1, <3>1
  <2>2. CASE i = k
    BY <1>4, <1>11, <2>0, <2>2
  <2>3. CASE k < i
    <3>1. i - 1 \in 1..Len(L) /\ ~(i - 1 < k) /\ (i - 1) + 1 = i
      BY <1>10, <2>3
    <3>2. L[i - 1] = M[(i - 1) + 1]
      BY <1>10, <3>1
    <3>3. t[i] = L[i - 1]
      BY <1>11, <2>0, <2>3
    <3> QED BY <3>1, <3>2, <3>3
  <2> QED BY <1>4, <2>1, <2>2, <2>3
<1>13. M = t
  <2>1. M = [i \in 1..Len(M) |-> M[i]] /\ t = [i \in 1..Len(t) |-> t[i]] /\ Len(t) = Len(M)
    BY <1>1, <1>2, <1>10, <1>11
  <2> QED BY <1>12, <2>1
<1>14. ASSUME NEW i \in 1..Len(L)
       PROVE  IF i < k THEN <<L[i], x>> \in Q ELSE <<x, L[i]>> \in Q
  <2>1. CASE i < k
    <3>1. i \in 1..Len(M) /\ L[i] = M[i]
      BY <1>10, <2>1
    <3> QED BY <1>1, <1>4, <2>1, <3>1
  <2>2. CASE ~(i < k)
    <3>1. i + 1 \in 1..Len(M) /\ k < i + 1 /\ L[i] = M[i + 1]
      BY <1>10, <2>2
    <3>2. <<M[k], M[i + 1]>> \in Q
      BY <1>1, <3>1
    <3> QED BY <1>4, <2>2, <3>1, <3>2
  <2> QED BY <2>1, <2>2
<1> QED BY <1>10, <1>13, <1>14 DEF t, Inserted
-----------------------------------------------------------------------------
(* The steps of the store as steps of the abstract state. *)

\* What the rows and the calls are, as far as the abstract state sees them.
ListingsAreListed == \A t \in Nat : /\ Total(RowsOf(t), Order(t))
                                    /\ Listed(ListFirst(t), RowsOf(t), Order(t))
CommentsAreThreaded == /\ Answering(commentRows) /\ Numerals(Text, IDWidth)
                       /\ Pathed(commentRows, PathsOf(commentRows), Text)

LEMMA StoreIsListed == StoreInv /\ ThreadsInv => ListingsAreListed /\ CommentsAreThreaded
BY RowsAreOrdered, ListingIsListed, CommentsAreThreads DEF ListingsAreListed, CommentsAreThreaded

CommentsMap == [c \in DOMAIN commentRows |-> [post    |-> commentRows[c].post,
                                              parent  |-> commentRows[c].parent,
                                              deleted |-> commentRows[c].deleted]]
ThreadMap == [p \in DOMAIN postRows |-> ListCommentsByPost(p)]

\* No condition, no reason.
LEMMA NoReasons ==
  ASSUME NEW a, NEW b, NEW c, NEW d, NEW e, NEW f, NEW g
  PROVE  /\ ~a /\ ~b /\ ~c =>
              Contract!Holding([ErrInvalidID |-> a, ErrPostNotFound |-> b, ErrForbidden |-> c]) = {}
         /\ ~a /\ ~b /\ ~c /\ ~d /\ ~e /\ ~f /\ ~g =>
              Contract!Holding([ErrInvalidCommentBody |-> a, ErrInvalidID |-> b,
                         ErrPostNotFound |-> c, ErrCommentsDisabled |-> d,
                         ErrCommentNotFound |-> e, ErrParentNotInPost |-> f,
                         ErrParentDeleted |-> g]) = {}
BY DEF Contract!Holding

\* A listing of nothing is empty, and one whose rows and order stay is the same.
LEMMA EmptyListing ==
  ASSUME NEW t \in Nat, ListingsAreListed, RowsOf(t) = {} PROVE ListFirst(t) = <<>>
<1>1. ListFirst(t) \in Seq({})
  BY DEF ListingsAreListed, Listed
<1> QED BY <1>1

LEMMA ListingStays ==
  ASSUME NEW t \in Nat, ListingsAreListed, ListingsAreListed',
         RowsOf(t)' = RowsOf(t), Order(t)' = Order(t)
  PROVE  ListFirst(t)' = ListFirst(t)
<1> DEFINE L == ListFirst(t)
           M == ListFirst(t)'
           S == RowsOf(t)
           R == Order(t)
<1>1. Total(S, R) /\ Listed(L, S, R)
  BY DEF ListingsAreListed
<1>2. Listed(M, S, R)
  <2>1. Listed(ListFirst(t)', RowsOf(t)', Order(t)')
    BY DEF ListingsAreListed
  <2> QED BY <2>1
<1> HIDE DEF L, M, S, R
<1>3. L = M
  BY <1>1, <1>2, SameListing
<1> QED BY <1>3 DEF L, M

LEMMA PostIsCommitted ==
  ASSUME StoreInv, ThreadsInv, StoreInv', ThreadsInv', ListingsAreListed, ListingsAreListed',
         NEW r \in Requests, CommitPost(r)
  PROVE  /\ Contract!AddPost(req[r].id, req[r].user, req[r].createdAt)
         /\ req[r].id \in PostIDs /\ req[r].user \in Users /\ req[r].createdAt \in Times
<1> DEFINE id == req[r].id
           row == [author |-> req[r].user, createdAt |-> req[r].createdAt,
                   allowed |-> TRUE, deleted |-> FALSE]
<1>1. /\ postRows' = With(postRows, id, row) /\ UNCHANGED <<commentRows, postSeq>>
      /\ req[r].at = "commitPost"
  BY DEF CommitPost
<1>2. id \in 1..postSeq /\ id \notin DOMAIN postRows /\ postSeq \in Nat
  BY <1>1 DEF StoreInv, RowsInv, CallInv, IDInv, Posting
<1>3. req[r].createdAt \in Times /\ req[r].user \in Users /\ postSeq <= MaxPosts
  <2>1. req[r].createdAt \in Times /\ req[r].user \in Users
    <3>1. CallTypeOK(req[r]) /\ WriterInv(req[r])
      BY DEF StoreInv, CallInv, ThreadsInv
    <3> QED BY <1>1, <3>1 DEF CallTypeOK, WriterInv, Asked
  <2>2. IsFiniteSet(Pending(req, "CreatePost"))
        /\ postSeq + Cardinality(Pending(req, "CreatePost")) <= MaxPosts
    BY DEF ThreadsInv, Roomy
  <2>3. Cardinality(Pending(req, "CreatePost")) \in Nat
    BY <2>2, FS_CardinalityType
  <2>4. postSeq <= MaxPosts
    BY <1>2, <2>2, <2>3, PostgresAssumption
  <2> QED BY <2>1, <2>4
<1>4. id > 0 /\ id \in PostIDs
  BY <1>2, <1>3, PostgresAssumption DEF PostIDs
<1> HIDE DEF id, row
<1>9. DOMAIN postRows' = DOMAIN postRows \cup {id} /\ \A p \in DOMAIN postRows : postRows'[p] = postRows[p]
  BY <1>1, <1>2 DEF With, id
<1>5. \E k \in 1..(Len(ListPosts) + 1) :
        /\ ListPosts' = InsertAt(ListPosts, k, id)
        /\ \A i \in DOMAIN ListPosts : IF i < k THEN Contract!Newer(postRows', ListPosts[i], id)
                                       ELSE Contract!Newer(postRows', id, ListPosts[i])
  <2> DEFINE L == ListPosts
             M == ListPosts'
             S == DOMAIN postRows
             Z == DOMAIN postRows'
             R == Order(0)
             Q == Order(0)'
  <2>1. Total(S, R) /\ Listed(L, S, R)
    BY DEF ListingsAreListed, ListFirst, RowsOf
  <2>2. Total(Z, Q) /\ Listed(M, Z, Q)
    <3>1. Total(RowsOf(0)', Order(0)') /\ Listed(ListFirst(0)', RowsOf(0)', Order(0)')
      BY DEF ListingsAreListed
    <3>2. RowsOf(0)' = Z /\ ListFirst(0)' = M
      BY DEF RowsOf, ListFirst
    <3> QED BY <3>1, <3>2
  <2>3. \A a, b \in Z : <<a, b>> \in Q <=> Contract!Newer(postRows', a, b)
    <3>1. \A p \in Z : p \in Nat /\ postRows'[p].createdAt \in Int
      <4>1. postSeq' \in Nat /\ Z \subseteq 1..postSeq' /\ \A p \in Z : postRows'[p] \in PostRec
        BY DEF StoreInv, RowsInv
      <4>2. \A p \in Z : postRows'[p].createdAt \in Times \cup {0}
        BY <4>1 DEF PostRec
      <4>3. Times \cup {0} \subseteq Int
        BY PostgresAssumption
      <4> QED BY <4>1, <4>2, <4>3
    <3> QED BY <3>1 DEF Order, RowsOf, Beyond, Contract!Newer
  <2>4. \A a, b \in S : <<a, b>> \in Q <=> <<a, b>> \in R
    BY <1>9 DEF Order, RowsOf, Beyond
  <2>5. id \notin S /\ Z = S \cup {id}
    BY <1>2, <1>9 DEF id
  <2> HIDE DEF L, M, S, Z, R, Q
  <2>6. PICK k \in 1..(Len(L) + 1) : Inserted(M, L, k, id, Q)
    BY ONLY <2>1, <2>2, <2>4, <2>5, ListingGrows
  <2>7. DOMAIN L = 1..Len(L) /\ id \in Z /\ \A i \in 1..Len(L) : L[i] \in Z
    <3>1. L \in Seq(S)
      BY <2>1 DEF Listed
    <3> QED BY <2>5, <3>1
  <2>8. \A i \in DOMAIN L : IF i < k THEN Contract!Newer(postRows', L[i], id)
                            ELSE Contract!Newer(postRows', id, L[i])
    BY <2>3, <2>6, <2>7 DEF Inserted
  <2> QED BY <2>6, <2>8 DEF L, M, Inserted
<1>6. ThreadMap' = With(ThreadMap, id, <<>>)
  <2>1. \A p : ListCommentsByPost(p)' = ListCommentsByPost(p)
    BY <1>1 DEF ListCommentsByPost
  <2>2. ThreadMap' = [p \in DOMAIN postRows' |-> ListCommentsByPost(p)]
    BY <1>1 DEF ThreadMap, ListCommentsByPost
  <2>3. ListCommentsByPost(id) = <<>>
    <3>1. RowsOf(id) = {} /\ id \in Nat /\ ListFirst(id) = ListCommentsByPost(id)
      BY <1>2, <1>4 DEF RowsOf, ListFirst, StoreInv, RowsInv, CommentsWhole, id
    <3> QED BY <3>1, EmptyListing
  <2> QED BY <1>9, <1>2, <2>2, <2>3 DEF With, ThreadMap, id
<1>7. CommentsMap' = CommentsMap
  BY <1>1 DEF CommentsMap
<1>8. Contract!AddPost(id, req[r].user, req[r].createdAt)
  BY ONLY <1>1, <1>2, <1>4, <1>5, <1>6, <1>7, Zenon
     DEF Contract!AddPost, Contract!With, With, Contract!InsertAt, InsertAt, CommentsMap,
         ThreadMap, row
<1> QED BY <1>3, <1>4, <1>8 DEF id, row

LEMMA PostIsUpdated ==
  ASSUME StoreInv, ThreadsInv, StoreInv', ListingsAreListed, ListingsAreListed',
         NEW r \in Requests, UpdatePost(r)
  PROVE  /\ Contract!Switch(req[r].post, req[r].user, req[r].allowed)
         /\ req[r].post \in PostIDs /\ req[r].user \in Users /\ req[r].allowed \in BOOLEAN
<1> DEFINE post == req[r].post
           user == req[r].user
           allowed == req[r].allowed
<1>1. /\ req[r].at = "update" /\ post \in DOMAIN postRows
      /\ postRows[post].author = user /\ ~postRows[post].deleted
      /\ postRows' = [postRows EXCEPT ![post].allowed = allowed]
      /\ UNCHANGED commentRows
  BY DEF UpdatePost, Matches
<1>2. post > 0 /\ post \in PostIDs /\ user \in Users /\ allowed \in BOOLEAN
  <2>1. CallTypeOK(req[r]) /\ WriterInv(req[r])
    BY DEF StoreInv, CallInv, ThreadsInv
  <2> QED BY <1>1, <2>1 DEF CallTypeOK, WriterInv, Asked
<1>3. Contract!SwitchReasons(post, user) = {}
  <2> DEFINE a == post <= 0
             b == post > 0 /\ ~Contract!LivePost(post)
             c == post \in DOMAIN postRows /\ postRows[post].author # user
  <2>1. Contract!SwitchReasons(post, user)
          = Contract!Holding([ErrInvalidID |-> a, ErrPostNotFound |-> b, ErrForbidden |-> c])
    BY DEF Contract!SwitchReasons
  <2>2. ~a
    BY <1>2 DEF PostIDs
  <2>3. ~b /\ ~c
    BY <1>1 DEF Contract!LivePost
  <2> HIDE DEF a, b, c
  <2> QED BY <2>1, <2>2, <2>3, NoReasons
<1>4. ListPosts' = ListPosts
  <2>1. /\ DOMAIN postRows' = DOMAIN postRows
        /\ \A p \in DOMAIN postRows : postRows'[p].createdAt = postRows[p].createdAt
    <3>1. \A p \in DOMAIN postRows : postRows[p] \in PostRec
      BY DEF StoreInv, RowsInv
    <3> QED BY <1>1, <3>1 DEF PostRec
  <2>2. RowsOf(0)' = RowsOf(0) /\ Order(0)' = Order(0)
    BY <2>1 DEF RowsOf, Order, Beyond
  <2>3. ListFirst(0)' = ListFirst(0)
    BY <2>2, ListingStays
  <2> QED BY <2>3 DEF ListFirst
<1>5. CommentsMap' = CommentsMap /\ ThreadMap' = ThreadMap
  BY <1>1 DEF CommentsMap, ThreadMap, ListCommentsByPost
<1> HIDE DEF post, user, allowed
<1>6. Contract!Switch(post, user, allowed)
  BY ONLY <1>1, <1>3, <1>4, <1>5, Zenon DEF Contract!Switch, CommentsMap, ThreadMap
<1> QED BY <1>2, <1>6 DEF post, user, allowed

\* The two readings of the order of a thread are one.
LEMMA SameDepthFirst ==
  ASSUME NEW cs, NEW listing
  PROVE  Contract!DepthFirst(cs, listing) = DepthFirst(cs, listing)
BY DEF DepthFirst, Contract!DepthFirst, Ancestors, Contract!Ancestors, Nil, Contract!Nil

LEMMA CommentIsCommitted ==
  ASSUME StoreInv, StoreInv', ListingsAreListed, ListingsAreListed', CommentsAreThreaded',
         ThreadsInv, ThreadsInv', NEW r \in Requests, Commit(r),
         NEW id, id = req[r].id, NEW post, post = req[r].post, NEW parent, parent = req[r].parent
  PROVE  /\ Contract!AddComment(id, post, parent)
         /\ id \in CommentIDs /\ post \in PostIDs /\ parent \in CommentIDs \cup {Nil}
<1> DEFINE row == Row(r)
           cs == commentRows'
<1>1. /\ req[r].at = "commit" /\ UNCHANGED <<postRows, commentSeq>>
      /\ cs = With(commentRows, id, row)
      /\ row.post = post /\ row.parent = parent /\ row.deleted = FALSE
  BY DEF Commit, Row
<1>2. /\ CallTypeOK(req[r]) /\ LockInv(req[r], postRows) /\ ParentInv(req[r], commentRows)
      /\ IDInv(req[r], postRows, commentRows, postSeq, commentSeq) /\ WriterInv(req[r])
      /\ commentSeq \in Nat /\ Roomy(req, "CreateComment", commentSeq, MaxComments)
  BY DEF StoreInv, RowsInv, CallInv, ThreadsInv
<1>3. /\ post > 0 /\ (parent = Nil \/ parent > 0) /\ post \in PostIDs
      /\ parent \in CommentIDs \cup {Nil}
  BY <1>1, <1>2 DEF CallTypeOK, InTx, WriterInv, Asked
<1>4. post \in DOMAIN postRows /\ postRows[post].allowed /\ ~postRows[post].deleted
  BY <1>1, <1>2 DEF LockInv, Holding
<1>5. /\ parent # Nil => parent \in DOMAIN commentRows /\ commentRows[parent].post = post
      /\ \A c \in DOMAIN commentRows : commentRows[c].deleted = FALSE /\ c \in Nat \ {0}
  <2>1. \A c \in DOMAIN commentRows : commentRows[c] \in CommentRow /\ c \in Nat \ {0}
    BY DEF ThreadsInv, CommentRowsInv, StoreInv, RowsInv
  <2> QED BY <1>1, <1>2, <2>1 DEF ParentInv, CommentRow
<1>6. /\ id \in 1..commentSeq /\ id \notin DOMAIN commentRows /\ id > 0 /\ id \in CommentIDs
  <2>1. id \in 1..commentSeq /\ id \notin DOMAIN commentRows
    BY <1>1, <1>2 DEF IDInv, Writing
  <2>2. IsFiniteSet(Pending(req, "CreateComment"))
        /\ commentSeq + Cardinality(Pending(req, "CreateComment")) <= MaxComments
    BY <1>2 DEF Roomy
  <2>3. Cardinality(Pending(req, "CreateComment")) \in Nat
    BY <2>2, FS_CardinalityType
  <2>4. commentSeq <= MaxComments
    BY <1>2, <2>2, <2>3, PostgresAssumption
  <2> QED BY <1>2, <2>1, <2>4, PostgresAssumption DEF CommentIDs
<1> HIDE DEF row, cs
<1>7. DOMAIN cs = DOMAIN commentRows \cup {id} /\ cs[id] = row
      /\ \A c \in DOMAIN commentRows : cs[c] = commentRows[c]
  BY <1>1, <1>6 DEF With
<1>8. Contract!CommentReasons(TRUE, post, parent) = {}
  <2> DEFINE a == ~TRUE
             b == post <= 0 \/ (parent # Contract!Nil /\ parent <= 0)
             c == post > 0 /\ ~Contract!LivePost(post)
             d == Contract!LivePost(post) /\ ~postRows[post].allowed
             e == parent # Contract!Nil /\ parent > 0 /\ ~(parent \in DOMAIN CommentsMap)
             f == parent \in DOMAIN CommentsMap /\ CommentsMap[parent].post # post
             g == parent \in DOMAIN CommentsMap /\ CommentsMap[parent].deleted
  <2>1. Contract!CommentReasons(TRUE, post, parent)
          = Contract!Holding([ErrInvalidCommentBody |-> a, ErrInvalidID |-> b,
                         ErrPostNotFound |-> c, ErrCommentsDisabled |-> d,
                         ErrCommentNotFound |-> e, ErrParentNotInPost |-> f,
                         ErrParentDeleted |-> g])
    BY Zenon DEF Contract!CommentReasons, CommentsMap
  <2>2. ~a /\ ~c /\ ~d
    BY <1>4 DEF Contract!LivePost
  <2>3. ~b
    <3>1. Contract!Nil = Nil
      BY DEF Contract!Nil, Nil
    <3>2. post \in Nat /\ (parent # Nil => parent \in Nat)
      BY <1>3 DEF PostIDs, CommentIDs
    <3> QED BY <1>3, <3>1, <3>2
  <2>4. /\ DOMAIN CommentsMap = DOMAIN commentRows
        /\ \A x \in DOMAIN commentRows : CommentsMap[x].post = commentRows[x].post
                                         /\ CommentsMap[x].deleted = commentRows[x].deleted
    BY DEF CommentsMap
  <2>5. Contract!Nil = Nil /\ Nil \notin DOMAIN commentRows
    BY <1>5 DEF Contract!Nil, Nil
  <2>6. ~e /\ ~f /\ ~g
    BY <1>5, <2>4, <2>5
  <2> HIDE DEF a, b, c, d, e, f, g
  <2> QED BY <2>1, <2>2, <2>3, <2>6, NoReasons
<1>9. /\ id \notin DOMAIN CommentsMap
      /\ CommentsMap' = With(CommentsMap, id, [post |-> post, parent |-> parent, deleted |-> FALSE])
  <2>1. CommentsMap' = [c \in DOMAIN cs |-> [post |-> cs[c].post, parent |-> cs[c].parent,
                                              deleted |-> cs[c].deleted]]
    BY DEF CommentsMap, cs
  <2> QED BY <1>1, <1>6, <1>7, <2>1 DEF CommentsMap, With
<1>10. ASSUME NEW p \in Nat \ {0}, p # post PROVE ListCommentsByPost(p)' = ListCommentsByPost(p)
  <2>1. RowsOf(p) = {c \in DOMAIN commentRows : commentRows[c].post = p}
        /\ RowsOf(p)' = {c \in DOMAIN cs : cs[c].post = p}
    BY <1>10 DEF RowsOf, cs
  <2>2. RowsOf(p)' = RowsOf(p)
    BY <1>1, <1>7, <1>10, <2>1
  <2>3. \A a, b \in RowsOf(p) : Beyond(p, b, a)' = Beyond(p, b, a)
    BY <1>7, <1>10, <2>1 DEF Beyond, cs
  <2>4. Order(p)' = Order(p)
    BY <2>2, <2>3 DEF Order
  <2>5. ListFirst(p)' = ListFirst(p)
    BY <2>2, <2>4, ListingStays
  <2> QED BY <1>10, <2>5 DEF ListFirst
<1> DEFINE L == ListCommentsByPost(post)
           M == ListCommentsByPost(post)'
<1>11. PICK k \in 1..(Len(L) + 1) : Inserted(M, L, k, id, Order(post)')
  <2> DEFINE S == RowsOf(post)
             Z == RowsOf(post)'
             R == Order(post)
             Q == Order(post)'
  <2>0. post # 0 /\ post \in Nat
    BY <1>3 DEF PostIDs
  <2>1. Total(S, R) /\ Listed(L, S, R)
    BY <2>0 DEF ListingsAreListed, ListFirst
  <2>2. Total(Z, Q) /\ Listed(M, Z, Q)
    <3>1. Total(RowsOf(post)', Order(post)') /\ Listed(ListFirst(post)', RowsOf(post)', Order(post)')
      BY <2>0 DEF ListingsAreListed
    <3>2. ListFirst(post)' = M
      BY <2>0 DEF ListFirst
    <3> QED BY <3>1, <3>2
  <2>3. S = {c \in DOMAIN commentRows : commentRows[c].post = post}
        /\ Z = {c \in DOMAIN cs : cs[c].post = post}
    BY <2>0 DEF RowsOf, cs
  <2>4. id \notin S /\ Z = S \cup {id}
    BY <1>1, <1>6, <1>7, <2>3
  <2>5. \A a, b \in S : <<a, b>> \in Q <=> <<a, b>> \in R
    BY <1>7, <2>0, <2>3, <2>4 DEF Order, Beyond, cs
  <2> HIDE DEF L, M, S, Z, R, Q
  <2>6. \E k \in 1..(Len(L) + 1) : Inserted(M, L, k, id, Q)
    BY ONLY <2>1, <2>2, <2>4, <2>5, ListingGrows
  <2> QED BY <2>6 DEF Q
<1>12. ThreadMap' = [ThreadMap EXCEPT ![post] = M] /\ ThreadMap[post] = L
  <2>1. \A p \in DOMAIN postRows : p \in Nat \ {0}
    BY DEF StoreInv, RowsInv
  <2>2. ThreadMap' = [p \in DOMAIN postRows |-> ListCommentsByPost(p)']
    BY <1>1 DEF ThreadMap
  <2> HIDE DEF L, M
  <2>3. \A p \in DOMAIN postRows : ListCommentsByPost(p)' = IF p = post THEN M ELSE ListCommentsByPost(p)
    BY <1>10, <2>1 DEF M
  <2> QED BY <1>4, <2>2, <2>3 DEF ThreadMap, L
<1>13. DepthFirst(CommentsMap', M)
  <2> DEFINE all == CommentsMap'
             path == PathsOf(cs)
  <2>1. Answering(cs) /\ Pathed(cs, path, Text) /\ Numerals(Text, IDWidth)
    BY DEF CommentsAreThreaded, cs
  <2>2. DOMAIN all = DOMAIN cs /\ \A x \in DOMAIN cs : all[x].parent = cs[x].parent
    BY DEF CommentsMap, cs
  <2>3. Answering(all) /\ Pathed(all, path, Text)
    BY <2>1, <2>2 DEF Answering, Pathed
  <2>4. post # 0 /\ post \in Nat
    BY <1>3 DEF PostIDs
  <2>5. Listed(M, RowsOf(post)', Order(post)')
    <3>1. Listed(ListFirst(post)', RowsOf(post)', Order(post)')
      BY <2>4 DEF ListingsAreListed
    <3>2. ListFirst(post)' = M
      BY <2>4 DEF ListFirst
    <3> QED BY <3>1, <3>2
  <2>6. RowsOf(post)' \subseteq DOMAIN cs
        /\ \A a, b : <<a, b>> \in Order(post)' => StringLess(cs[a].path, cs[b].path)
                                                  /\ a \in DOMAIN cs /\ b \in DOMAIN cs
    BY <2>4 DEF RowsOf, Order, Beyond, cs
  <2> DEFINE rows == RowsOf(post)'
             after == Order(post)'
  <2>7. M \in Seq(rows) /\ \A i, j \in 1..Len(M) : i < j => <<M[i], M[j]>> \in after
    BY <2>5 DEF Listed, Ordered
  <2>8. \A a, b : <<a, b>> \in after => StringLess(path[a], path[b])
    BY <2>6 DEF PathsOf
  <2> HIDE DEF M, all, path, rows, after
  <2>9. DOMAIN M = 1..Len(M) /\ Len(M) \in Nat /\ \A i \in 1..Len(M) : M[i] \in DOMAIN all
    BY <2>2, <2>6, <2>7 DEF rows
  <2>10. DOMAIN M \subseteq Int /\ \A i, n \in DOMAIN M : i..n \subseteq DOMAIN M
    BY <2>9
  <2>11. \A i, n \in DOMAIN M : i < n => StringLess(path[M[i]], path[M[n]])
    BY <2>7, <2>8, <2>9
  <2>12. \A i \in DOMAIN M : M[i] \in DOMAIN all
    BY <2>9
  <2>13. DepthFirst(all, M)
    BY ONLY <2>1, <2>3, <2>10, <2>11, <2>12, PathOrderIsDepthFirst
  <2> QED BY <2>13 DEF all
<1>14. Contract!DepthFirst(CommentsMap', M)
  BY <1>13, SameDepthFirst
<1> HIDE DEF L, M
<1>15. \E m \in 1..(Len(ThreadMap[post]) + 1) :
         /\ Contract!DepthFirst(CommentsMap', InsertAt(ThreadMap[post], m, id))
         /\ ThreadMap' = [ThreadMap EXCEPT ![post] = InsertAt(ThreadMap[post], m, id)]
  BY <1>11, <1>12, <1>14 DEF Inserted
<1>16. UNCHANGED <<postRows, ListPosts>>
  BY <1>1 DEF ListPosts
<1>17. Contract!AddComment(id, post, parent)
  BY ONLY <1>6, <1>8, <1>9, <1>15, <1>16, Zenon
     DEF Contract!AddComment, Contract!With, With, Contract!InsertAt, InsertAt, CommentsMap, ThreadMap
<1> QED BY <1>3, <1>6, <1>17

LEMMA NothingIsCommitted ==
  ASSUME UNCHANGED <<postRows, commentRows>>
  PROVE  UNCHANGED <<postRows, ListPosts, CommentsMap, ThreadMap>>
BY DEF ListPosts, CommentsMap, ThreadMap, ListCommentsByPost

\* The statements, failures and late commits of any number of requests amount to the
\* changes that the store interfaces promise, each at one commit.
THEOREM StatementsKeepThePromise == SafetySpec => ImplementsForumState
<1>1. Init => Contract!StateInit
  <2> SUFFICES ASSUME Init PROVE Contract!StateInit
    OBVIOUS
  <2>1. postRows = <<>> /\ commentRows = <<>>
    BY DEF Init
  <2>2. ListPosts = <<>>
    <3>1. RowsOf(0) = {} /\ ListingsAreListed
      BY <2>1, StoreInvInit, ThreadsInvInit, StoreIsListed DEF RowsOf
    <3> QED BY <3>1, EmptyListing DEF ListFirst
  <2> QED BY <2>1, <2>2 DEF Contract!StateInit
<1>2. ASSUME StoreInv, ThreadsInv, StoreInv', ThreadsInv', ListingsAreListed, ListingsAreListed',
             CommentsAreThreaded', [Next]_vars
      PROVE  [Contract!StateNext]_(Contract!stateVars)
  <2>1. CASE UNCHANGED <<postRows, commentRows>>
    <3>1. UNCHANGED <<postRows, ListPosts, CommentsMap, ThreadMap>>
      BY <2>1, NothingIsCommitted
    <3> QED BY ONLY <3>1, Zenon DEF Contract!stateVars, CommentsMap, ThreadMap
  <2>2. ASSUME NEW r \in Requests, CommitPost(r) PROVE Contract!StateNext
    BY <1>2, <2>2, PostIsCommitted DEF Contract!StateNext
  <2>3. ASSUME NEW r \in Requests, UpdatePost(r) PROVE Contract!StateNext
    BY <1>2, <2>3, PostIsUpdated DEF Contract!StateNext
  <2>4. ASSUME NEW r \in Requests, Commit(r) PROVE Contract!StateNext
    <3>0. PICK id, post, parent : id = req[r].id /\ post = req[r].post /\ parent = req[r].parent
      OBVIOUS
    <3>1. /\ Contract!AddComment(id, post, parent)
          /\ id \in CommentIDs /\ post \in PostIDs /\ parent \in CommentIDs \cup {Nil}
      BY <1>2, <2>4, <3>0, CommentIsCommitted
    <3>2. Contract!Nil = Nil
      BY DEF Contract!Nil, Nil
    <3> QED BY ONLY <3>1, <3>2, Zenon DEF Contract!StateNext
  <2>5. \/ UNCHANGED <<postRows, commentRows>>
        \/ \E r \in Requests : CommitPost(r) \/ UpdatePost(r) \/ Commit(r)
    BY <1>2, WritersOfRows
  <2> QED BY <2>1, <2>2, <2>3, <2>4, <2>5
<1> QED BY <1>1, <1>2, ThreadsInvAlways, StoreIsListed, PTL
        DEF SafetySpec, ImplementsForumState, Contract!StateSpec

-----------------------------------------------------------------------------
(* What was committed stays, and stays in order. *)

\* What a step does to the rows and to the listings made of them: no row goes, of a
\* post only the switch changes, of a comment nothing, and no two rows of a listing
\* change places, though rows become visible out of the order of their ids.
HistoryKept ==
  /\ \A p \in DOMAIN postRows :
       /\ p \in DOMAIN postRows'
       /\ \E allowed \in BOOLEAN : postRows'[p] = [postRows[p] EXCEPT !.allowed = allowed]
  /\ \A c \in DOMAIN commentRows :
       c \in DOMAIN commentRows' /\ commentRows'[c] = commentRows[c]
  /\ EmbedsIn(ListPosts, ListPosts')
  /\ \A p \in DOMAIN postRows : EmbedsIn(ListCommentsByPost(p), ListCommentsByPost(p)')

\* A listing stands, in its order, in every listing of more rows.
LEMMA ListingEmbeds ==
  ASSUME NEW S, NEW R, NEW L, Listed(L, S, R),
         NEW Z, NEW Q, NEW M, Listed(M, Z, Q), Total(Z, Q), S \subseteq Z, R \subseteq Q
  PROVE  EmbedsIn(L, M)
<1>1. /\ L \in Seq(S) /\ \A i, j \in 1..Len(L) : i < j => <<L[i], L[j]>> \in R
      /\ M \in Seq(Z) /\ \A i, j \in 1..Len(M) : i < j => <<M[i], M[j]>> \in Q
      /\ \A x \in Z : \E m \in 1..Len(M) : M[m] = x
  BY DEF Listed, Ordered
<1>2. Len(L) \in Nat /\ Len(M) \in Nat /\ \A i \in 1..Len(L) : L[i] \in S
  BY <1>1
<1>3. \A i \in 1..Len(L) : \E m \in 1..Len(M) : M[m] = L[i]
  BY <1>1, <1>2
<1> DEFINE f == [i \in 1..Len(L) |-> CHOOSE m \in 1..Len(M) : M[m] = L[i]]
<1>4. \A i \in 1..Len(L) : f[i] \in 1..Len(M) /\ M[f[i]] = L[i]
  BY <1>3
<1>5. f \in [1..Len(L) -> 1..Len(M)]
  BY <1>4
<1> HIDE DEF f
<1>6. ASSUME NEW i \in 1..Len(L), NEW j \in 1..Len(L), i < j PROVE f[i] < f[j]
  <2> DEFINE m == f[i]
             n == f[j]
  <2>1. /\ m \in 1..Len(M) /\ n \in 1..Len(M) /\ M[m] = L[i] /\ M[n] = L[j]
    BY <1>4
  <2>2. <<M[m], M[n]>> \in Q /\ M[m] \in Z /\ M[n] \in Z
    BY <1>1, <1>2, <1>6, <2>1
  <2> HIDE DEF m, n
  <2>3. M[m] # M[n] /\ <<M[n], M[m]>> \notin Q
    BY <2>2 DEF Total
  <2>4. ~(n < m) /\ n # m
    BY <1>1, <2>1, <2>3
  <2>5. m < n
    BY <1>2, <2>1, <2>4
  <2> QED BY <2>5 DEF m, n
<1> QED BY <1>4, <1>5, <1>6 DEF EmbedsIn

LEMMA OrderStays ==
  ASSUME StoreInv, [Next]_vars, NEW t
  PROVE  RowsOf(t) \subseteq RowsOf(t)' /\ Order(t) \subseteq Order(t)'
<1>1. RowsOf(t) \subseteq RowsOf(t)'
  BY RowsStay DEF RowsOf
<1>2. ASSUME NEW a \in RowsOf(t), NEW b \in RowsOf(t), Beyond(t, b, a)
      PROVE  Beyond(t, b, a)'
  <2>1. CASE t = 0
    BY <1>2, <2>1, RowsStay DEF Beyond, RowsOf
  <2>2. CASE t # 0
    BY <1>2, <2>2, RowsStay DEF Beyond, RowsOf
  <2> QED BY <2>1, <2>2
<1> QED BY <1>1, <1>2 DEF Order

\* A step leaves a post as it was, or its author has turned the switch.
LEMMA PostsStand ==
  ASSUME StoreInv, [Next]_vars, NEW p \in DOMAIN postRows
  PROVE  /\ p \in DOMAIN postRows'
         /\ \E allowed \in BOOLEAN : postRows'[p] = [postRows[p] EXCEPT !.allowed = allowed]
<1>1. postRows[p] \in PostRec
  BY DEF StoreInv, RowsInv
<1>2. postRows[p].allowed \in BOOLEAN /\ postRows[p] = [postRows[p] EXCEPT !.allowed = postRows[p].allowed]
  BY <1>1 DEF PostRec
<1>3. CASE p \in DOMAIN postRows' /\ postRows'[p] = postRows[p]
  BY <1>2, <1>3
<1>4. ASSUME NEW r \in Requests, CommitPost(r)
      PROVE  p \in DOMAIN postRows' /\ postRows'[p] = postRows[p]
  <2>1. req[r].id \notin DOMAIN postRows
    BY <1>4 DEF CommitPost, StoreInv, CallInv, IDInv, Posting
  <2> QED BY <1>4, <2>1 DEF CommitPost, With
<1>5. ASSUME NEW r \in Requests, UpdatePost(r), req[r].post = p
      PROVE  /\ p \in DOMAIN postRows'
             /\ \E allowed \in BOOLEAN : postRows'[p] = [postRows[p] EXCEPT !.allowed = allowed]
  <2>1. req[r].allowed \in BOOLEAN
    <3>1. PICK q : q = req[r] /\ q \in CallRec(q.path, q.reasons)
      BY <1>5, CallHolds DEF CallInv, CallTypeOK
    <3> QED BY <3>1 DEF CallRec
  <2>2. /\ postRows' = [postRows EXCEPT ![p].allowed = req[r].allowed]
    BY <1>5 DEF UpdatePost
  <2> QED BY <2>1, <2>2
<1>6. ASSUME NEW r \in Requests, UpdatePost(r), req[r].post # p
      PROVE  p \in DOMAIN postRows' /\ postRows'[p] = postRows[p]
  BY <1>6 DEF UpdatePost
<1>7. ASSUME NEW r \in Requests, Commit(r)
      PROVE  p \in DOMAIN postRows' /\ postRows'[p] = postRows[p]
  BY <1>7 DEF Commit
<1> QED BY <1>3, <1>4, <1>5, <1>6, <1>7, WritersOfRows

\* Whatever the clock says, whatever fails and in whatever order transactions commit,
\* what a client has been shown stays where it was relative to the rest, which is
\* what cursors rest on.
THEOREM HistoryIsKept == SafetySpec => [][HistoryKept]_vars
<1>1. ASSUME StoreInv, ListingsAreListed, ListingsAreListed', [Next]_vars
      PROVE  [HistoryKept]_vars
  <2>1. ASSUME NEW t \in Nat PROVE EmbedsIn(ListFirst(t), ListFirst(t)')
    <3> DEFINE L == ListFirst(t)
               M == ListFirst(t)'
               S == RowsOf(t)
               Z == RowsOf(t)'
               R == Order(t)
               Q == Order(t)'
    <3>1. Listed(L, S, R)
      BY <1>1 DEF ListingsAreListed
    <3>2. Total(Z, Q) /\ Listed(M, Z, Q)
      <4>1. Total(RowsOf(t)', Order(t)') /\ Listed(ListFirst(t)', RowsOf(t)', Order(t)')
        BY <1>1 DEF ListingsAreListed
      <4> QED BY <4>1
    <3>3. S \subseteq Z /\ R \subseteq Q
      BY <1>1, OrderStays
    <3> HIDE DEF L, M, S, Z, R, Q
    <3>4. EmbedsIn(L, M)
      BY ONLY <3>1, <3>2, <3>3, ListingEmbeds
    <3> QED BY <3>4 DEF L, M
  <2>2. EmbedsIn(ListPosts, ListPosts')
    <3>1. EmbedsIn(ListFirst(0), ListFirst(0)')
      BY <2>1
    <3> QED BY <3>1 DEF ListFirst
  <2>3. ASSUME NEW p \in DOMAIN postRows
        PROVE  EmbedsIn(ListCommentsByPost(p), ListCommentsByPost(p)')
    <3>1. p \in Nat /\ p # 0
      BY <1>1 DEF StoreInv, RowsInv
    <3>2. EmbedsIn(ListFirst(p), ListFirst(p)')
      BY <2>1, <3>1
    <3> QED BY <3>1, <3>2 DEF ListFirst
  <2>4. \A c \in DOMAIN commentRows :
          c \in DOMAIN commentRows' /\ commentRows'[c] = commentRows[c]
    BY <1>1, RowsStay
  <2> QED BY <1>1, <2>2, <2>3, <2>4, PostsStand DEF HistoryKept
<1> QED BY <1>1, ThreadsInvAlways, StoreIsListed, PTL DEF SafetySpec

-----------------------------------------------------------------------------
(* Waiting. *)

\* The next statement of the call of r, or its turn at the pool, need not wait.
MayGoOn(r) ==
  \/ req[r].at \in {"begin", "explain"} /\ HasFreeConn
  \/ req[r].at = "update" /\ (Matches(r) => ShareHolders(req[r].post) = {})
  \/ req[r].at \in (InTx \cup {"insertPost", "commitPost"})

\* If any call is under way then some call can go on without an error or a timeout:
\* the pool and the locks never have all of them wait for each other.
NeverAllWait ==
  (\E r \in Requests : req[r].at \notin {"idle", "done"}) => \E r \in Requests : MayGoOn(r)

\* A transaction waits for nothing once it has its connection, so whoever waits waits
\* for one that moves: for pools of any size, one connection included, and any number
\* of requests.
THEOREM PoolNeverStuck == SafetySpec => []NeverAllWait
<1>1. StoreInv => NeverAllWait
  <2> SUFFICES ASSUME StoreInv, NEW r \in Requests, req[r].at \notin {"idle", "done"}
               PROVE  \E s \in Requests : MayGoOn(s)
    BY DEF NeverAllWait
  <2>1. \A s \in Requests : req[s].at \in {"idle", "done", "begin", "explain", "update"}
                                          \cup InTx \cup {"insertPost", "commitPost"}
    <3> SUFFICES ASSUME NEW s \in Requests
                 PROVE  req[s].at \in {"idle", "done", "begin", "explain", "update"}
                                       \cup InTx \cup {"insertPost", "commitPost"}
      OBVIOUS
    <3>1. PICK q : q = req[s] /\ q \in CallRec(q.path, q.reasons)
      BY CallHolds DEF CallInv, CallTypeOK
    <3> QED BY <3>1 DEF CallRec, Connected
  <2>2. CASE \E s \in Requests : req[s].at \in InTx \cup {"insertPost", "commitPost"}
    BY <2>2 DEF MayGoOn
  <2>3. CASE ~\E s \in Requests : req[s].at \in InTx \cup {"insertPost", "commitPost"}
    <3>1. \A post : ShareHolders(post) = {}
      BY <2>3 DEF ShareHolders, InTx
    <3>2. CASE \E s \in Requests : req[s].at = "update"
      BY <3>1, <3>2 DEF MayGoOn
    <3>3. CASE ~\E s \in Requests : req[s].at = "update"
      <4>1. {s \in Requests : req[s].at \in Connected} = {}
        BY <2>3, <3>3 DEF Connected
      <4>2. HasFreeConn
        BY <4>1, FS_EmptySet, PostgresAssumption DEF HasFreeConn
      <4>3. req[r].at \in {"begin", "explain"}
        BY <2>1, <2>3, <3>3
      <4> QED BY <4>2, <4>3 DEF MayGoOn
    <3> QED BY <3>2, <3>3
  <2> QED BY <2>2, <2>3
<1> QED BY <1>1, StoreInvAlways, PTL
=============================================================================
