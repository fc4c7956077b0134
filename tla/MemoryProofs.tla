---------------------------- MODULE MemoryProofs ----------------------------
(***************************************************************************)
(* Proofs about the memory store, and a client that pages through it, for  *)
(* any users and bounds, any clock, one that repeats times and steps back  *)
(* included, and ids in numerals to any base and of any width: the slices  *)
(* that the listings serve are sorted and hold what the maps hold, which   *)
(* makes the store the abstract one, and a scan miss and repeat nothing.   *)
(***************************************************************************)
EXTENDS MemoryScan, DataProofs

-----------------------------------------------------------------------------
(* The posts: the inductive invariant. *)

PostRec == [id : Nat, author : Users, createdAt : Times,
            allowed : BOOLEAN, deleted : {FALSE}]

\* Newest first, which is more than sorted: no post is there twice.
NewestFirst == {ab \in PostRec \X PostRec : Newer(ab[1], ab[2])}

\* Slice t has the elements of s but for those with the id of p, and p.
Gains(s, t, p) ==
  /\ \A i \in 1..Len(t) : t[i] = p \/ \E j \in 1..Len(s) : s[j].id # p.id /\ t[i] = s[j]
  /\ \A j \in 1..Len(s) : s[j].id = p.id \/ \E i \in 1..Len(t) : t[i] = s[j]
  /\ \E i \in 1..Len(t) : t[i] = p

\* The map by id has every post under its own id, the last id given is n, and the
\* slice s holds the posts of the map and no others, newest first.
Mirrored(s, byID, n) ==
  /\ n \in Nat /\ s \in Seq(PostRec)
  /\ DOMAIN byID \subseteq 1..n
  /\ \A id \in DOMAIN byID : byID[id] \in PostRec /\ byID[id].id = id
  /\ \A i \in 1..Len(s) : s[i].id \in DOMAIN byID /\ s[i] = byID[s[i].id]
  /\ \A id \in DOMAIN byID : \E i \in 1..Len(s) : s[i] = byID[id]
  /\ Ordered(s, NewestFirst)

PostsInv == /\ Mirrored(posts, postsByID, nextPostID)
            /\ nextPostID <= MaxPosts

-----------------------------------------------------------------------------
(* The order of posts. *)

LEMMA PostTypes ==
  ASSUME NEW a \in PostRec
  PROVE  a.id \in Nat /\ a.createdAt \in Int
<1>1. Times \subseteq Int
  BY MemoryAssumption
<1> QED BY <1>1 DEF PostRec

LEMMA NewerIsTotal ==
  ASSUME NEW a \in PostRec, NEW b \in PostRec, a.id # b.id
  PROVE  Newer(a, b) \/ Newer(b, a)
BY PostTypes DEF Newer

LEMMA NewerIsTransitive ==
  ASSUME NEW a \in PostRec, NEW b \in PostRec, NEW c \in PostRec,
         Newer(a, b), Newer(b, c)
  PROVE  Newer(a, c)
BY PostTypes DEF Newer

LEMMA NewerIsIrreflexive ==
  ASSUME NEW a \in PostRec PROVE ~Newer(a, a)
BY PostTypes DEF Newer

LEMMA NewestFirstMeans ==
  ASSUME NEW s \in Seq(PostRec)
  PROVE  Ordered(s, NewestFirst) <=> \A i, j \in 1..Len(s) : i < j => Newer(s[i], s[j])
<1>1. \A i \in 1..Len(s) : s[i] \in PostRec
  OBVIOUS
<1>2. \A a, b \in PostRec : <<a, b>> \in NewestFirst <=> Newer(a, b)
  BY DEF NewestFirst
<1> QED BY <1>1, <1>2 DEF Ordered

\* A post with an id of its own is inserted where the order wants it, wherever
\* the clock stood when it was created.
LEMMA InsertKeepsNewestFirst ==
  ASSUME NEW s \in Seq(PostRec), Ordered(s, NewestFirst), NEW p \in PostRec,
         \A i \in 1..Len(s) : s[i].id # p.id,
         NEW t, t = insertSortedPosts(s, p)
  PROVE  /\ t \in Seq(PostRec) /\ Ordered(t, NewestFirst) /\ Gains(s, t, p)
         /\ \E k \in 1..(Len(s) + 1) : t = InsertAt(s, k, p)
<1> DEFINE passing == {i \in DOMAIN s : Newer(p, s[i])}
           k == SearchFirst(s, passing)
<1>1. /\ k \in 1..(Len(s) + 1)
      /\ k <= Len(s) => k \in passing
      /\ \A i \in 1..(k - 1) : i \notin passing
  BY SearchFirstFacts
<1>2. t = InsertAt(s, k, p)
  BY DEF insertSortedPosts
<1> HIDE DEF k
<1>3. t \in Seq(PostRec)
  BY <1>1, <1>2, InsertAtFacts
<1>4. \A i \in 1..Len(s) : s[i] \in PostRec
  OBVIOUS
<1>5. ASSUME NEW i \in 1..Len(s), i < k PROVE <<s[i], p>> \in NewestFirst
  BY <1>1, <1>4, <1>5, NewerIsTotal DEF NewestFirst
<1>6. ASSUME NEW i \in 1..Len(s), k <= i PROVE <<p, s[i]>> \in NewestFirst
  <2>1. Newer(p, s[k])
    BY <1>1, <1>6
  <2>2. CASE i = k
    BY <1>4, <2>1, <2>2 DEF NewestFirst
  <2>3. CASE k < i
    <3>1. k \in 1..Len(s) /\ Newer(s[k], s[i])
      BY <1>1, <2>3, NewestFirstMeans
    <3> QED BY <1>4, <2>1, <3>1, NewerIsTransitive DEF NewestFirst
  <2> QED BY <1>1, <1>6, <2>2, <2>3
<1>7. Ordered(t, NewestFirst)
  BY <1>1, <1>2, <1>5, <1>6, InsertKeepsOrdered
<1>8. Gains(s, t, p)
  <2>1. Grows(s, t, p)
    BY <1>1, <1>2, InsertAtGrows
  <2> QED BY <2>1 DEF Gains, Grows
<1> QED BY <1>1, <1>2, <1>3, <1>7, <1>8

\* The loop of SetCommentsAllowed finds the post by its id and writes it over:
\* no other post changes and none moves.
LEMMA WithPostFacts ==
  ASSUME NEW s \in Seq(PostRec), Ordered(s, NewestFirst), NEW p \in PostRec,
         \A i \in 1..Len(s) : s[i].id = p.id => s[i].createdAt = p.createdAt,
         \E i \in 1..Len(s) : s[i].id = p.id,
         NEW t, t = WithPost(s, p)
  PROVE  /\ t \in Seq(PostRec) /\ Ordered(t, NewestFirst) /\ Gains(s, t, p)
         /\ Len(t) = Len(s) /\ \A i \in 1..Len(s) : t[i].id = s[i].id
<1>1. /\ t \in Seq(PostRec) /\ Len(t) = Len(s)
      /\ \A i \in 1..Len(s) : t[i] = IF s[i].id = p.id THEN p ELSE s[i]
  BY DEF WithPost
<1>2. \A i \in 1..Len(s) : t[i].id = s[i].id /\ t[i].createdAt = s[i].createdAt
  BY <1>1
<1>3. \A i \in 1..Len(t) : t[i] \in PostRec
  BY <1>1
<1>4. Ordered(t, NewestFirst)
  <2>1. \A i, j \in 1..Len(s) : i < j => Newer(s[i], s[j])
    BY NewestFirstMeans
  <2>2. \A i, j \in 1..Len(t) : i < j => Newer(t[i], t[j])
    BY <1>1, <1>2, <2>1 DEF Newer
  <2> QED BY <1>1, <2>2, NewestFirstMeans
<1>5. Gains(s, t, p)
  BY <1>1 DEF Gains
<1> QED BY <1>1, <1>2, <1>4, <1>5

\* Where the map gains the same post, the two copies agree as before.
LEMMA BothWritten ==
  ASSUME NEW s, NEW byID, NEW n, Mirrored(s, byID, n),
         NEW m \in Nat, n <= m, NEW p \in PostRec, p.id \in 1..m,
         NEW t \in Seq(PostRec), Ordered(t, NewestFirst), Gains(s, t, p)
  PROVE  Mirrored(t, With(byID, p.id, p), m)
<1> DEFINE new == With(byID, p.id, p)
<1>1. /\ DOMAIN new = DOMAIN byID \cup {p.id}
      /\ \A id \in DOMAIN new : new[id] = IF id = p.id THEN p ELSE byID[id]
  BY DEF With
<1> HIDE DEF new
<1>2. DOMAIN new \subseteq 1..m
  BY <1>1 DEF Mirrored
<1>3. \A id \in DOMAIN new : new[id] \in PostRec /\ new[id].id = id
  BY <1>1 DEF Mirrored
<1>4. ASSUME NEW i \in 1..Len(t) PROVE t[i].id \in DOMAIN new /\ t[i] = new[t[i].id]
  <2>1. CASE t[i] = p
    BY <1>1, <2>1
  <2>2. CASE t[i] # p
    <3>1. PICK j \in 1..Len(s) : s[j].id # p.id /\ t[i] = s[j]
      BY <2>2 DEF Gains
    <3>2. s[j].id \in DOMAIN byID /\ s[j] = byID[s[j].id]
      BY DEF Mirrored
    <3> QED BY ONLY <1>1, <3>1, <3>2
  <2> QED BY <2>1, <2>2
<1>5. ASSUME NEW id \in DOMAIN new PROVE \E i \in 1..Len(t) : t[i] = new[id]
  <2>1. CASE id = p.id
    BY <1>1, <2>1 DEF Gains
  <2>2. CASE id # p.id
    <3>1. PICK j \in 1..Len(s) : s[j] = byID[id]
      BY <1>1, <2>2 DEF Mirrored
    <3>2. s[j].id = id
      BY <1>1, <2>2, <3>1 DEF Mirrored
    <3> QED BY <1>1, <2>2, <3>1, <3>2 DEF Gains
  <2> QED BY <2>1, <2>2
<1> QED BY <1>2, <1>3, <1>4, <1>5 DEF Mirrored, new

-----------------------------------------------------------------------------
(* The posts in every state. *)

\* What a step does to the posts, for the refinement and the scans to use.
Posted(p, k) ==
  /\ p.id = nextPostID + 1 /\ nextPostID' = nextPostID + 1 /\ nextPostID < MaxPosts
  /\ p \in PostRec /\ p.id \notin DOMAIN postsByID
  /\ postsByID' = With(postsByID, p.id, p)
  /\ k \in 1..(Len(posts) + 1) /\ posts' = InsertAt(posts, k, p)

LEMMA CreatePostFacts ==
  ASSUME PostsInv, NEW author \in Users, NEW now \in Times,
         NEW p, p = [id |-> nextPostID + 1, author |-> author, createdAt |-> now,
                     allowed |-> TRUE, deleted |-> FALSE],
         nextPostID < MaxPosts, nextPostID' = nextPostID + 1,
         postsByID' = With(postsByID, nextPostID + 1, p),
         posts' = insertSortedPosts(posts, p)
  PROVE  PostsInv' /\ \E k \in 1..(Len(posts) + 1) : Posted(p, k)
<1> DEFINE id == nextPostID + 1
<1>1. /\ nextPostID \in Nat /\ posts \in Seq(PostRec) /\ Ordered(posts, NewestFirst)
      /\ DOMAIN postsByID \subseteq 1..nextPostID
  BY DEF PostsInv, Mirrored
<1>2. p \in PostRec /\ p.id = id
  BY <1>1 DEF PostRec
<1>9. posts' = insertSortedPosts(posts, p) /\ postsByID' = With(postsByID, id, p)
  OBVIOUS
<1>3. id \notin DOMAIN postsByID
  BY <1>1
<1>4. \A i \in 1..Len(posts) : posts[i].id # id
  BY <1>3 DEF PostsInv, Mirrored
<1>5. /\ posts' \in Seq(PostRec) /\ Ordered(posts', NewestFirst) /\ Gains(posts, posts', p)
      /\ \E k \in 1..(Len(posts) + 1) : posts' = InsertAt(posts, k, p)
  BY ONLY <1>1, <1>2, <1>4, <1>9, InsertKeepsNewestFirst
<1>6. Mirrored(posts', With(postsByID, p.id, p), id)
  <2>1. Mirrored(posts, postsByID, nextPostID)
    BY DEF PostsInv
  <2>2. id \in Nat /\ nextPostID <= id /\ p.id \in 1..id
    BY <1>1, <1>2
  <2> QED BY <1>2, <1>5, <2>1, <2>2, BothWritten
<1>7. id <= MaxPosts
  BY <1>1, MemoryAssumption
<1>8. PostsInv'
  BY <1>2, <1>6, <1>7 DEF PostsInv
<1> QED BY <1>2, <1>3, <1>5, <1>8 DEF Posted

LEMMA CreatePostStep ==
  ASSUME PostsInv, NEW author \in Users, NEW titleOK \in BOOLEAN,
         NEW bodyOK \in BOOLEAN, NEW now \in Times,
         CreatePost(author, titleOK, bodyOK, now)
  PROVE  PostsInv'
<1>1. CASE UNCHANGED <<posts, postsByID, nextPostID>>
  BY <1>1 DEF PostsInv
<1>2. CASE PostError(titleOK, bodyOK) = "none"
  <2> DEFINE p == [id |-> nextPostID + 1, author |-> author, createdAt |-> now,
                   allowed |-> TRUE, deleted |-> FALSE]
  <2>1. /\ nextPostID < MaxPosts /\ nextPostID' = nextPostID + 1
        /\ postsByID' = With(postsByID, nextPostID + 1, p)
        /\ posts' = insertSortedPosts(posts, p)
    BY <1>2 DEF CreatePost, NewPostID
  <2> QED BY <2>1, CreatePostFacts
<1> QED BY <1>1, <1>2 DEF CreatePost

\* The switch rewrites a post in both places and moves none.
Switched(p) ==
  /\ p.id \in DOMAIN postsByID /\ p \in PostRec
  /\ \E allowed \in BOOLEAN : p = [postsByID[p.id] EXCEPT !.allowed = allowed]
  /\ postsByID' = With(postsByID, p.id, p) /\ nextPostID' = nextPostID
  /\ posts \in Seq(PostRec) /\ posts' \in Seq(PostRec)
  /\ Len(posts') = Len(posts) /\ \A i \in 1..Len(posts) : posts'[i].id = posts[i].id

LEMMA SwitchFacts ==
  ASSUME PostsInv, NEW id \in DOMAIN postsByID, NEW allowed \in BOOLEAN,
         NEW p, p = [postsByID[id] EXCEPT !.allowed = allowed],
         postsByID' = With(postsByID, id, p), posts' = WithPost(posts, p),
         nextPostID' = nextPostID
  PROVE  PostsInv' /\ p.id = id /\ Switched(p)
<1>1. /\ nextPostID \in Nat /\ posts \in Seq(PostRec) /\ Ordered(posts, NewestFirst)
      /\ postsByID[id] \in PostRec /\ postsByID[id].id = id /\ id \in 1..nextPostID
  BY DEF PostsInv, Mirrored
<1>2. p \in PostRec /\ p.id = id /\ p.createdAt = postsByID[id].createdAt
  BY <1>1 DEF PostRec
<1>3. \A i \in 1..Len(posts) : posts[i].id = id => posts[i] = postsByID[id]
  BY DEF PostsInv, Mirrored
<1>4. \E i \in 1..Len(posts) : posts[i].id = id
  BY <1>1 DEF PostsInv, Mirrored
<1>5. /\ posts' \in Seq(PostRec) /\ Ordered(posts', NewestFirst) /\ Gains(posts, posts', p)
      /\ Len(posts') = Len(posts) /\ \A i \in 1..Len(posts) : posts'[i].id = posts[i].id
  <2>1. \A i \in 1..Len(posts) : posts[i].id = p.id => posts[i].createdAt = p.createdAt
    BY <1>2, <1>3
  <2>2. \E i \in 1..Len(posts) : posts[i].id = p.id
    BY <1>2, <1>4
  <2> QED BY ONLY posts' = WithPost(posts, p), <1>1, <1>2, <2>1, <2>2, WithPostFacts
<1>6. Mirrored(posts', With(postsByID, p.id, p), nextPostID)
  <2>1. Mirrored(posts, postsByID, nextPostID)
    BY DEF PostsInv
  <2>2. nextPostID <= nextPostID /\ p.id \in 1..nextPostID
    BY <1>1, <1>2
  <2> QED BY <1>1, <1>2, <1>5, <2>1, <2>2, BothWritten
<1> QED BY <1>1, <1>2, <1>5, <1>6 DEF PostsInv, Switched

LEMMA SwitchStep ==
  ASSUME PostsInv, NEW id \in PostIDs, NEW user \in Users, NEW allowed \in BOOLEAN,
         SetCommentsAllowed(id, user, allowed)
  PROVE  PostsInv'
<1>1. CASE UNCHANGED <<posts, postsByID, nextPostID>>
  BY <1>1 DEF PostsInv
<1>2. CASE SwitchError(id, user) = "none"
  <2>1. id \in DOMAIN postsByID
    BY <1>2 DEF SwitchError, LivePost
  <2> DEFINE p == [postsByID[id] EXCEPT !.allowed = allowed]
  <2>2. /\ postsByID' = With(postsByID, id, p) /\ posts' = WithPost(posts, p)
        /\ nextPostID' = nextPostID
    BY <1>2 DEF SetCommentsAllowed
  <2> HIDE DEF p
  <2> QED BY <2>1, <2>2, SwitchFacts DEF p
<1> QED BY <1>1, <1>2 DEF SetCommentsAllowed

-----------------------------------------------------------------------------
(* The comments: the inductive invariant. *)

CommentRec == [id : Nat, post : Nat, parent : Int, deleted : {FALSE}, path : Seq(Int)]

\* The numerals that the paths are made of.
Text == [n \in CommentIDs |-> PadID(n)]

PathsOf(byID) == [c \in DOMAIN byID |-> byID[c].path]

PathOrder == {cd \in CommentRec \X CommentRec : StringLess(cd[1].path, cd[2].path)}

\* The map by id has every comment under its own id, with the path that its parent,
\* an older comment of the same post, gives it.
ThreadsInv(byID, n) ==
  /\ n \in 0..MaxComments /\ DOMAIN byID \subseteq 1..n
  /\ \A c \in DOMAIN byID :
       /\ byID[c] \in CommentRec /\ byID[c].id = c /\ byID[c].post \in PostIDs
       /\ byID[c].parent # Nil => byID[byID[c].parent].post = byID[c].post
  /\ Answering(byID)
  /\ Pathed(byID, PathsOf(byID), Text)

\* The slice s of a post holds its comments in the map and no others, in the order
\* of their paths.
ListingInv(s, byID, post) ==
  /\ s \in Seq(CommentRec) /\ Ordered(s, PathOrder)
  /\ \A i \in 1..Len(s) : /\ s[i].id \in DOMAIN byID /\ s[i] = byID[s[i].id]
                           /\ s[i].post = post
  /\ \A c \in DOMAIN byID : byID[c].post = post => \E i \in 1..Len(s) : s[i] = byID[c]

CommentsInv ==
  /\ ThreadsInv(commentsByID, nextCommentID)
  /\ comments = [p \in PostIDs |-> comments[p]]
  /\ \A p \in PostIDs : ListingInv(comments[p], commentsByID, p)
  /\ \A c \in DOMAIN commentsByID : commentsByID[c].post \in DOMAIN postsByID

-----------------------------------------------------------------------------
(* The order of comments. *)

LEMMA CommentTypes ==
  ASSUME NEW c \in CommentRec PROVE c.path \in Seq(Int) /\ c.id \in Nat
BY DEF CommentRec

LEMMA PathOrderMeans ==
  ASSUME NEW s \in Seq(CommentRec)
  PROVE  Ordered(s, PathOrder)
           <=> \A i, j \in 1..Len(s) : i < j => StringLess(s[i].path, s[j].path)
<1>1. \A i \in 1..Len(s) : s[i] \in CommentRec
  OBVIOUS
<1>2. \A c, d \in CommentRec : <<c, d>> \in PathOrder <=> StringLess(c.path, d.path)
  BY DEF PathOrder
<1> QED BY <1>1, <1>2 DEF Ordered

\* Ids up to the bound fit in the width, where zeros in front make the order of
\* the strings that of the numbers.
LEMMA TextIsNumerals == Numerals(Text, IDWidth)
<1>1. /\ Base \in Nat /\ Base >= 2 /\ IDWidth \in Nat \ {0} /\ MaxComments \in Nat
      /\ MaxComments < Pow(Base, IDWidth)
  BY PathAssumption, MemoryAssumption
<1>2. DOMAIN Text \subseteq Nat /\ \A n \in DOMAIN Text : n <= MaxComments
  BY <1>1 DEF Text, CommentIDs
<1>3. Pow(Base, IDWidth) \in Nat
  BY <1>1, PowFacts
<1>4. ASSUME NEW n \in DOMAIN Text
      PROVE  Text[n] = Digits(Base, IDWidth, n) /\ Text[n] \in Seq(Nat) /\ Len(Text[n]) = IDWidth
  <2>1. n \in Nat
    BY <1>2
  <2>2. Text[n] = Digits(Base, IDWidth, n)
    BY DEF Text, PadID
  <2> QED BY <1>1, <2>1, <2>2, DigitsType
<1>5. ASSUME NEW m \in DOMAIN Text, NEW n \in DOMAIN Text, m < n
      PROVE  StringLess(Text[m], Text[n])
  <2>1. m \in Nat /\ n \in Nat /\ n < Pow(Base, IDWidth)
    BY <1>1, <1>2, <1>3
  <2>2. StringLess(Digits(Base, IDWidth, m), Digits(Base, IDWidth, n))
    BY <1>1, <1>5, <2>1, DigitsKeepOrder
  <2> QED BY <1>4, <2>2
<1> QED BY <1>1, <1>2, <1>4, <1>5 DEF Numerals

\* A comment with a path of its own is inserted where the order of paths wants it.
LEMMA InsertKeepsPathOrder ==
  ASSUME NEW s \in Seq(CommentRec), Ordered(s, PathOrder), NEW c \in CommentRec,
         \A i \in 1..Len(s) : s[i].path # c.path,
         NEW t, t = insertSortedComments(s, c)
  PROVE  /\ t \in Seq(CommentRec) /\ Ordered(t, PathOrder) /\ Grows(s, t, c)
         /\ \E k \in 1..(Len(s) + 1) : t = InsertAt(s, k, c)
<1> DEFINE passing == {i \in DOMAIN s : StringLess(c.path, s[i].path)}
           k == SearchFirst(s, passing)
<1>1. /\ k \in 1..(Len(s) + 1)
      /\ k <= Len(s) => k \in passing
      /\ \A i \in 1..(k - 1) : i \notin passing
  BY SearchFirstFacts
<1>2. t = InsertAt(s, k, c)
  BY DEF insertSortedComments
<1> HIDE DEF k
<1>3. t \in Seq(CommentRec)
  BY <1>1, <1>2, InsertAtFacts
<1>4. c.path \in Seq(Int) /\ \A i \in 1..Len(s) : s[i] \in CommentRec /\ s[i].path \in Seq(Int)
  <2>1. \A i \in 1..Len(s) : s[i] \in CommentRec
    OBVIOUS
  <2> QED BY <2>1, CommentTypes
<1>5. \A d, e \in CommentRec : <<d, e>> \in PathOrder <=> StringLess(d.path, e.path)
  BY DEF PathOrder
<1>6. ASSUME NEW i \in 1..Len(s), i < k PROVE <<s[i], c>> \in PathOrder
  <2>1. ~StringLess(c.path, s[i].path)
    BY <1>1, <1>6
  <2>2. StringLess(s[i].path, c.path)
    BY <1>4, <2>1, StringLessIsTotal
  <2> QED BY <1>4, <1>5, <2>2
<1>7. ASSUME NEW i \in 1..Len(s), k <= i PROVE <<c, s[i]>> \in PathOrder
  <2>1. k \in 1..Len(s) /\ StringLess(c.path, s[k].path)
    BY <1>1, <1>7
  <2>2. CASE k < i
    <3>1. StringLess(s[k].path, s[i].path)
      BY <2>1, <2>2, PathOrderMeans
    <3>2. StringLess(c.path, s[i].path)
      BY <1>4, <2>1, <3>1, StringLessIsTransitive
    <3> QED BY <1>4, <1>5, <3>2
  <2>3. CASE k = i
    BY <1>4, <1>5, <2>1, <2>3
  <2> QED BY <1>1, <1>7, <2>2, <2>3
<1>8. Ordered(t, PathOrder)
  BY <1>1, <1>2, <1>6, <1>7, InsertKeepsOrdered
<1>9. Grows(s, t, c)
  BY <1>1, <1>2, InsertAtGrows
<1> QED BY <1>1, <1>2, <1>3, <1>8, <1>9

-----------------------------------------------------------------------------
(* A comment is added. *)

\* The comment c is put in the map by id and in the listing of its post, at k.
Commented(c, k) ==
  /\ c.id = nextCommentID + 1 /\ nextCommentID' = nextCommentID + 1
  /\ nextCommentID < MaxComments
  /\ c \in CommentRec /\ c.id \notin DOMAIN commentsByID /\ c.post \in PostIDs
  /\ commentsByID' = With(commentsByID, c.id, c)
  /\ k \in 1..(Len(comments[c.post]) + 1)
  /\ comments' = [comments EXCEPT ![c.post] = InsertAt(@, k, c)]

LEMMA ThreadsGrow ==
  ASSUME NEW byID, NEW n, ThreadsInv(byID, n), n < MaxComments,
         NEW c \in CommentRec, c.id = n + 1, c.post \in PostIDs,
         c.parent # Nil => c.parent \in DOMAIN byID /\ byID[c.parent].post = c.post,
         c.path = ChildPath(IF c.parent = Nil THEN <<>> ELSE byID[c.parent].path, n + 1)
  PROVE  /\ ThreadsInv(With(byID, n + 1, c), n + 1)
         /\ \A d \in DOMAIN byID : byID[d].path # c.path
<1> DEFINE id == n + 1
           new == With(byID, id, c)
<1>1. /\ DOMAIN new = DOMAIN byID \cup {id}
      /\ \A d \in DOMAIN new : new[d] = IF d = id THEN c ELSE byID[d]
  BY DEF With
<1>2. /\ n \in Nat /\ id \in 0..MaxComments /\ DOMAIN byID \subseteq 1..n /\ id \in Nat
      /\ id \notin DOMAIN byID
  BY MemoryAssumption DEF ThreadsInv
<1> HIDE DEF new
<1>3. DOMAIN new \subseteq 1..id
  BY <1>1, <1>2
<1>4. ASSUME NEW d \in DOMAIN new
      PROVE  /\ new[d] \in CommentRec /\ new[d].id = d /\ new[d].post \in PostIDs
             /\ new[d].parent # Nil => /\ new[d].parent \in DOMAIN byID /\ new[d].parent < d
                                       /\ new[new[d].parent].post = new[d].post
  <2>1. CASE d = id
    <3>1. c.parent # Nil => c.parent \in DOMAIN byID /\ c.parent < id /\ c.parent # id
      BY <1>2
    <3> QED BY <1>1, <2>1, <3>1
  <2>2. CASE d # id
    <3>1. d \in DOMAIN byID /\ new[d] = byID[d]
      BY <1>1, <2>2
    <3>2. byID[d].parent # Nil => byID[d].parent \in DOMAIN byID /\ byID[d].parent < d
      BY <3>1 DEF ThreadsInv, Answering
    <3> QED BY <1>1, <1>2, <3>1, <3>2 DEF ThreadsInv
  <2> QED BY <2>1, <2>2
<1>5. Answering(new)
  BY <1>1, <1>2, <1>3, <1>4 DEF Answering
<1>6. Text[id] = PadID(id) /\ id \in DOMAIN Text
  BY <1>2 DEF Text, CommentIDs
<1>7. Pathed(new, PathsOf(new), Text)
  <2>1. DOMAIN new \subseteq DOMAIN Text
    BY <1>1, <1>6 DEF ThreadsInv, Pathed
  <2>2. ASSUME NEW d \in DOMAIN new
        PROVE  /\ new[d].path \in Seq(Int)
               /\ new[d].path = IF new[d].parent = Nil THEN Text[d]
                                ELSE new[new[d].parent].path \o <<Dot>> \o Text[d]
    <3>1. new[d].path \in Seq(Int)
      BY <1>4, CommentTypes
    <3>2. CASE d # id
      <4>1. d \in DOMAIN byID /\ new[d] = byID[d]
        BY <1>1, <3>2
      <4>2. /\ byID[d].parent # Nil => byID[d].parent \in DOMAIN byID
            /\ byID[d].path = IF byID[d].parent = Nil THEN Text[d]
                              ELSE byID[byID[d].parent].path \o <<Dot>> \o Text[d]
        BY <4>1 DEF ThreadsInv, Pathed, PathsOf, Answering
      <4>3. byID[d].parent # Nil => new[byID[d].parent] = byID[byID[d].parent]
        BY <1>1, <1>2, <4>2
      <4> QED BY <3>1, <4>1, <4>2, <4>3
    <3>3. CASE d = id /\ c.parent = Nil
      <4>1. c.path = PadID(id)
        BY <3>3 DEF ChildPath
      <4> QED BY <1>1, <1>6, <3>1, <3>3, <4>1
    <3>4. CASE d = id /\ c.parent # Nil
      <4> DEFINE above == byID[c.parent].path
      <4>1. c.parent \in DOMAIN byID /\ c.parent # id /\ new[c.parent] = byID[c.parent]
        BY <1>1, <1>2, <3>4
      <4>2. above # <<>>
        <5>1. Len(PathsOf(byID)[c.parent]) >= IDWidth
          BY <4>1, TextIsNumerals, PathEnd DEF ThreadsInv
        <5>2. PathsOf(byID)[c.parent] = above
          BY <4>1 DEF PathsOf
        <5>3. IDWidth >= 1 /\ IDWidth \in Nat
          BY PathAssumption
        <5> HIDE DEF above
        <5>4. above = <<>> => Len(above) = 0
          OBVIOUS
        <5> QED BY <5>1, <5>2, <5>3, <5>4
      <4>3. c.path = above \o <<Dot>> \o PadID(id)
        BY <3>4, <4>2 DEF ChildPath
      <4> QED BY <1>1, <1>6, <3>1, <3>4, <4>1, <4>3
    <3> QED BY <3>2, <3>3, <3>4
  <2>3. \A d \in DOMAIN new : new[d].parent # Nil => new[d].parent \in DOMAIN new
    BY <1>1, <1>4
  <2> QED BY <2>1, <2>2, <2>3 DEF Pathed, PathsOf
<1>8. ASSUME NEW d \in DOMAIN byID, byID[d].path = c.path PROVE FALSE
  <2>1. /\ d \in DOMAIN new /\ id \in DOMAIN new /\ d # id
        /\ new[d] = byID[d] /\ new[id] = c
    BY <1>1, <1>2
  <2>2. PathsOf(new)[d] = PathsOf(new)[id]
    BY <1>8, <2>1 DEF PathsOf
  <2>3. d = id
    BY <1>5, <1>7, <2>1, <2>2, TextIsNumerals, PathsDiffer
  <2> QED BY <2>1, <2>3
<1> QED BY <1>2, <1>3, <1>4, <1>5, <1>7, <1>8 DEF ThreadsInv, new

LEMMA ListingGrows ==
  ASSUME NEW s, NEW byID, NEW post, ListingInv(s, byID, post), NEW n, ThreadsInv(byID, n),
         NEW c \in CommentRec, c.id \notin DOMAIN byID, c.post = post,
         \A d \in DOMAIN byID : byID[d].path # c.path,
         NEW t, t = insertSortedComments(s, c)
  PROVE  /\ ListingInv(t, With(byID, c.id, c), post)
         /\ \E k \in 1..(Len(s) + 1) : t = InsertAt(s, k, c)
<1> DEFINE new == With(byID, c.id, c)
<1>1. /\ DOMAIN new = DOMAIN byID \cup {c.id}
      /\ \A d \in DOMAIN new : new[d] = IF d = c.id THEN c ELSE byID[d]
  BY DEF With
<1> HIDE DEF new
<1>2. \A i \in 1..Len(s) : /\ s[i].id \in DOMAIN byID /\ s[i] = byID[s[i].id]
                            /\ s[i].post = post
  BY DEF ListingInv
<1>3. /\ t \in Seq(CommentRec) /\ Ordered(t, PathOrder) /\ Grows(s, t, c)
      /\ \E k \in 1..(Len(s) + 1) : t = InsertAt(s, k, c)
  <2>1. s \in Seq(CommentRec) /\ Ordered(s, PathOrder)
    BY DEF ListingInv
  <2>2. \A i \in 1..Len(s) : s[i].path # c.path
    BY <1>2
  <2> QED BY <2>1, <2>2, InsertKeepsPathOrder
<1>4. ASSUME NEW i \in 1..Len(t)
      PROVE  t[i].id \in DOMAIN new /\ t[i] = new[t[i].id] /\ t[i].post = post
  <2>1. CASE t[i] = c
    BY <1>1, <2>1
  <2>2. CASE t[i] # c
    <3>1. PICK j \in 1..Len(s) : t[i] = s[j]
      BY <1>3, <2>2 DEF Grows
    <3> QED BY <1>1, <1>2, <3>1
  <2> QED BY <2>1, <2>2
<1>5. ASSUME NEW d \in DOMAIN new, new[d].post = post
      PROVE  \E i \in 1..Len(t) : t[i] = new[d]
  BY <1>1, <1>3, <1>5 DEF ListingInv, Grows
<1> QED BY <1>3, <1>4, <1>5 DEF ListingInv, new

\* A comment of another post leaves a listing what it was.
LEMMA ListingStays ==
  ASSUME NEW s, NEW byID, NEW post, ListingInv(s, byID, post),
         NEW c \in CommentRec, c.id \notin DOMAIN byID, c.post # post
  PROVE  ListingInv(s, With(byID, c.id, c), post)
<1> DEFINE new == With(byID, c.id, c)
<1>1. /\ DOMAIN new = DOMAIN byID \cup {c.id}
      /\ \A d \in DOMAIN new : new[d] = IF d = c.id THEN c ELSE byID[d]
  BY DEF With
<1> HIDE DEF new
<1> QED BY <1>1 DEF ListingInv, new

LEMMA CreateCommentFacts ==
  ASSUME CommentsInv, NEW post \in PostIDs, NEW parent \in CommentIDs \cup {Nil},
         post \in DOMAIN postsByID,
         parent # Nil => parent \in DOMAIN commentsByID /\ commentsByID[parent].post = post,
         NEW c, c = [id |-> nextCommentID + 1, post |-> post, parent |-> parent,
                     deleted |-> FALSE,
                     path |-> ChildPath(IF parent = Nil THEN <<>>
                                        ELSE commentsByID[parent].path, nextCommentID + 1)],
         nextCommentID + 1 <= MaxComments, nextCommentID' = nextCommentID + 1,
         commentsByID' = With(commentsByID, nextCommentID + 1, c),
         comments' = [comments EXCEPT ![post] = insertSortedComments(@, c)],
         postsByID' = postsByID
  PROVE  CommentsInv' /\ \E k \in 1..(Len(comments[post]) + 1) : Commented(c, k)
<1> DEFINE id == nextCommentID + 1
           above == IF parent = Nil THEN <<>> ELSE commentsByID[parent].path
<1>1. /\ ThreadsInv(commentsByID, nextCommentID) /\ nextCommentID \in Nat /\ id \in Nat
      /\ id \notin DOMAIN commentsByID /\ nextCommentID < MaxComments
  BY MemoryAssumption DEF CommentsInv, ThreadsInv
<1>2. post \in Nat /\ parent \in Int
  BY DEF PostIDs, CommentIDs, Nil
<1>3. PadID(id) \in Seq(Nat)
  BY <1>1, PathAssumption, DigitsType DEF PadID
<1>4. ChildPath(above, id) \in Seq(Int)
  <2>1. above \in Seq(Int)
    <3>1. parent # Nil => commentsByID[parent] \in CommentRec
      BY <1>1 DEF ThreadsInv
    <3>2. parent # Nil => commentsByID[parent].path \in Seq(Int)
      BY <3>1, CommentTypes
    <3>3. <<>> \in Seq(Int)
      OBVIOUS
    <3> QED BY <3>2, <3>3
  <2> HIDE DEF above
  <2>2. PadID(id) \in Seq(Int)
    BY ONLY <1>3, NatsAreInts
  <2>3. above \o <<Dot>> \o PadID(id) \in Seq(Int)
    BY ONLY <1>3, <2>1, ReplyPath
  <2> QED BY <2>2, <2>3 DEF ChildPath
<1>5. /\ c \in CommentRec /\ c.id = id /\ c.post = post /\ c.parent = parent
      /\ c.path = ChildPath(above, id)
  BY <1>1, <1>2, <1>4 DEF CommentRec
<1>6. /\ ThreadsInv(With(commentsByID, id, c), id)
      /\ \A d \in DOMAIN commentsByID : commentsByID[d].path # c.path
  BY <1>1, <1>5, ThreadsGrow
<1>7. /\ comments = [p \in PostIDs |-> comments[p]]
      /\ \A p \in PostIDs : ListingInv(comments[p], commentsByID, p)
      /\ \A d \in DOMAIN commentsByID : commentsByID[d].post \in DOMAIN postsByID
  BY DEF CommentsInv
<1>8. /\ ListingInv(insertSortedComments(comments[post], c), With(commentsByID, c.id, c), post)
      /\ \E k \in 1..(Len(comments[post]) + 1) :
           insertSortedComments(comments[post], c) = InsertAt(comments[post], k, c)
  <2>1. ListingInv(comments[post], commentsByID, post)
    BY <1>7
  <2>2. /\ ThreadsInv(commentsByID, nextCommentID)
        /\ c \in CommentRec /\ c.id \notin DOMAIN commentsByID /\ c.post = post
        /\ \A d \in DOMAIN commentsByID : commentsByID[d].path # c.path
    BY <1>1, <1>5, <1>6
  <2> DEFINE s == comments[post]
             t == insertSortedComments(s, c)
  <2>3. t = insertSortedComments(s, c)
    OBVIOUS
  <2> HIDE DEF s, t
  <2>4. /\ ListingInv(t, With(commentsByID, c.id, c), post)
        /\ \E k \in 1..(Len(s) + 1) : t = InsertAt(s, k, c)
    <3>1. ListingInv(s, commentsByID, post)
      BY <2>1 DEF s
    <3> QED BY ONLY <3>1, <2>2, <2>3, ListingGrows
  <2> QED BY <2>4 DEF s, t
<1>9. ASSUME NEW p \in PostIDs PROVE ListingInv(comments'[p], commentsByID', p)
  <2>1. CASE p = post
    <3>1. comments'[p] = insertSortedComments(comments[post], c)
      BY <1>7, <2>1
    <3> QED BY <1>5, <1>8, <2>1, <3>1
  <2>2. CASE p # post
    <3>1. comments'[p] = comments[p]
      BY <1>7, <2>2
    <3>2. ListingInv(comments[p], With(commentsByID, c.id, c), p)
      BY <1>1, <1>5, <1>7, <2>2, ListingStays
    <3> QED BY <1>5, <3>1, <3>2
  <2> QED BY <2>1, <2>2
<1>10. \A d \in DOMAIN commentsByID' : commentsByID'[d].post \in DOMAIN postsByID'
  BY <1>5, <1>7 DEF With
<1>11. comments' = [p \in PostIDs |-> comments'[p]]
  BY <1>7
<1>12. CommentsInv'
  BY <1>6, <1>9, <1>10, <1>11 DEF CommentsInv
<1>13. \E k \in 1..(Len(comments[post]) + 1) : Commented(c, k)
  <2>1. PICK k \in 1..(Len(comments[post]) + 1) :
          insertSortedComments(comments[post], c) = InsertAt(comments[post], k, c)
    BY <1>8
  <2>2. comments' = [comments EXCEPT ![post] = InsertAt(@, k, c)]
    BY <2>1
  <2> QED BY <1>1, <1>5, <2>1, <2>2 DEF Commented
<1> QED BY <1>12, <1>13

LEMMA CreateCommentStep ==
  ASSUME CommentsInv, NEW bodyOK \in BOOLEAN, NEW post \in PostIDs,
         NEW parent \in CommentIDs \cup {Nil}, CreateComment(bodyOK, post, parent)
  PROVE  CommentsInv'
<1>1. CASE UNCHANGED <<comments, commentsByID, nextCommentID, postsByID>>
  BY <1>1 DEF CommentsInv
<1>2. CASE CommentError(bodyOK, post, parent) = "none"
  <2>1. /\ post \in DOMAIN postsByID
        /\ parent # Nil => parent \in DOMAIN commentsByID /\ commentsByID[parent].post = post
    BY <1>2 DEF CommentError, LivePost
  <2> DEFINE c == [id |-> nextCommentID + 1, post |-> post, parent |-> parent,
                   deleted |-> FALSE,
                   path |-> ChildPath(IF parent = Nil THEN <<>>
                                      ELSE commentsByID[parent].path, nextCommentID + 1)]
  <2>2. /\ nextCommentID + 1 <= MaxComments /\ nextCommentID' = nextCommentID + 1
        /\ commentsByID' = With(commentsByID, nextCommentID + 1, c)
        /\ comments' = [comments EXCEPT ![post] = insertSortedComments(@, c)]
        /\ postsByID' = postsByID
    BY <1>2 DEF CreateComment
  <2> HIDE DEF c
  <2> QED BY <2>1, <2>2, CreateCommentFacts DEF c
<1> QED BY <1>1, <1>2 DEF CreateComment

-----------------------------------------------------------------------------
(* Posts and comments in every state. *)

StoreInv == PostsInv /\ CommentsInv

LEMMA StoreInvStep == ASSUME StoreInv, [Next]_vars PROVE StoreInv'
<1>1. ASSUME NEW bodyOK \in BOOLEAN, NEW post \in PostIDs,
             NEW parent \in CommentIDs \cup {Nil}, CreateComment(bodyOK, post, parent)
      PROVE  StoreInv'
  <2>1. UNCHANGED <<posts, postsByID, nextPostID>>
    BY <1>1 DEF CreateComment
  <2> QED BY <1>1, <2>1, CreateCommentStep DEF StoreInv, PostsInv
\* The other steps keep the comments, and every post.
<1>2. ASSUME UNCHANGED <<comments, commentsByID, nextCommentID>>,
             DOMAIN postsByID \subseteq DOMAIN postsByID'
      PROVE  CommentsInv'
  BY <1>2 DEF StoreInv, CommentsInv
<1>3. ASSUME NEW author \in Users, NEW titleOK \in BOOLEAN, NEW bodyOK \in BOOLEAN,
             NEW now \in Times, CreatePost(author, titleOK, bodyOK, now)
      PROVE  StoreInv'
  <2>1. /\ UNCHANGED <<comments, commentsByID, nextCommentID>>
        /\ DOMAIN postsByID \subseteq DOMAIN postsByID'
    BY <1>3 DEF CreatePost, With
  <2> QED BY <1>2, <1>3, <2>1, CreatePostStep DEF StoreInv
<1>4. ASSUME NEW id \in PostIDs, NEW user \in Users, NEW allowed \in BOOLEAN,
             SetCommentsAllowed(id, user, allowed)
      PROVE  StoreInv'
  <2>1. /\ UNCHANGED <<comments, commentsByID, nextCommentID>>
        /\ DOMAIN postsByID \subseteq DOMAIN postsByID'
    BY <1>4 DEF SetCommentsAllowed, With
  <2> QED BY <1>2, <1>4, <2>1, SwitchStep DEF StoreInv
<1>5. CASE UNCHANGED vars
  BY <1>5 DEF vars, StoreInv, PostsInv, CommentsInv
<1> QED BY <1>1, <1>3, <1>4, <1>5 DEF Next

LEMMA StoreInvAtInit == ASSUME Init PROVE StoreInv
<1>1. PostsInv
  BY MemoryAssumption DEF Init, PostsInv, Mirrored, Ordered
<1>2. ThreadsInv(commentsByID, nextCommentID)
  BY MemoryAssumption DEF Init, ThreadsInv, Answering, Pathed
<1>3. /\ comments = [p \in PostIDs |-> comments[p]]
      /\ \A p \in PostIDs : ListingInv(comments[p], commentsByID, p)
  BY DEF Init, ListingInv, Ordered
<1>4. \A c \in DOMAIN commentsByID : commentsByID[c].post \in DOMAIN postsByID
  BY DEF Init
<1> QED BY <1>1, <1>2, <1>3, <1>4 DEF StoreInv, CommentsInv

LEMMA StoreInvAlways == Spec => []StoreInv
BY StoreInvAtInit, StoreInvStep, PTL DEF Spec

\* The listing of posts is the map by id, newest first, in every state: whatever
\* the clock says, a binary search on a sorted slice leaves it sorted, and the
\* switch writes both copies of a post at the index it has by then.
THEOREM BothCopiesAgree == Spec => []PostsMirrorIndex
<1>1. StoreInv => PostsMirrorIndex
  <2> SUFFICES ASSUME PostsInv PROVE PostsMirrorIndex
    BY DEF StoreInv
  <2>1. DOMAIN posts = 1..Len(posts)
    BY DEF PostsInv, Mirrored
  <2>2. ASSUME NEW i \in DOMAIN posts PROVE posts[i] \in {postsByID[id] : id \in DOMAIN postsByID}
    BY <2>1, <2>2 DEF PostsInv, Mirrored
  <2>3. ASSUME NEW id \in DOMAIN postsByID PROVE postsByID[id] \in ToSet(posts)
    BY <2>1, <2>3 DEF PostsInv, Mirrored, ToSet
  <2>4. \A i, j \in DOMAIN posts : i < j => Newer(posts[i], posts[j])
    BY <2>1 DEF PostsInv, Mirrored, Ordered, NewestFirst
  <2> QED BY <2>2, <2>3, <2>4 DEF PostsMirrorIndex, ToSet
<1> QED BY <1>1, StoreInvAlways, PTL

\* The depth that the API counts from the dots of a path is the number of comments
\* above it, for threads of any depth.
THEOREM DepthIsTrue == Spec => []DepthCountsAncestors
<1>1. StoreInv => DepthCountsAncestors
  <2> SUFFICES ASSUME StoreInv, NEW c \in DOMAIN commentsByID
               PROVE  Depth(commentsByID[c].path) = Cardinality(Ancestors(commentsByID)[c])
    BY DEF DepthCountsAncestors
  <2>1. /\ Answering(commentsByID)
        /\ Pathed(commentsByID, PathsOf(commentsByID), Text)
    BY DEF StoreInv, CommentsInv, ThreadsInv
  <2>2. Depth(PathsOf(commentsByID)[c]) = Cardinality(Ancestors(commentsByID)[c])
    BY <2>1, TextIsNumerals, DotsCountAncestors
  <2> QED BY <2>2 DEF PathsOf
<1> QED BY <1>1, StoreInvAlways, PTL

-----------------------------------------------------------------------------
(* The listings of comments. *)

\* ids lists the comments of post p, in the order of their paths, which is depth
\* first.
ListingOf(p, ids) ==
  /\ comments[p] \in Seq(CommentRec)
  /\ ids \in Seq(Nat) /\ Len(ids) = Len(comments[p])
  /\ \A i \in 1..Len(ids) :
       /\ ids[i] \in DOMAIN commentsByID /\ commentsByID[ids[i]].post = p
       /\ comments[p][i] = commentsByID[ids[i]] /\ comments[p][i].id = ids[i]
  /\ \A c \in DOMAIN commentsByID :
       commentsByID[c].post = p => \E i \in 1..Len(ids) : ids[i] = c
  /\ \A i, k \in 1..Len(ids) :
       i < k => StringLess(commentsByID[ids[i]].path, commentsByID[ids[k]].path)
  /\ DepthFirst(commentsByID, ids)

LEMMA ListingFacts ==
  ASSUME CommentsInv, NEW p \in PostIDs PROVE ListingOf(p, IDsOf(comments[p]))
<1> DEFINE ids == IDsOf(comments[p])
<1> DEFINE s == comments[p]
<1>1. ThreadsInv(commentsByID, nextCommentID) /\ ListingInv(s, commentsByID, p)
  BY DEF CommentsInv
<1>2. s \in Seq(CommentRec) /\ \A i \in 1..Len(s) : s[i] \in CommentRec
  <2>1. s \in Seq(CommentRec)
    BY <1>1 DEF ListingInv
  <2> HIDE DEF s
  <2> QED BY <2>1
<1>3. ids \in Seq(Nat) /\ Len(ids) = Len(s) /\ \A i \in 1..Len(s) : ids[i] = s[i].id
  <2>1. \A i \in 1..Len(s) : s[i].id \in Nat
    BY <1>2, CommentTypes
  <2>2. ids = [i \in 1..Len(s) |-> s[i].id]
    BY <1>2 DEF IDsOf
  <2>3. Len(s) \in Nat
    BY <1>2
  <2> HIDE DEF s, ids
  <2> QED BY <2>1, <2>2, <2>3
<1> HIDE DEF s, ids
<1>4. ASSUME NEW i \in 1..Len(ids)
      PROVE  /\ ids[i] \in DOMAIN commentsByID /\ commentsByID[ids[i]].post = p
             /\ s[i] = commentsByID[ids[i]] /\ s[i].id = ids[i]
  BY <1>1, <1>3 DEF ListingInv
<1>5. ASSUME NEW c \in DOMAIN commentsByID, commentsByID[c].post = p
      PROVE  \E i \in 1..Len(ids) : ids[i] = c
  <2>1. PICK i \in 1..Len(s) : s[i] = commentsByID[c]
    BY <1>1, <1>5 DEF ListingInv
  <2> QED BY <1>1, <1>3, <2>1 DEF ThreadsInv
<1>6. ASSUME NEW i \in 1..Len(ids), NEW k \in 1..Len(ids), i < k
      PROVE  StringLess(commentsByID[ids[i]].path, commentsByID[ids[k]].path)
  <2>1. Ordered(s, PathOrder)
    BY <1>1 DEF ListingInv
  <2>2. StringLess(s[i].path, s[k].path)
    BY <1>2, <1>3, <1>6, <2>1, PathOrderMeans
  <2> QED BY <1>4, <2>2
<1>7. DepthFirst(commentsByID, ids)
  <2>1. Answering(commentsByID) /\ Pathed(commentsByID, PathsOf(commentsByID), Text)
    BY <1>1 DEF ThreadsInv
  <2>2. DOMAIN ids = 1..Len(ids) /\ Len(ids) \in Nat
    BY <1>3
  <2>3. \A i \in DOMAIN ids : ids[i] \in DOMAIN commentsByID
    BY <1>4, <2>2
  <2>4. DOMAIN ids \subseteq Int /\ \A i, k \in DOMAIN ids : i..k \subseteq DOMAIN ids
    BY <2>2
  <2>5. \A i, k \in DOMAIN ids :
          i < k => StringLess(PathsOf(commentsByID)[ids[i]], PathsOf(commentsByID)[ids[k]])
    BY <1>6, <2>2, <2>3 DEF PathsOf
  <2> QED BY <2>1, <2>3, <2>4, <2>5, TextIsNumerals, PathOrderIsDepthFirst
<1> QED BY <1>2, <1>3, <1>4, <1>5, <1>6, <1>7 DEF s, ids, ListingOf

\* In a listing a reply comes after the comment it answers.
LEMMA RepliesAttach ==
  ASSUME CommentsInv, NEW p \in PostIDs, NEW i \in 1..Len(comments[p])
  PROVE  Attached(comments[p], i) <=> comments[p][i].parent # Nil
<1> DEFINE s == comments[p]
           ids == IDsOf(s)
           parent == s[i].parent
<1>1. /\ s \in Seq(CommentRec)
      /\ Len(ids) = Len(s)
      /\ \A k \in 1..Len(ids) :
           /\ ids[k] \in DOMAIN commentsByID /\ commentsByID[ids[k]].post = p
           /\ s[k] = commentsByID[ids[k]] /\ s[k].id = ids[k]
      /\ \A c \in DOMAIN commentsByID :
           commentsByID[c].post = p => \E k \in 1..Len(ids) : ids[k] = c
      /\ DepthFirst(commentsByID, ids) /\ ids \in Seq(Nat)
  BY ListingFacts DEF ListingOf
<1> HIDE DEF ids
<1>2. ASSUME parent # Nil PROVE \E j \in 1..i : s[j].id = parent
  <2>1. ids[i] \in DOMAIN commentsByID /\ s[i] = commentsByID[ids[i]]
    BY <1>1
  <2>2. /\ parent \in DOMAIN commentsByID /\ commentsByID[parent].post = p
        /\ Answering(commentsByID)
    BY <1>1, <1>2, <2>1 DEF CommentsInv, ThreadsInv, Answering
  <2>9. Answering(commentsByID)
    BY <2>2
  <2>3. PICK j \in 1..Len(ids) : ids[j] = parent
    BY <1>1, <2>2
  <2>4. parent \in Ancestors(commentsByID)[ids[i]]
    <3>1. ids[i] \in DOMAIN commentsByID /\ commentsByID[ids[i]].parent = parent
      BY <2>1
    <3>2. commentsByID[ids[i]].parent # Nil
      BY <1>2, <3>1
    <3>3. commentsByID[ids[i]].parent \in Ancestors(commentsByID)[ids[i]]
      BY ONLY <2>9, <3>1, <3>2, ParentIsAncestor
    <3> QED BY ONLY <3>1, <3>3
  <2>5. DOMAIN ids = 1..Len(ids)
    BY <1>1
  <2>6. j < i
    BY <1>1, <2>3, <2>4, <2>5 DEF DepthFirst
  <2> QED BY <1>1, <2>3, <2>6
<1> QED BY <1>2 DEF Attached

\* BuildCommentTree makes a root of a reply whose parent it has not met.  In no
\* listing of the store does that happen: the parent is there, and before it.
NoReplyBecomesRoot ==
  \A p \in PostIDs : \A i \in DOMAIN comments[p] :
    comments[p][i].parent # Nil => Attached(comments[p], i)

\* The one pass of BuildCommentTree may rely on the order that the binary search
\* of the store keeps, however deep the threads are.
THEOREM RepliesFindTheirParents == Spec => []NoReplyBecomesRoot
<1>1. StoreInv => NoReplyBecomesRoot
  <2> SUFFICES ASSUME CommentsInv, NEW p \in PostIDs, NEW i \in DOMAIN comments[p],
                      comments[p][i].parent # Nil
               PROVE  Attached(comments[p], i)
    BY DEF StoreInv, NoReplyBecomesRoot
  <2>1. comments[p] \in Seq(CommentRec)
    BY DEF CommentsInv, ListingInv
  <2>2. i \in 1..Len(comments[p])
    BY <2>1
  <2> QED BY <2>2, RepliesAttach
<1> QED BY <1>1, StoreInvAlways, PTL

\* The indices of the replies to parent in the listing of post p.
RepliesAt(p, passing, parent) ==
  \A i \in 1..Len(comments[p]) : i \in passing <=> comments[p][i].parent = parent

\* The ids of the listing that have a given parent are those of its replies, in
\* their order.
LEMMA RepliesPicked ==
  ASSUME CommentsInv, NEW p \in PostIDs, NEW ids, ids = IDsOf(comments[p]),
         NEW parent, NEW passing, RepliesAt(p, passing, parent),
         NEW t, t = Filter(ids, passing)
  PROVE  /\ ToSet(t) = {c \in DOMAIN commentsByID : /\ commentsByID[c].post = p
                                                   /\ commentsByID[c].parent = parent}
         /\ \A i, j \in DOMAIN t : i < j => t[i] < t[j]
<1>1. /\ ids \in Seq(Nat) /\ Len(ids) \in Nat /\ Len(ids) = Len(comments[p])
      /\ \A i \in 1..Len(ids) :
           /\ ids[i] \in DOMAIN commentsByID /\ commentsByID[ids[i]].post = p
           /\ comments[p][i] = commentsByID[ids[i]]
      /\ \A c \in DOMAIN commentsByID :
           commentsByID[c].post = p => \E i \in 1..Len(ids) : ids[i] = c
      /\ \A i, k \in 1..Len(ids) :
           i < k => StringLess(commentsByID[ids[i]].path, commentsByID[ids[k]].path)
      /\ DepthFirst(commentsByID, ids)
  BY ListingFacts DEF ListingOf
<1>2. PICK picked : Picks(t, ids, passing, Len(ids), picked)
  BY <1>1, FilterFacts
<1>3. t \in Seq(Nat) /\ DOMAIN t = 1..Len(t) /\ DOMAIN ids = 1..Len(ids)
  <2>1. t \in Seq(Nat)
    BY <1>1, FilterFacts
  <2> QED BY <1>1, <2>1
<1>4. ASSUME NEW k \in 1..Len(t)
      PROVE  /\ picked[k] \in 1..Len(ids) /\ t[k] = ids[picked[k]]
             /\ t[k] \in DOMAIN commentsByID /\ commentsByID[t[k]].post = p
             /\ commentsByID[t[k]].parent = parent
  <2>1. picked[k] \in 1..Len(ids) /\ picked[k] \in passing /\ t[k] = ids[picked[k]]
    BY <1>2 DEF Picks
  <2>2. comments[p][picked[k]].parent = parent
    BY <1>1, <2>1 DEF RepliesAt
  <2> QED BY <1>1, <2>1, <2>2
<1>5. ASSUME NEW c \in DOMAIN commentsByID, commentsByID[c].post = p,
             commentsByID[c].parent = parent
      PROVE  \E k \in 1..Len(t) : t[k] = c
  <2>1. PICK i \in 1..Len(ids) : ids[i] = c
    BY <1>1, <1>5
  <2>2. i \in passing
    BY <1>1, <1>5, <2>1 DEF RepliesAt
  <2>3. PICK k \in 1..Len(t) : picked[k] = i
    BY <1>2, <2>2 DEF Picks
  <2> QED BY <1>4, <2>1, <2>3
<1>6. ASSUME NEW i \in 1..Len(t), NEW j \in 1..Len(t), i < j PROVE t[i] < t[j]
  <2>1. picked[i] < picked[j]
    BY <1>2, <1>6 DEF Picks
  <2>2. t[i] # t[j]
    <3>1. StringLess(commentsByID[ids[picked[i]]].path, commentsByID[ids[picked[j]]].path)
      BY <1>1, <1>4, <2>1
    <3>2. t[i] = ids[picked[i]] /\ t[j] = ids[picked[j]]
      BY <1>4
    <3>3. commentsByID[t[i]] \in CommentRec
      BY <1>4 DEF CommentsInv, ThreadsInv
    <3>4. commentsByID[t[i]].path \in Seq(Int)
      BY <3>3, CommentTypes
    <3> QED BY <3>1, <3>2, <3>4, StringLessIsIrreflexive
  <2>3. ~(t[j] < t[i])
    <3>1. SUFFICES ASSUME t[j] < t[i] PROVE FALSE
      OBVIOUS
    <3>5. /\ picked[j] \in 1..Len(ids) /\ t[j] = ids[picked[j]]
          /\ commentsByID[t[j]].parent = parent
      BY ONLY <1>4, j \in 1..Len(t)
    <3>6. /\ picked[i] \in 1..Len(ids) /\ t[i] = ids[picked[i]]
          /\ commentsByID[t[i]].parent = parent
      BY ONLY <1>4, i \in 1..Len(t)
    <3>2. /\ picked[j] \in DOMAIN ids /\ picked[i] \in DOMAIN ids
          /\ commentsByID[ids[picked[j]]].parent = commentsByID[ids[picked[i]]].parent
          /\ ids[picked[j]] < ids[picked[i]]
      BY ONLY <1>3, <3>1, <3>5, <3>6
    <3>3. picked[j] < picked[i]
      BY <1>1, <3>2 DEF DepthFirst
    <3>4. picked[i] \in Int /\ picked[j] \in Int
      BY <1>4
    <3> QED BY <2>1, <3>3, <3>4
  <2>4. t[i] \in Nat /\ t[j] \in Nat
    BY <1>3
  <2> QED BY <2>2, <2>3, <2>4
<1>7. ToSet(t) = {t[k] : k \in 1..Len(t)}
  BY <1>3 DEF ToSet
<1>8. \A k \in 1..Len(t) : t[k] \in {c \in DOMAIN commentsByID :
                                       /\ commentsByID[c].post = p
                                       /\ commentsByID[c].parent = parent}
  BY <1>4
<1>9. \A i, j \in DOMAIN t : i < j => t[i] < t[j]
  BY <1>3, <1>6
<1> QED BY <1>5, <1>7, <1>8, <1>9

LEMMA TreeParts ==
  ASSUME CommentsInv, NEW p \in PostIDs, NEW ids, ids = IDsOf(comments[p]),
         NEW tree, tree = BuildCommentTree(comments[p]), NEW parent, NEW t,
         \/ parent = Nil /\ t = tree.roots
         \/ parent \in DOMAIN tree.children /\ t = tree.children[parent]
  PROVE  /\ ToSet(t) = {c \in DOMAIN commentsByID : /\ commentsByID[c].post = p
                                                   /\ commentsByID[c].parent = parent}
         /\ \A i, j \in DOMAIN t : i < j => t[i] < t[j]
<1> DEFINE rootsAt == {i \in DOMAIN comments[p] : ~Attached(comments[p], i)}
           repliesAt == {i \in DOMAIN comments[p] : /\ Attached(comments[p], i)
                                                    /\ comments[p][i].parent = parent}
<1>1. DOMAIN comments[p] = 1..Len(ids) /\ Len(ids) = Len(comments[p]) /\ ids \in Seq(Nat)
  <2>1. comments[p] \in Seq(CommentRec) /\ Len(ids) = Len(comments[p]) /\ ids \in Seq(Nat)
    BY ListingFacts DEF ListingOf
  <2> QED BY <2>1
<1>2. \A i \in 1..Len(ids) : Attached(comments[p], i) <=> comments[p][i].parent # Nil
  BY <1>1, RepliesAttach
<1>3. CASE parent = Nil /\ t = tree.roots
  <2>1. t = Filter(ids, rootsAt)
    BY <1>3 DEF BuildCommentTree, IDsOf
  <2>2. RepliesAt(p, rootsAt, parent)
    BY <1>1, <1>2, <1>3 DEF RepliesAt
  <2> HIDE DEF rootsAt
  <2> QED BY <2>1, <2>2, RepliesPicked
<1>4. CASE parent \in DOMAIN tree.children /\ t = tree.children[parent]
  <2>1. t = Filter(ids, repliesAt)
    BY <1>4 DEF BuildCommentTree, IDsOf
  <2>2. parent # Nil
    <3>1. parent \in {ids[i] : i \in 1..Len(ids)}
      BY <1>1, <1>4 DEF BuildCommentTree, IDsOf
    <3>2. parent \in Nat
      BY <1>1, <3>1
    <3> QED BY <3>2 DEF Nil
  <2>3. RepliesAt(p, repliesAt, parent)
    BY <1>1, <1>2, <2>2 DEF RepliesAt
  <2> HIDE DEF repliesAt
  <2> QED BY <2>1, <2>3, RepliesPicked
<1> QED BY <1>3, <1>4

\* The tree of a listing has every comment of the post in its place: the roots are
\* those that answer nobody, and below each are its replies, oldest first.
THEOREM TreesKeepThreads == Spec => []TreeKeepsThreads
<1>1. CommentsInv => TreeKeepsThreads
  <2> SUFFICES ASSUME CommentsInv, NEW p \in PostIDs, NEW tree,
                      tree = BuildCommentTree(comments[p])
               PROVE  /\ ToSet(tree.roots) =
                           {c \in DOMAIN commentsByID : /\ commentsByID[c].post = p
                                                        /\ commentsByID[c].parent = Nil}
                      /\ \A i, j \in DOMAIN tree.roots : i < j => tree.roots[i] < tree.roots[j]
                      /\ \A d \in DOMAIN tree.children :
                           /\ ToSet(tree.children[d]) =
                                {c \in DOMAIN commentsByID : /\ commentsByID[c].post = p
                                                             /\ commentsByID[c].parent = d}
                           /\ \A i, j \in DOMAIN tree.children[d] :
                                i < j => tree.children[d][i] < tree.children[d][j]
    BY Zenon DEF TreeKeepsThreads
  <2> DEFINE ids == IDsOf(comments[p])
  <2>1. ids = IDsOf(comments[p])
    OBVIOUS
  <2> HIDE DEF ids
  <2> QED BY <2>1, TreeParts
<1>2. StoreInv => TreeKeepsThreads
  BY <1>1 DEF StoreInv
<1> QED BY <1>2, StoreInvAlways, PTL

-----------------------------------------------------------------------------
(* The memory store implements the abstract one.  The abstract state: *)

PostsMap == [p \in DOMAIN postsByID |->
               [author    |-> postsByID[p].author,
                createdAt |-> postsByID[p].createdAt,
                allowed   |-> postsByID[p].allowed,
                deleted   |-> postsByID[p].deleted]]

CommentsMap == [c \in DOMAIN commentsByID |->
                  [post    |-> commentsByID[c].post,
                   parent  |-> commentsByID[c].parent,
                   deleted |-> commentsByID[c].deleted]]

ThreadMap == [p \in DOMAIN postsByID |-> IDsOf(comments[p])]

\* A condition that holds is a reason, and there is no other reason.
LEMMA HoldingMeans ==
  ASSUME NEW conditions, NEW e
  PROVE  e \in Contract!Holding(conditions)
           <=> e \in DOMAIN conditions /\ conditions[e]
BY DEF Contract!Holding

LEMMA PostRefused ==
  ASSUME NEW titleOK \in BOOLEAN, NEW bodyOK \in BOOLEAN,
         NEW reasons, reasons = Contract!PostReasons(titleOK, bodyOK),
         NEW err, err = PostError(titleOK, bodyOK)
  PROVE  IF err = "none" THEN reasons = {} ELSE err \in reasons
<1> DEFINE all == [ErrInvalidPostTitle |-> ~titleOK, ErrInvalidPostBody |-> ~bodyOK]
<1>1. reasons = Contract!Holding(all)
  BY DEF Contract!PostReasons
<1>2. /\ DOMAIN all = {"ErrInvalidPostTitle", "ErrInvalidPostBody"}
      /\ all["ErrInvalidPostTitle"] = ~titleOK /\ all["ErrInvalidPostBody"] = ~bodyOK
  OBVIOUS
<1> HIDE DEF all
<1>3. \A e : e \in reasons <=> e \in DOMAIN all /\ all[e]
  BY <1>1, HoldingMeans
<1> QED BY <1>2, <1>3 DEF PostError

LEMMA SwitchRefused ==
  ASSUME StoreInv, NEW id \in PostIDs, NEW user,
         NEW reasons, reasons = Contract!SwitchReasons(id, user),
         NEW err, err = SwitchError(id, user)
  PROVE  IF err = "none" THEN reasons = {} ELSE err \in reasons
<1> DEFINE a == id <= 0
           b == id > 0 /\ ~LivePost(id)
           c == id \in DOMAIN postsByID /\ postsByID[id].author # user
           all == [ErrInvalidID |-> a, ErrPostNotFound |-> b, ErrForbidden |-> c]
<1>1. reasons = Contract!Holding(all)
  <2>1. Contract!LivePost(id) <=> LivePost(id)
    BY DEF Contract!LivePost, LivePost
  <2> QED BY <2>1 DEF Contract!SwitchReasons
<1>2. /\ DOMAIN all = {"ErrInvalidID", "ErrPostNotFound", "ErrForbidden"}
      /\ all["ErrInvalidID"] = a /\ all["ErrPostNotFound"] = b /\ all["ErrForbidden"] = c
  OBVIOUS
<1> HIDE DEF all
<1>3. \A e : e \in reasons <=> e \in DOMAIN all /\ all[e]
  BY <1>1, HoldingMeans
<1>4. /\ err = "ErrInvalidID" <=> a
      /\ err = "ErrPostNotFound" <=> ~a /\ ~LivePost(id)
      /\ err = "ErrForbidden" <=> ~a /\ LivePost(id) /\ postsByID[id].author # user
      /\ err \in {"none", "ErrInvalidID", "ErrPostNotFound", "ErrForbidden"}
  BY DEF SwitchError
<1>5. /\ DOMAIN postsByID \subseteq Nat \ {0} /\ id \in Nat
      /\ LivePost(id) <=> id \in DOMAIN postsByID
  <2>1. \A x \in DOMAIN postsByID : postsByID[x].deleted = FALSE
    BY DEF StoreInv, PostsInv, Mirrored, PostRec
  <2> QED BY <2>1 DEF StoreInv, PostsInv, Mirrored, LivePost, PostIDs
<1>6. CASE err = "none"
  <2>1. ~a /\ ~b /\ ~c
    BY <1>4, <1>5, <1>6 DEF SwitchError
  <2> HIDE DEF a, b, c
  <2>2. reasons = {}
    BY <1>2, <1>3, <2>1
  <2> QED BY <1>6, <2>2
<1>7. CASE err # "none"
  <2>1. \/ a /\ err = "ErrInvalidID"
        \/ b /\ err = "ErrPostNotFound"
        \/ c /\ err = "ErrForbidden"
    BY <1>4, <1>5, <1>7
  <2> HIDE DEF a, b, c
  <2> QED BY <1>2, <1>3, <1>7, <2>1
<1> QED BY <1>6, <1>7

LEMMA CommentRefused ==
  ASSUME StoreInv, NEW bodyOK \in BOOLEAN, NEW post \in PostIDs,
         NEW parent \in CommentIDs \cup {Nil},
         NEW reasons, reasons = Contract!CommentReasons(bodyOK, post, parent),
         NEW err, err = CommentError(bodyOK, post, parent)
  PROVE  IF err = "none" THEN reasons = {} /\ bodyOK ELSE err \in reasons
<1> DEFINE known == parent \in DOMAIN commentsByID
           a == ~bodyOK
           b == post <= 0 \/ (parent # Nil /\ parent <= 0)
           c == post > 0 /\ ~LivePost(post)
           d == LivePost(post) /\ ~postsByID[post].allowed
           e == parent # Nil /\ parent > 0 /\ ~known
           f == known /\ commentsByID[parent].post # post
           g == known /\ commentsByID[parent].deleted
           all == [ErrInvalidCommentBody |-> a, ErrInvalidID |-> b, ErrPostNotFound |-> c,
                   ErrCommentsDisabled |-> d, ErrCommentNotFound |-> e,
                   ErrParentNotInPost |-> f, ErrParentDeleted |-> g]
<1>1. reasons = Contract!Holding(all)
  <2>1. Contract!LivePost(post) <=> LivePost(post)
    BY DEF Contract!LivePost, LivePost
  <2>2. known => /\ CommentsMap[parent].post = commentsByID[parent].post
                 /\ CommentsMap[parent].deleted = commentsByID[parent].deleted
    BY DEF CommentsMap
  <2>3. LivePost(post) => PostsMap[post].allowed = postsByID[post].allowed
    BY DEF PostsMap, LivePost
  <2>4. reasons = Contract!Holding(
          [ErrInvalidCommentBody |-> ~bodyOK,
           ErrInvalidID          |-> post <= 0 \/ (parent # Nil /\ parent <= 0),
           ErrPostNotFound       |-> post > 0 /\ ~Contract!LivePost(post),
           ErrCommentsDisabled   |-> Contract!LivePost(post) /\ ~PostsMap[post].allowed,
           ErrCommentNotFound    |-> parent # Nil /\ parent > 0 /\ ~(parent \in DOMAIN CommentsMap),
           ErrParentNotInPost    |-> /\ parent \in DOMAIN CommentsMap
                                     /\ CommentsMap[parent].post # post,
           ErrParentDeleted      |-> /\ parent \in DOMAIN CommentsMap
                                     /\ CommentsMap[parent].deleted])
    BY Zenon DEF Contract!CommentReasons, CommentsMap, PostsMap, Nil, Contract!Nil
  <2>5. DOMAIN CommentsMap = DOMAIN commentsByID
    BY DEF CommentsMap
  <2>6. /\ (Contract!LivePost(post) /\ ~PostsMap[post].allowed) = d
        /\ (parent \in DOMAIN CommentsMap /\ CommentsMap[parent].post # post) = f
        /\ (parent \in DOMAIN CommentsMap /\ CommentsMap[parent].deleted) = g
        /\ (parent # Nil /\ parent > 0 /\ ~(parent \in DOMAIN CommentsMap)) = e
        /\ (post > 0 /\ ~Contract!LivePost(post)) = c
    BY <2>1, <2>2, <2>3, <2>5
  <2> QED BY <2>4, <2>6
<1>2. /\ DOMAIN all = {"ErrInvalidCommentBody", "ErrInvalidID", "ErrPostNotFound",
                       "ErrCommentsDisabled", "ErrCommentNotFound", "ErrParentNotInPost",
                       "ErrParentDeleted"}
      /\ all["ErrInvalidCommentBody"] = a /\ all["ErrInvalidID"] = b
      /\ all["ErrPostNotFound"] = c /\ all["ErrCommentsDisabled"] = d
      /\ all["ErrCommentNotFound"] = e /\ all["ErrParentNotInPost"] = f
      /\ all["ErrParentDeleted"] = g
  OBVIOUS
<1> HIDE DEF all
<1>3. \A x : x \in reasons <=> x \in DOMAIN all /\ all[x]
  BY <1>1, HoldingMeans
<1>4. /\ DOMAIN postsByID \subseteq Nat \ {0} /\ DOMAIN commentsByID \subseteq Nat \ {0}
      /\ \A x \in DOMAIN commentsByID : commentsByID[x].deleted = FALSE
      /\ post \in Nat /\ parent \in Int /\ Nil = -1
  <2>1. DOMAIN postsByID \subseteq Nat \ {0}
    BY DEF StoreInv, PostsInv, Mirrored
  <2>2. DOMAIN commentsByID \subseteq Nat \ {0}
    BY MemoryAssumption DEF StoreInv, CommentsInv, ThreadsInv
  <2>3. \A x \in DOMAIN commentsByID : commentsByID[x].deleted = FALSE
    BY DEF StoreInv, CommentsInv, ThreadsInv, CommentRec
  <2>4. post \in Nat /\ parent \in Int /\ Nil = -1
    BY DEF PostIDs, CommentIDs, Nil
  <2> QED BY <2>1, <2>2, <2>3, <2>4
<1>5. /\ LivePost(post) => post > 0
      /\ known => parent # Nil /\ parent > 0
  BY <1>4 DEF LivePost
<1>6. CASE err = "none"
  <2>1. ~a /\ ~b /\ ~c /\ ~d /\ ~e /\ ~f /\ ~g
    BY <1>4, <1>5, <1>6 DEF CommentError
  <2> HIDE DEF b, c, d, e, f, g
  <2>2. reasons = {} /\ bodyOK
    BY <1>2, <1>3, <2>1
  <2> QED BY <1>6, <2>2
<1>7. CASE err # "none"
  <2>1. \/ a /\ err = "ErrInvalidCommentBody"
        \/ b /\ err = "ErrInvalidID"
        \/ c /\ err = "ErrPostNotFound"
        \/ d /\ err = "ErrCommentsDisabled"
        \/ e /\ err = "ErrCommentNotFound"
        \/ f /\ err = "ErrParentNotInPost"
        \/ g /\ err = "ErrParentDeleted"
    BY <1>4, <1>5, <1>7 DEF CommentError
  <2> HIDE DEF a, b, c, d, e, f, g
  <2> QED BY <1>2, <1>3, <1>7, <2>1
<1> QED BY <1>6, <1>7

\* The ids of a slice of records, one of them inserted.
LEMMA IDsInserted ==
  ASSUME NEW S, \A x \in S : x.id \in Nat, NEW s \in Seq(S), NEW e \in S,
         NEW k \in 1..(Len(s) + 1)
  PROVE  /\ IDsOf(InsertAt(s, k, e)) = InsertAt(IDsOf(s), k, e.id)
         /\ Len(IDsOf(s)) = Len(s) /\ Len(s) \in Nat /\ DOMAIN IDsOf(s) = 1..Len(s)
         /\ \A i \in 1..Len(s) : IDsOf(s)[i] = s[i].id
<1> DEFINE field == [x \in S |-> x.id]
           t == InsertAt(s, k, e)
<1>1. field \in [S -> Nat] /\ field[e] = e.id /\ \A x \in S : field[x] = x.id
  OBVIOUS
<1> HIDE DEF field
<1>2. FieldOf(field, t) = InsertAt(FieldOf(field, s), k, field[e])
  <2>1. field \in [S -> Nat]
    BY <1>1
  <2>2. FieldOf(field, InsertAt(s, k, e)) = InsertAt(FieldOf(field, s), k, field[e])
    BY ONLY <2>1, s \in Seq(S), e \in S, k \in 1..(Len(s) + 1), FieldInserted
  <2> QED BY ONLY <2>2
<1>3. t \in Seq(S)
  BY InsertAtFacts
<1> HIDE DEF t
<1>4. FieldOf(field, t) = IDsOf(t)
  BY <1>1, <1>3 DEF IDsOf, FieldOf
<1>5. FieldOf(field, s) = IDsOf(s)
  BY <1>1 DEF IDsOf, FieldOf
<1>6. /\ Len(IDsOf(s)) = Len(s) /\ Len(s) \in Nat /\ DOMAIN IDsOf(s) = 1..Len(s)
      /\ \A i \in 1..Len(s) : IDsOf(s)[i] = s[i].id
  BY DEF IDsOf
<1> QED BY <1>1, <1>2, <1>4, <1>5, <1>6 DEF t

LEMMA PostIsAdded ==
  ASSUME StoreInv, PostsInv', NEW author \in Users, NEW now \in Times,
         NEW p, p = [id |-> nextPostID + 1, author |-> author, createdAt |-> now,
                     allowed |-> TRUE, deleted |-> FALSE],
         NEW k \in 1..(Len(posts) + 1), Posted(p, k), UNCHANGED <<comments, commentsByID>>
  PROVE  Contract!AddPost(p.id, author, now)
<1> DEFINE id == p.id
           old == IDsOf(posts)
<1>1. /\ p \in PostRec /\ id \notin DOMAIN postsByID /\ id > 0 /\ id \in PostIDs
      /\ postsByID' = With(postsByID, id, p) /\ posts' = InsertAt(posts, k, p)
      /\ p.author = author /\ p.createdAt = now /\ p.allowed = TRUE /\ p.deleted = FALSE
      /\ posts \in Seq(PostRec)
      /\ \A i \in 1..Len(posts) : /\ posts[i].id \in DOMAIN postsByID
                                  /\ posts[i] = postsByID[posts[i].id]
  <2>1. nextPostID \in Nat /\ nextPostID < MaxPosts
    BY DEF StoreInv, PostsInv, Mirrored, Posted
  <2> QED BY <2>1, MemoryAssumption DEF Posted, PostIDs, StoreInv, PostsInv, Mirrored
<1> HIDE DEF id
<1>2. id \notin DOMAIN PostsMap
  BY <1>1 DEF PostsMap
<1>3. PostsMap' = With(PostsMap, id, [author |-> author, createdAt |-> now,
                                      allowed |-> TRUE, deleted |-> FALSE])
  <2>1. DOMAIN postsByID' = DOMAIN postsByID \cup {id}
    BY <1>1 DEF With
  <2>2. \A x \in DOMAIN postsByID' : postsByID'[x] = IF x = id THEN p ELSE postsByID[x]
    BY <1>1 DEF With
  <2> QED BY <1>1, <2>1, <2>2 DEF PostsMap, With
<1>4. /\ IDsOf(posts)' = InsertAt(old, k, id) /\ DOMAIN old = 1..Len(posts)
      /\ Len(old) = Len(posts)
      /\ \A i \in 1..Len(posts) : old[i] = posts[i].id
  <2>1. \A x \in PostRec : x.id \in Nat
    BY PostTypes
  <2>2. /\ IDsOf(InsertAt(posts, k, p)) = InsertAt(old, k, p.id) /\ DOMAIN old = 1..Len(posts)
        /\ Len(old) = Len(posts)
        /\ \A i \in 1..Len(posts) : old[i] = posts[i].id
    BY <1>1, <2>1, IDsInserted
  <2> QED BY <1>1, <2>2 DEF id, IDsOf
<1>5. ASSUME NEW i \in 1..Len(posts)
      PROVE  IF i < k THEN Newer(posts[i], p) ELSE Newer(p, posts[i])
  <2>1. /\ posts' \in Seq(PostRec) /\ Len(posts') = Len(posts) + 1
        /\ \A j \in 1..Len(posts') : posts'[j] = IF j < k THEN posts[j]
                                                 ELSE IF j = k THEN p ELSE posts[j - 1]
    <3>1. k \in 1..(Len(posts) + 1)
      OBVIOUS
    <3> QED BY ONLY <1>1, <3>1, InsertAtFacts
  <2>2. \A m, n \in 1..Len(posts') : m < n => Newer(posts'[m], posts'[n])
    <3>1. Ordered(posts', NewestFirst)
      BY DEF PostsInv, Mirrored
    <3> QED BY <2>1, <3>1, NewestFirstMeans
  <2>3. Len(posts) \in Nat
    BY <1>1
  <2>4. CASE i < k
    <3>1. i \in 1..Len(posts') /\ k \in 1..Len(posts')
      BY <2>1, <2>3
    <3>2. posts'[i] = posts[i] /\ posts'[k] = p
      BY <2>1, <2>4, <3>1
    <3>3. Newer(posts[i], p)
      BY <2>2, <2>4, <3>1, <3>2
    <3> QED BY <2>4, <3>3
  <2>5. CASE ~(i < k)
    <3>1. i + 1 \in 1..Len(posts') /\ k \in 1..Len(posts') /\ k < i + 1
      BY <2>1, <2>3, <2>5
    <3>2. posts'[i + 1] = posts[i] /\ posts'[k] = p
      BY <2>1, <2>3, <2>5, <3>1
    <3>3. Newer(p, posts[i])
      BY <2>2, <3>1, <3>2
    <3> QED BY <2>5, <3>3
  <2> QED BY <2>4, <2>5
<1>6. ASSUME NEW i \in DOMAIN old
      PROVE  IF i < k
             THEN \/ PostsMap'[old[i]].createdAt > PostsMap'[id].createdAt
                  \/ PostsMap'[old[i]].createdAt = PostsMap'[id].createdAt /\ old[i] > id
             ELSE \/ PostsMap'[id].createdAt > PostsMap'[old[i]].createdAt
                  \/ PostsMap'[id].createdAt = PostsMap'[old[i]].createdAt /\ id > old[i]
  <2>1. i \in 1..Len(posts) /\ old[i] = posts[i].id
    BY <1>4
  <2>2. PostsMap'[id].createdAt = p.createdAt
    BY <1>1, <1>3 DEF With
  <2>3. old[i] \in DOMAIN PostsMap /\ PostsMap[old[i]].createdAt = posts[i].createdAt
    BY <1>1, <2>1 DEF PostsMap
  <2>4. PostsMap'[old[i]].createdAt = posts[i].createdAt
    BY <1>2, <1>3, <2>3 DEF With
  <2>5. posts[i] \in PostRec
    BY <1>1, <2>1
  <2> QED BY <1>1, <1>5, <2>1, <2>2, <2>4, <2>5, PostTypes DEF Newer, id
<1>7. ThreadMap' = With(ThreadMap, id, <<>>)
  <2>1. DOMAIN postsByID' = DOMAIN postsByID \cup {id}
    BY <1>1 DEF With
  <2>2. IDsOf(comments[id]) = <<>>
    <3>1. ListingInv(comments[id], commentsByID, id)
      BY <1>1 DEF StoreInv, CommentsInv
    <3>2. \A i \in 1..Len(comments[id]) : FALSE
      BY <1>1, <3>1 DEF StoreInv, CommentsInv, ListingInv
    <3>3. comments[id] = <<>>
      BY <3>1, <3>2 DEF ListingInv
    <3> QED BY <3>3 DEF IDsOf
  <2> QED BY <2>1, <2>2 DEF ThreadMap, With
<1>8. CommentsMap' = CommentsMap
  BY DEF CommentsMap
<1>9. \E m \in 1..(Len(old) + 1) :
        /\ IDsOf(posts)' = InsertAt(old, m, id)
        /\ \A i \in DOMAIN old :
             IF i < m
             THEN \/ PostsMap'[old[i]].createdAt > PostsMap'[id].createdAt
                  \/ PostsMap'[old[i]].createdAt = PostsMap'[id].createdAt /\ old[i] > id
             ELSE \/ PostsMap'[id].createdAt > PostsMap'[old[i]].createdAt
                  \/ PostsMap'[id].createdAt = PostsMap'[old[i]].createdAt /\ id > old[i]
  BY <1>4, <1>6
<1>10. id > 0
  BY <1>1
<1> QED BY ONLY <1>2, <1>3, <1>7, <1>8, <1>9, <1>10, Zenon
   DEF Contract!AddPost, Contract!With, With, Contract!Newer, Contract!InsertAt, InsertAt,
       PostsMap, CommentsMap, ThreadMap, id, old

LEMMA PostIsSwitched ==
  ASSUME StoreInv, NEW id \in PostIDs, NEW user, SwitchError(id, user) = "none",
         NEW allowed \in BOOLEAN, NEW p, p = [postsByID[id] EXCEPT !.allowed = allowed],
         p.id = id, Switched(p), UNCHANGED <<comments, commentsByID>>
  PROVE  Contract!Switch(id, user, allowed)
<1>1. /\ id \in DOMAIN postsByID /\ postsByID[id] \in PostRec
      /\ postsByID' = With(postsByID, id, p)
      /\ posts \in Seq(PostRec) /\ posts' \in Seq(PostRec)
      /\ Len(posts') = Len(posts) /\ \A i \in 1..Len(posts) : posts'[i].id = posts[i].id
  BY DEF Switched, StoreInv, PostsInv, Mirrored
<1>2. /\ DOMAIN postsByID' = DOMAIN postsByID
      /\ \A x \in DOMAIN postsByID : postsByID'[x] = IF x = id THEN p ELSE postsByID[x]
  BY <1>1 DEF With
<1>3. /\ p.author = postsByID[id].author /\ p.createdAt = postsByID[id].createdAt
      /\ p.allowed = allowed /\ p.deleted = postsByID[id].deleted
  BY <1>1 DEF PostRec
<1>4. PostsMap' = [PostsMap EXCEPT ![id].allowed = allowed]
  <2>1. /\ DOMAIN PostsMap = DOMAIN postsByID /\ DOMAIN PostsMap' = DOMAIN postsByID
        /\ \A x \in DOMAIN postsByID :
             /\ PostsMap[x] = [author    |-> postsByID[x].author,
                               createdAt |-> postsByID[x].createdAt,
                               allowed   |-> postsByID[x].allowed,
                               deleted   |-> postsByID[x].deleted]
             /\ PostsMap'[x] = [author    |-> postsByID'[x].author,
                                createdAt |-> postsByID'[x].createdAt,
                                allowed   |-> postsByID'[x].allowed,
                                deleted   |-> postsByID'[x].deleted]
    BY <1>2 DEF PostsMap
  <2>2. PostsMap'[id] = [PostsMap[id] EXCEPT !.allowed = allowed]
    <3>1. \A a, t, x, d :
            [author |-> a, createdAt |-> t, allowed |-> allowed, deleted |-> d]
              = [[author |-> a, createdAt |-> t, allowed |-> x, deleted |-> d]
                   EXCEPT !.allowed = allowed]
      OBVIOUS
    <3>2. PostsMap'[id] = [author |-> postsByID[id].author, createdAt |-> postsByID[id].createdAt,
                           allowed |-> allowed, deleted |-> postsByID[id].deleted]
      <4>1. postsByID'[id] = p
        BY <1>1, <1>2
      <4> QED BY ONLY <1>1, <1>3, <2>1, <4>1
    <3> QED BY <1>1, <2>1, <3>1, <3>2
  <2>3. \A x \in DOMAIN postsByID : x # id => PostsMap'[x] = PostsMap[x]
    BY <1>2, <2>1
  <2>4. PostsMap' = [x \in DOMAIN postsByID |-> PostsMap'[x]]
    BY <1>2 DEF PostsMap
  <2>5. PostsMap = [x \in DOMAIN postsByID |-> PostsMap[x]]
    BY DEF PostsMap
  <2> QED BY <1>1, <2>2, <2>3, <2>4, <2>5
<1>5. IDsOf(posts)' = IDsOf(posts)
  BY <1>1 DEF IDsOf
<1>6. ThreadMap' = ThreadMap /\ CommentsMap' = CommentsMap
  BY <1>2 DEF ThreadMap, CommentsMap
<1>7. Contract!SwitchReasons(id, user) = {}
  BY SwitchRefused
<1> QED BY ONLY <1>4, <1>5, <1>6, <1>7, Zenon
   DEF Contract!Switch, PostsMap, CommentsMap, ThreadMap

\* The two readings of the order of a thread are one.
LEMMA SameDepthFirst ==
  ASSUME NEW cs, NEW listing
  PROVE  Contract!DepthFirst(cs, listing) = DepthFirst(cs, listing)
BY DEF DepthFirst, Contract!DepthFirst, Ancestors, Contract!Ancestors, Nil, Contract!Nil

LEMMA CommentIsAdded ==
  ASSUME StoreInv, CommentsInv', NEW post \in PostIDs, NEW parent \in CommentIDs \cup {Nil},
         CommentError(TRUE, post, parent) = "none",
         NEW c, c.post = post, c.parent = parent, c.deleted = FALSE,
         NEW k, Commented(c, k), UNCHANGED <<posts, postsByID>>
  PROVE  Contract!AddComment(c.id, post, parent)
<1> DEFINE id == c.id
           old == IDsOf(comments[post])
           cs == commentsByID'
           s == comments'[post]
<1>1. /\ c \in CommentRec /\ id \notin DOMAIN commentsByID /\ id > 0
      /\ cs = With(commentsByID, id, c)
      /\ k \in 1..(Len(comments[post]) + 1)
      /\ comments' = [comments EXCEPT ![post] = InsertAt(@, k, c)]
      /\ comments = [p \in PostIDs |-> comments[p]]
      /\ comments[post] \in Seq(CommentRec)
      /\ post \in DOMAIN postsByID
  <2>1. nextCommentID \in Nat
    BY MemoryAssumption DEF StoreInv, CommentsInv, ThreadsInv
  <2>2. post \in DOMAIN postsByID
    BY DEF CommentError, LivePost
  <2> QED BY <2>1, <2>2 DEF Commented, StoreInv, CommentsInv, ListingInv
<1> HIDE DEF id
<1>2. id \notin DOMAIN CommentsMap
  BY <1>1 DEF CommentsMap
<1>3. CommentsMap' = With(CommentsMap, id, [post |-> post, parent |-> parent, deleted |-> FALSE])
  <2>1. DOMAIN cs = DOMAIN commentsByID \cup {id}
    BY <1>1 DEF With
  <2>2. \A x \in DOMAIN cs : cs[x] = IF x = id THEN c ELSE commentsByID[x]
    BY <1>1 DEF With
  <2> QED BY <1>1, <2>1, <2>2 DEF CommentsMap, With
<1>4. /\ IDsOf(s) = InsertAt(old, k, id) /\ Len(old) = Len(comments[post])
  <2>1. \A x \in CommentRec : x.id \in Nat
    BY CommentTypes
  <2>2. s = InsertAt(comments[post], k, c)
    BY <1>1
  <2>3. /\ IDsOf(InsertAt(comments[post], k, c)) = InsertAt(old, k, c.id)
        /\ Len(old) = Len(comments[post])
    BY <1>1, <2>1, IDsInserted
  <2> QED BY <2>2, <2>3 DEF id
<1>5. PostsMap' = PostsMap /\ IDsOf(posts)' = IDsOf(posts)
  BY DEF PostsMap, IDsOf
<1>6. ThreadMap' = [ThreadMap EXCEPT ![post] = InsertAt(old, k, id)]
  <2>1. \A p \in PostIDs : p # post => comments'[p] = comments[p]
    BY <1>1
  <2>2. DOMAIN postsByID \subseteq PostIDs
    BY MemoryAssumption DEF StoreInv, PostsInv, Mirrored, PostIDs
  <2>3. /\ DOMAIN ThreadMap = DOMAIN postsByID
        /\ \A p \in DOMAIN postsByID : ThreadMap[p] = IDsOf(comments[p])
    BY DEF ThreadMap
  <2>4. ThreadMap' = [p \in DOMAIN postsByID |-> IDsOf(comments'[p])]
    BY DEF ThreadMap, IDsOf
  <2>5. [ThreadMap EXCEPT ![post] = InsertAt(old, k, id)]
          = [p \in DOMAIN postsByID |-> IF p = post THEN InsertAt(old, k, id)
                                        ELSE IDsOf(comments[p])]
    BY <1>1, <2>3
  <2> QED BY <1>4, <2>1, <2>2, <2>4, <2>5
<1>7. DepthFirst(CommentsMap', InsertAt(old, k, id))
  <2> DEFINE ids == IDsOf(s)
             all == CommentsMap'
             path == PathsOf(cs)
  <2>1. ThreadsInv(cs, nextCommentID') /\ ListingInv(s, cs, post)
    BY DEF CommentsInv
  <2>2. /\ s \in Seq(CommentRec) /\ Ordered(s, PathOrder)
        /\ \A i \in 1..Len(s) : s[i].id \in DOMAIN cs /\ s[i] = cs[s[i].id]
    BY <2>1 DEF ListingInv
  <2>3. /\ DOMAIN all = DOMAIN cs /\ \A x \in DOMAIN cs : all[x].parent = cs[x].parent
    BY DEF CommentsMap
  <2>4. Answering(all) /\ Pathed(all, path, Text)
    BY <2>1, <2>3 DEF ThreadsInv, Answering, Pathed
  <2> HIDE DEF s, cs, all
  <2>5. /\ DOMAIN ids = 1..Len(s) /\ \A i \in 1..Len(s) : ids[i] = s[i].id
        /\ Len(s) \in Nat
    BY <2>2 DEF IDsOf
  <2> HIDE DEF ids
  <2>6. \A i \in DOMAIN ids : ids[i] \in DOMAIN all
    BY <2>2, <2>3, <2>5
  <2>7. \A i, m \in DOMAIN ids : i < m => StringLess(path[ids[i]], path[ids[m]])
    BY <2>2, <2>5, PathOrderMeans DEF PathsOf
  <2>8. DOMAIN ids \subseteq Int /\ \A i, m \in DOMAIN ids : i..m \subseteq DOMAIN ids
    BY <2>5
  <2> HIDE DEF path
  <2>9. DepthFirst(all, ids)
    BY <2>4, <2>6, <2>7, <2>8, TextIsNumerals, PathOrderIsDepthFirst
  <2> QED BY <1>4, <2>9 DEF all, ids
<1>8. Contract!DepthFirst(CommentsMap', InsertAt(old, k, id))
  BY <1>7, SameDepthFirst
<1>9. Contract!CommentReasons(TRUE, post, parent) = {}
  BY CommentRefused
<1>10. ThreadMap[post] = old
  BY <1>1 DEF ThreadMap
<1>11. \E m \in 1..(Len(ThreadMap[post]) + 1) :
         /\ Contract!DepthFirst(CommentsMap', InsertAt(ThreadMap[post], m, id))
         /\ ThreadMap' = [ThreadMap EXCEPT ![post] = InsertAt(ThreadMap[post], m, id)]
  BY <1>1, <1>4, <1>6, <1>8, <1>10
<1>12. id > 0
  BY <1>1
<1> QED BY ONLY <1>2, <1>3, <1>5, <1>9, <1>11, <1>12, Zenon
   DEF Contract!AddComment, Contract!With, With, Contract!InsertAt, InsertAt,
       PostsMap, CommentsMap, ThreadMap, id

LEMMA StateKept ==
  ASSUME UNCHANGED <<posts, postsByID, comments, commentsByID>>
  PROVE  UNCHANGED <<PostsMap, IDsOf(posts), CommentsMap, ThreadMap>>
BY DEF PostsMap, CommentsMap, ThreadMap, IDsOf

\* A step of the store is one of the abstract one: the whole change at the answer of
\* the id, or no change at the answer of a reason.
LEMMA StepsMap ==
  ASSUME StoreInv, StoreInv', Next PROVE Contract!Next
<1>1. ASSUME NEW author \in Users, NEW titleOK \in BOOLEAN, NEW bodyOK \in BOOLEAN,
             NEW now \in Times, CreatePost(author, titleOK, bodyOK, now)
      PROVE  Contract!CreatePost(author, titleOK, bodyOK)
  <2> DEFINE err == PostError(titleOK, bodyOK)
             reasons == Contract!PostReasons(titleOK, bodyOK)
  <2>1. IF err = "none" THEN reasons = {} ELSE err \in reasons
    BY PostRefused
  <2>2. CASE err # "none"
    <3>1. /\ reply' = Answer("CreatePost", err, 0)
          /\ UNCHANGED <<posts, postsByID, comments, commentsByID>>
      BY <1>1, <2>2 DEF CreatePost
    <3>2. UNCHANGED <<PostsMap, IDsOf(posts), CommentsMap, ThreadMap>>
      BY <3>1, StateKept
    <3>3. err \in reasons
      BY <2>1, <2>2
    <3> HIDE DEF err
    <3> QED BY ONLY <3>1, <3>2, <3>3, Zenon
       DEF Contract!CreatePost, Contract!Refuse, Contract!Answer, Answer, Contract!stateVars,
           PostsMap, CommentsMap, ThreadMap
  <2>3. CASE err = "none"
    <3> DEFINE p == [id |-> nextPostID + 1, author |-> author, createdAt |-> now,
                     allowed |-> TRUE, deleted |-> FALSE]
    <3>1. /\ nextPostID < MaxPosts /\ nextPostID' = nextPostID + 1
          /\ postsByID' = With(postsByID, nextPostID + 1, p)
          /\ posts' = insertSortedPosts(posts, p)
          /\ reply' = Answer("CreatePost", "none", p.id)
          /\ UNCHANGED <<comments, commentsByID, nextCommentID>>
      BY <1>1, <2>3 DEF CreatePost, NewPostID
    <3>2. p = [id |-> nextPostID + 1, author |-> author, createdAt |-> now,
               allowed |-> TRUE, deleted |-> FALSE]
      OBVIOUS
    <3> HIDE DEF p
    <3>3. PICK k \in 1..(Len(posts) + 1) : Posted(p, k)
      BY <3>1, <3>2, CreatePostFacts DEF StoreInv
    <3>4. Contract!AddPost(p.id, author, now)
      BY <3>1, <3>2, <3>3, PostIsAdded DEF StoreInv
    <3>5. p.id \in PostIDs
      <4>1. nextPostID \in Nat
        BY DEF StoreInv, PostsInv, Mirrored
      <4> QED BY <3>1, <3>3, <4>1, MemoryAssumption DEF Posted, PostIDs
    <3>6. reasons = {}
      BY <2>1, <2>3
    <3> QED BY ONLY <3>1, <3>4, <3>5, <3>6, now \in Times, Zenon
       DEF Contract!CreatePost, Contract!Answer, Answer
  <2> QED BY <2>2, <2>3
<1>2. ASSUME NEW id \in PostIDs, NEW user \in Users, NEW allowed \in BOOLEAN,
             SetCommentsAllowed(id, user, allowed)
      PROVE  Contract!SetCommentsAllowed(id, user, allowed)
  <2> DEFINE err == SwitchError(id, user)
             reasons == Contract!SwitchReasons(id, user)
  <2>1. IF err = "none" THEN reasons = {} ELSE err \in reasons
    BY SwitchRefused
  <2>2. CASE err # "none"
    <3>1. /\ reply' = Answer("SetCommentsAllowed", err, 0)
          /\ UNCHANGED <<posts, postsByID, comments, commentsByID>>
      BY <1>2, <2>2 DEF SetCommentsAllowed
    <3>2. UNCHANGED <<PostsMap, IDsOf(posts), CommentsMap, ThreadMap>>
      BY <3>1, StateKept
    <3>3. err \in reasons
      BY <2>1, <2>2
    <3> HIDE DEF err
    <3> QED BY ONLY <3>1, <3>2, <3>3, Zenon
       DEF Contract!SetCommentsAllowed, Contract!Refuse, Contract!Answer, Answer,
           Contract!stateVars, PostsMap, CommentsMap, ThreadMap
  <2>3. CASE err = "none"
    <3> DEFINE p == [postsByID[id] EXCEPT !.allowed = allowed]
    <3>1. /\ postsByID' = With(postsByID, id, p) /\ posts' = WithPost(posts, p)
          /\ nextPostID' = nextPostID
          /\ reply' = Answer("SetCommentsAllowed", "none", id)
          /\ UNCHANGED <<comments, commentsByID, nextCommentID>>
      BY <1>2, <2>3 DEF SetCommentsAllowed
    <3>2. id \in DOMAIN postsByID
      BY <2>3 DEF SwitchError, LivePost
    <3>3. p = [postsByID[id] EXCEPT !.allowed = allowed]
      OBVIOUS
    <3> HIDE DEF p
    <3>4. p.id = id /\ Switched(p)
      BY <3>1, <3>2, <3>3, SwitchFacts DEF StoreInv
    <3>5. Contract!Switch(id, user, allowed)
      BY <2>3, <3>1, <3>3, <3>4, PostIsSwitched
    <3> QED BY ONLY <3>1, <3>5, Zenon DEF Contract!SetCommentsAllowed, Contract!Answer, Answer
  <2> QED BY <2>2, <2>3
<1>3. ASSUME NEW bodyOK \in BOOLEAN, NEW post \in PostIDs,
             NEW parent \in CommentIDs \cup {Nil}, CreateComment(bodyOK, post, parent)
      PROVE  Contract!CreateComment(bodyOK, post, parent)
  <2> DEFINE err == CommentError(bodyOK, post, parent)
             reasons == Contract!CommentReasons(bodyOK, post, parent)
  <2>1. IF err = "none" THEN reasons = {} /\ bodyOK ELSE err \in reasons
    BY CommentRefused
  <2>2. CASE err # "none"
    <3>1. /\ reply' = Answer("CreateComment", err, 0)
          /\ UNCHANGED <<posts, postsByID, comments, commentsByID>>
      BY <1>3, <2>2 DEF CreateComment
    <3>2. UNCHANGED <<PostsMap, IDsOf(posts), CommentsMap, ThreadMap>>
      BY <3>1, StateKept
    <3>3. err \in reasons
      BY <2>1, <2>2
    <3> HIDE DEF err
    <3> QED BY ONLY <3>1, <3>2, <3>3, Zenon
       DEF Contract!CreateComment, Contract!Refuse, Contract!Answer, Answer,
           Contract!stateVars, PostsMap, CommentsMap, ThreadMap
  <2>3. CASE err = "none"
    <3> DEFINE c == [id |-> nextCommentID + 1, post |-> post, parent |-> parent,
                     deleted |-> FALSE,
                     path |-> ChildPath(IF parent = Nil THEN <<>>
                                        ELSE commentsByID[parent].path, nextCommentID + 1)]
    <3>1. /\ nextCommentID + 1 <= MaxComments /\ nextCommentID' = nextCommentID + 1
          /\ commentsByID' = With(commentsByID, nextCommentID + 1, c)
          /\ comments' = [comments EXCEPT ![post] = insertSortedComments(@, c)]
          /\ reply' = Answer("CreateComment", "none", c.id)
          /\ UNCHANGED <<posts, postsByID, nextPostID>>
      BY <1>3, <2>3 DEF CreateComment
    <3>2. /\ c = [id |-> nextCommentID + 1, post |-> post, parent |-> parent,
                  deleted |-> FALSE,
                  path |-> ChildPath(IF parent = Nil THEN <<>>
                                     ELSE commentsByID[parent].path, nextCommentID + 1)]
          /\ c.post = post /\ c.parent = parent /\ c.deleted = FALSE
      OBVIOUS
    <3> HIDE DEF c
    <3>3. bodyOK = TRUE /\ CommentError(TRUE, post, parent) = "none"
      BY <2>1, <2>3
    <3>4. /\ post \in DOMAIN postsByID
          /\ parent # Nil => parent \in DOMAIN commentsByID /\ commentsByID[parent].post = post
      BY <3>3 DEF CommentError, LivePost
    <3>5. PICK k \in 1..(Len(comments[post]) + 1) : Commented(c, k)
      BY <3>1, <3>2, <3>4, CreateCommentFacts DEF StoreInv
    <3>6. Contract!AddComment(c.id, post, parent)
      BY <3>1, <3>2, <3>3, <3>5, CommentIsAdded DEF StoreInv
    <3>7. c.id \in CommentIDs
      <4>1. nextCommentID \in Nat
        BY MemoryAssumption DEF StoreInv, CommentsInv, ThreadsInv
      <4> QED BY <3>1, <3>5, <4>1, MemoryAssumption DEF Commented, CommentIDs
    <3> QED BY ONLY <3>1, <3>3, <3>6, <3>7, Zenon
       DEF Contract!CreateComment, Contract!Answer, Answer
  <2> QED BY <2>2, <2>3
<1>4. CASE \E author \in Users, titleOK, bodyOK \in BOOLEAN, now \in Times :
             CreatePost(author, titleOK, bodyOK, now)
  BY <1>1, <1>4 DEF Contract!Next
<1>5. CASE \E id \in PostIDs, user \in Users, allowed \in BOOLEAN :
             SetCommentsAllowed(id, user, allowed)
  BY <1>2, <1>5 DEF Contract!Next
<1>6. CASE \E bodyOK \in BOOLEAN, post \in PostIDs, parent \in CommentIDs \cup {Nil} :
             CreateComment(bodyOK, post, parent)
  BY <1>3, <1>6 DEF Contract!Next, Nil, Contract!Nil
<1> QED BY <1>4, <1>5, <1>6 DEF Next

\* The memory store keeps the promise of its interfaces: each call is a change of
\* the abstract state or a refusal for a reason that holds, whatever the ids, the
\* clock and the shape of the threads.
THEOREM StoreKeepsItsPromise == Spec => ImplementsForumStore
<1>1. Init => Contract!Init
  BY DEF Init, Contract!Init, Contract!StateInit, IDsOf, Answer
<1>2. ASSUME StoreInv, StoreInv', [Next]_vars PROVE [Contract!Next]_(Contract!vars)
  <2>1. CASE UNCHANGED vars
    <3>1. UNCHANGED <<PostsMap, IDsOf(posts), CommentsMap, ThreadMap, reply>>
      BY <2>1, StateKept DEF vars
    <3> QED BY ONLY <3>1, Zenon
       DEF Contract!vars, Contract!stateVars, PostsMap, CommentsMap, ThreadMap
  <2> QED BY <1>2, <2>1, StepsMap
<1> QED BY <1>1, <1>2, StoreInvAlways, PTL DEF Spec, ImplementsForumStore, Contract!Spec

-----------------------------------------------------------------------------
(* What was listed stays listed. *)

\* What a step does to what the store holds: no post or comment goes, of a post only
\* the switch changes, of a comment nothing, and no two items of a listing change
\* places.
HistoryKept ==
  /\ \A p \in DOMAIN postsByID :
       /\ p \in DOMAIN postsByID'
       /\ \E allowed \in BOOLEAN : postsByID'[p] = [postsByID[p] EXCEPT !.allowed = allowed]
  /\ \A c \in DOMAIN commentsByID :
       c \in DOMAIN commentsByID' /\ commentsByID'[c] = commentsByID[c]
  /\ EmbedsIn(IDsOf(posts), IDsOf(posts)')
  /\ \A p \in PostIDs : EmbedsIn(comments[p], comments'[p])

\* A slice of posts with the same ids.
LEMMA SameIDs ==
  ASSUME NEW s \in Seq(PostRec), NEW t \in Seq(PostRec), Len(t) = Len(s),
         \A i \in 1..Len(s) : t[i].id = s[i].id
  PROVE  EmbedsIn(IDsOf(s), IDsOf(t))
<1> DEFINE a == IDsOf(s)
           b == IDsOf(t)
<1>1. Len(a) = Len(s) /\ Len(b) = Len(a) /\ Len(a) \in Nat
  BY DEF IDsOf
<1>2. \A i \in 1..Len(a) : b[i] = a[i]
  BY <1>1 DEF IDsOf
<1> HIDE DEF a, b
<1>3. EmbedsIn(a, b)
  BY ONLY <1>1, <1>2, SameEmbeds
<1> QED BY <1>3 DEF a, b

\* A post is as it was, its switch set to what it is.
LEMMA SamePost ==
  ASSUME NEW p \in PostRec
  PROVE  \E allowed \in BOOLEAN : p = [p EXCEPT !.allowed = allowed]
<1>1. p.allowed \in BOOLEAN /\ p = [p EXCEPT !.allowed = p.allowed]
  BY DEF PostRec
<1> QED BY <1>1

LEMMA PostsKept ==
  ASSUME PostsInv, UNCHANGED <<posts, postsByID>>
  PROVE  /\ \A p \in DOMAIN postsByID :
              /\ p \in DOMAIN postsByID'
              /\ \E allowed \in BOOLEAN :
                   postsByID'[p] = [postsByID[p] EXCEPT !.allowed = allowed]
         /\ EmbedsIn(IDsOf(posts), IDsOf(posts)')
<1>1. posts \in Seq(PostRec) /\ \A p \in DOMAIN postsByID : postsByID[p] \in PostRec
  BY DEF PostsInv, Mirrored
<1>2. EmbedsIn(IDsOf(posts), IDsOf(posts))
  BY <1>1, SameIDs
<1>3. IDsOf(posts)' = IDsOf(posts)
  BY DEF IDsOf
<1> QED BY <1>1, <1>2, <1>3, SamePost

LEMMA CommentsKept ==
  ASSUME CommentsInv, UNCHANGED <<comments, commentsByID>>
  PROVE  /\ \A c \in DOMAIN commentsByID :
              c \in DOMAIN commentsByID' /\ commentsByID'[c] = commentsByID[c]
         /\ \A p \in PostIDs : EmbedsIn(comments[p], comments'[p])
<1>1. ASSUME NEW p \in PostIDs PROVE EmbedsIn(comments[p], comments'[p])
  <2>1. PICK s : s = comments[p] /\ s = comments'[p]
    OBVIOUS
  <2>2. s \in Seq(CommentRec)
    BY <2>1 DEF CommentsInv, ListingInv
  <2>3. Len(s) \in Nat
    BY <2>2
  <2>4. EmbedsIn(s, s)
    BY ONLY <2>3, SameEmbeds
  <2> QED BY <2>1, <2>4
<1> QED BY <1>1

LEMMA PostKeepsHistory ==
  ASSUME StoreInv, NEW p, NEW k, Posted(p, k), UNCHANGED <<comments, commentsByID>>
  PROVE  HistoryKept
<1>1. /\ p \in PostRec /\ p.id \notin DOMAIN postsByID
      /\ postsByID' = With(postsByID, p.id, p)
      /\ k \in 1..(Len(posts) + 1) /\ posts' = InsertAt(posts, k, p)
      /\ posts \in Seq(PostRec) /\ \A x \in DOMAIN postsByID : postsByID[x] \in PostRec
  BY DEF Posted, StoreInv, PostsInv, Mirrored
<1>2. ASSUME NEW x \in DOMAIN postsByID
      PROVE  /\ x \in DOMAIN postsByID'
             /\ \E allowed \in BOOLEAN : postsByID'[x] = [postsByID[x] EXCEPT !.allowed = allowed]
  <2>1. x \in DOMAIN postsByID' /\ postsByID'[x] = postsByID[x]
    BY <1>1 DEF With
  <2> QED BY <1>1, <2>1, SamePost
<1>3. EmbedsIn(IDsOf(posts), IDsOf(posts)')
  <2>1. \A x \in PostRec : x.id \in Nat
    BY PostTypes
  <2>2. /\ IDsOf(InsertAt(posts, k, p)) = InsertAt(IDsOf(posts), k, p.id)
        /\ Len(IDsOf(posts)) = Len(posts) /\ DOMAIN IDsOf(posts) = 1..Len(posts)
        /\ \A i \in 1..Len(posts) : IDsOf(posts)[i] = posts[i].id
    <3>1. p \in PostRec /\ posts \in Seq(PostRec) /\ k \in 1..(Len(posts) + 1)
      BY <1>1
    <3> QED BY ONLY <2>1, <3>1, IDsInserted
  <2> DEFINE ids == IDsOf(posts)
             new == InsertAt(ids, k, p.id)
  <2>3. ids \in Seq(Nat) /\ p.id \in Nat /\ k \in 1..(Len(ids) + 1)
    <3>1. \A i \in 1..Len(posts) : posts[i].id \in Nat
      BY <1>1, <2>1
    <3>2. ids = [i \in 1..Len(posts) |-> ids[i]]
      BY <2>2 DEF IDsOf
    <3>3. Len(posts) \in Nat
      BY <1>1
    <3> HIDE DEF ids
    <3> QED BY <1>1, <2>1, <2>2, <3>1, <3>2, <3>3 DEF ids
  <2>4. new = InsertAt(ids, k, p.id)
    OBVIOUS
  <2> HIDE DEF ids, new
  <2>5. EmbedsIn(ids, new)
    BY ONLY <2>3, <2>4, InsertAtKeepsOrder
  <2>6. IDsOf(posts)' = new
    <3>1. IDsOf(posts)' = IDsOf(InsertAt(posts, k, p))
      BY <1>1 DEF IDsOf
    <3> QED BY <2>2, <3>1 DEF ids, new
  <2> QED BY <2>5, <2>6 DEF ids
<1> QED BY <1>2, <1>3, CommentsKept DEF StoreInv, HistoryKept

LEMMA SwitchKeepsHistory ==
  ASSUME StoreInv, NEW p, Switched(p), UNCHANGED <<comments, commentsByID>>
  PROVE  HistoryKept
<1>1. /\ p.id \in DOMAIN postsByID /\ postsByID' = With(postsByID, p.id, p)
      /\ \E allowed \in BOOLEAN : p = [postsByID[p.id] EXCEPT !.allowed = allowed]
      /\ posts \in Seq(PostRec) /\ posts' \in Seq(PostRec)
      /\ Len(posts') = Len(posts) /\ \A i \in 1..Len(posts) : posts'[i].id = posts[i].id
      /\ \A x \in DOMAIN postsByID : postsByID[x] \in PostRec
  BY DEF Switched, StoreInv, PostsInv, Mirrored
<1>2. ASSUME NEW x \in DOMAIN postsByID
      PROVE  /\ x \in DOMAIN postsByID'
             /\ \E allowed \in BOOLEAN : postsByID'[x] = [postsByID[x] EXCEPT !.allowed = allowed]
  <2>1. x \in DOMAIN postsByID' /\ postsByID'[x] = IF x = p.id THEN p ELSE postsByID[x]
    BY <1>1 DEF With
  <2>2. CASE x = p.id
    BY <1>1, <2>1, <2>2
  <2>3. CASE x # p.id
    BY <1>1, <2>1, <2>3, SamePost
  <2> QED BY <2>2, <2>3
<1>3. EmbedsIn(IDsOf(posts), IDsOf(posts'))
  BY <1>1, SameIDs
<1>4. IDsOf(posts)' = IDsOf(posts')
  BY DEF IDsOf
<1> QED BY <1>2, <1>3, <1>4, CommentsKept DEF StoreInv, HistoryKept

LEMMA CommentKeepsHistory ==
  ASSUME StoreInv, NEW c, NEW k, Commented(c, k), UNCHANGED <<posts, postsByID>>
  PROVE  HistoryKept
<1>1. /\ c \in CommentRec /\ c.id \notin DOMAIN commentsByID /\ c.post \in PostIDs
      /\ commentsByID' = With(commentsByID, c.id, c)
      /\ k \in 1..(Len(comments[c.post]) + 1)
      /\ comments' = [comments EXCEPT ![c.post] = InsertAt(@, k, c)]
      /\ DOMAIN comments = PostIDs /\ \A p \in PostIDs : comments[p] \in Seq(CommentRec)
  BY DEF Commented, StoreInv, CommentsInv, ListingInv
<1>2. \A x \in DOMAIN commentsByID :
        x \in DOMAIN commentsByID' /\ commentsByID'[x] = commentsByID[x]
  BY <1>1 DEF With
<1>3. ASSUME NEW p \in PostIDs PROVE EmbedsIn(comments[p], comments'[p])
  <2>1. PICK s, t : s = comments[p] /\ t = comments'[p]
    OBVIOUS
  <2>2. s \in Seq(CommentRec)
    BY <1>1, <2>1
  <2>3. CASE p = c.post
    <3>1. t = InsertAt(s, k, c) /\ k \in 1..(Len(s) + 1) /\ c \in CommentRec
      BY <1>1, <2>1, <2>3
    <3>2. EmbedsIn(s, t)
      BY ONLY <2>2, <3>1, InsertAtKeepsOrder
    <3> QED BY <2>1, <3>2
  <2>4. CASE p # c.post
    <3>1. t = s /\ Len(s) \in Nat
      BY <1>1, <2>1, <2>2, <2>4
    <3>2. EmbedsIn(s, t)
      BY ONLY <3>1, SameEmbeds
    <3> QED BY <2>1, <3>2
  <2> QED BY <2>3, <2>4
<1> QED BY <1>2, <1>3, PostsKept DEF StoreInv, HistoryKept

LEMMA StepKeepsHistory ==
  ASSUME StoreInv, [Next]_vars PROVE HistoryKept
<1>0. CASE UNCHANGED <<posts, postsByID, comments, commentsByID>>
  BY <1>0, PostsKept, CommentsKept DEF StoreInv, HistoryKept
<1>1. ASSUME NEW author \in Users, NEW titleOK \in BOOLEAN, NEW bodyOK \in BOOLEAN,
             NEW now \in Times, CreatePost(author, titleOK, bodyOK, now)
      PROVE  HistoryKept
  <2> DEFINE p == [id |-> nextPostID + 1, author |-> author, createdAt |-> now,
                   allowed |-> TRUE, deleted |-> FALSE]
  <2>1. \/ UNCHANGED <<posts, postsByID, comments, commentsByID>>
        \/ /\ nextPostID < MaxPosts /\ nextPostID' = nextPostID + 1
           /\ postsByID' = With(postsByID, nextPostID + 1, p)
           /\ posts' = insertSortedPosts(posts, p)
           /\ UNCHANGED <<comments, commentsByID>>
    BY <1>1 DEF CreatePost, NewPostID
  <2>2. CASE ~UNCHANGED <<posts, postsByID, comments, commentsByID>>
    <3>1. p = [id |-> nextPostID + 1, author |-> author, createdAt |-> now,
               allowed |-> TRUE, deleted |-> FALSE]
      OBVIOUS
    <3> HIDE DEF p
    <3>2. PICK k \in 1..(Len(posts) + 1) : Posted(p, k)
      BY <2>1, <2>2, <3>1, CreatePostFacts DEF StoreInv
    <3> QED BY <2>1, <2>2, <3>2, PostKeepsHistory
  <2> QED BY <1>0, <2>2
<1>2. ASSUME NEW id \in PostIDs, NEW user \in Users, NEW allowed \in BOOLEAN,
             SetCommentsAllowed(id, user, allowed)
      PROVE  HistoryKept
  <2> DEFINE p == [postsByID[id] EXCEPT !.allowed = allowed]
  <2>1. \/ UNCHANGED <<posts, postsByID, comments, commentsByID>>
        \/ /\ SwitchError(id, user) = "none"
           /\ postsByID' = With(postsByID, id, p) /\ posts' = WithPost(posts, p)
           /\ nextPostID' = nextPostID
           /\ UNCHANGED <<comments, commentsByID>>
    BY <1>2 DEF SetCommentsAllowed
  <2>2. CASE ~UNCHANGED <<posts, postsByID, comments, commentsByID>>
    <3>1. id \in DOMAIN postsByID
      BY <2>1, <2>2 DEF SwitchError, LivePost
    <3>2. p = [postsByID[id] EXCEPT !.allowed = allowed]
      OBVIOUS
    <3> HIDE DEF p
    <3>3. Switched(p)
      BY <2>1, <2>2, <3>1, <3>2, SwitchFacts DEF StoreInv
    <3> QED BY <2>1, <2>2, <3>3, SwitchKeepsHistory
  <2> QED BY <1>0, <2>2
<1>3. ASSUME NEW bodyOK \in BOOLEAN, NEW post \in PostIDs,
             NEW parent \in CommentIDs \cup {Nil}, CreateComment(bodyOK, post, parent)
      PROVE  HistoryKept
  <2> DEFINE c == [id |-> nextCommentID + 1, post |-> post, parent |-> parent,
                   deleted |-> FALSE,
                   path |-> ChildPath(IF parent = Nil THEN <<>>
                                      ELSE commentsByID[parent].path, nextCommentID + 1)]
  <2>1. \/ UNCHANGED <<posts, postsByID, comments, commentsByID>>
        \/ /\ CommentError(bodyOK, post, parent) = "none"
           /\ nextCommentID + 1 <= MaxComments /\ nextCommentID' = nextCommentID + 1
           /\ commentsByID' = With(commentsByID, nextCommentID + 1, c)
           /\ comments' = [comments EXCEPT ![post] = insertSortedComments(@, c)]
           /\ UNCHANGED <<posts, postsByID>>
    BY <1>3 DEF CreateComment
  <2>2. CASE ~UNCHANGED <<posts, postsByID, comments, commentsByID>>
    <3>1. /\ post \in DOMAIN postsByID
          /\ parent # Nil => parent \in DOMAIN commentsByID /\ commentsByID[parent].post = post
      BY <2>1, <2>2 DEF CommentError, LivePost
    <3>2. c = [id |-> nextCommentID + 1, post |-> post, parent |-> parent,
               deleted |-> FALSE,
               path |-> ChildPath(IF parent = Nil THEN <<>>
                                  ELSE commentsByID[parent].path, nextCommentID + 1)]
      OBVIOUS
    <3> HIDE DEF c
    <3>3. PICK k \in 1..(Len(comments[post]) + 1) : Commented(c, k)
      BY <2>1, <2>2, <3>1, <3>2, CreateCommentFacts DEF StoreInv
    <3> QED BY <2>1, <2>2, <3>3, CommentKeepsHistory
  <2> QED BY <1>0, <2>2
<1> QED BY <1>0, <1>1, <1>2, <1>3 DEF Next, vars

\* Whatever is called and in whatever order the clock gives times, what a client has
\* been shown stays where it was relative to the rest, which is what cursors rest on.
THEOREM HistoryIsKept == Spec => [][HistoryKept]_vars
<1>1. StoreInv /\ [Next]_vars => [HistoryKept]_vars
  BY StepKeepsHistory
<1> QED BY <1>1, StoreInvAlways, PTL DEF Spec

-----------------------------------------------------------------------------
(* A listing as a scan reads it. *)

\* The ids of the listing t, and what an id stands for in it.
Listed(t) == IF t = 0 THEN DOMAIN postsByID
             ELSE {c \in DOMAIN commentsByID : commentsByID[c].post = t}

ItemOf(t, x) == IF t = 0 THEN postsByID[x] ELSE commentsByID[x]

\* The order of the listing t.
Sequence(t) == {xy \in Listed(t) \X Listed(t) : Before(t, xy[1], xy[2])}

LEMMA SequenceMeans ==
  ASSUME NEW t, NEW x \in Listed(t), NEW y \in Listed(t)
  PROVE  <<x, y>> \in Sequence(t) <=> Before(t, x, y)
BY DEF Sequence

LEMMA ItemTypes ==
  ASSUME StoreInv, NEW t, NEW x \in Listed(t)
  PROVE  /\ t = 0 => ItemOf(t, x) \in PostRec /\ ItemOf(t, x) = postsByID[x]
         /\ t # 0 => /\ ItemOf(t, x) \in CommentRec /\ ItemOf(t, x) = commentsByID[x]
                     /\ x \in DOMAIN commentsByID
         /\ ItemOf(t, x).id = x /\ ItemOf(t, x).deleted = FALSE /\ x \in Nat
<1>1. CASE t = 0
  <2>1. /\ x \in DOMAIN postsByID /\ postsByID[x] \in PostRec /\ postsByID[x].id = x
        /\ x \in Nat
    BY <1>1 DEF Listed, StoreInv, PostsInv, Mirrored
  <2> QED BY <1>1, <2>1 DEF ItemOf, PostRec
<1>2. CASE t # 0
  <2>1. /\ x \in DOMAIN commentsByID /\ commentsByID[x] \in CommentRec
        /\ commentsByID[x].id = x /\ x \in Nat
    BY <1>2 DEF Listed, StoreInv, CommentsInv, ThreadsInv
  <2> QED BY <1>2, <2>1 DEF ItemOf, CommentRec
<1> QED BY <1>1, <1>2

LEMMA BeforeIsOrder ==
  ASSUME StoreInv, NEW t, NEW x \in Listed(t), NEW y \in Listed(t)
  PROVE  /\ ~Before(t, x, x)
         /\ Before(t, x, y) => ~Before(t, y, x)
         /\ x # y => Before(t, x, y) \/ Before(t, y, x)
         /\ \A z \in Listed(t) : Before(t, x, y) /\ Before(t, y, z) => Before(t, x, z)
<1>1. CASE t = 0
  <2>1. \A w \in Listed(t) : postsByID[w] \in PostRec /\ postsByID[w].id = w
    <3>1. ASSUME NEW w \in Listed(t)
          PROVE  ItemOf(t, w) \in PostRec /\ ItemOf(t, w) = postsByID[w] /\ ItemOf(t, w).id = w
      BY ONLY StoreInv, w \in Listed(t), <1>1, ItemTypes
    <3> QED BY <3>1
  <2>2. \A v, w \in Listed(t) : Before(t, v, w) <=> Newer(postsByID[v], postsByID[w])
    BY <1>1 DEF Before
  <2> QED BY <2>1, <2>2, NewerIsTotal, NewerIsTransitive, NewerIsIrreflexive
<1>2. CASE t # 0
  <2>1. \A w \in Listed(t) : commentsByID[w].path \in Seq(Int) /\ w \in DOMAIN commentsByID
    <3>1. ASSUME NEW w \in Listed(t)
          PROVE  commentsByID[w].path \in Seq(Int) /\ w \in DOMAIN commentsByID
      <4>1. /\ ItemOf(t, w) \in CommentRec /\ ItemOf(t, w) = commentsByID[w]
            /\ w \in DOMAIN commentsByID
        BY <1>2, ItemTypes
      <4>2. commentsByID[w] \in CommentRec
        BY <4>1
      <4> QED BY <4>1, <4>2, CommentTypes
    <3> QED BY <3>1
  <2>2. \A v, w \in Listed(t) :
          Before(t, v, w) <=> StringLess(commentsByID[v].path, commentsByID[w].path)
    BY <1>2 DEF Before
  <2>3. x # y => commentsByID[x].path # commentsByID[y].path
    <3>1. SUFFICES ASSUME commentsByID[x].path = commentsByID[y].path PROVE x = y
      OBVIOUS
    <3>2. /\ Answering(commentsByID)
          /\ Pathed(commentsByID, PathsOf(commentsByID), Text)
      BY DEF StoreInv, CommentsInv, ThreadsInv
    <3>3. PathsOf(commentsByID)[x] = PathsOf(commentsByID)[y]
      BY <2>1, <3>1 DEF PathsOf
    <3> QED BY <2>1, <3>2, <3>3, TextIsNumerals, PathsDiffer
  <2>4. ~Before(t, x, x)
    BY <2>1, <2>2, StringLessIsIrreflexive
  <2>5. \A v, w, z \in Listed(t) : Before(t, v, w) /\ Before(t, w, z) => Before(t, v, z)
    BY <2>1, <2>2, StringLessIsTransitive
  <2>6. x # y => Before(t, x, y) \/ Before(t, y, x)
    BY <2>1, <2>2, <2>3, StringLessIsTotal
  <2> QED BY <2>4, <2>5, <2>6
<1> QED BY <1>1, <1>2

\* A cursor lets through what comes after its item, which is never no cursor.
LEMMA BeyondMeansBefore ==
  ASSUME StoreInv, NEW t, NEW x \in Listed(t)
  PROVE  /\ Key(t, ItemOf(t, x)) # None
         /\ \A y \in Listed(t) : Beyond(t, ItemOf(t, y), Key(t, ItemOf(t, x)))
                                   <=> Before(t, x, y)
<1>1. CASE t = 0
  <2>1. \A w \in Listed(t) : postsByID[w] \in PostRec /\ ItemOf(t, w) = postsByID[w]
    <3>1. ASSUME NEW w \in Listed(t)
          PROVE  ItemOf(t, w) \in PostRec /\ ItemOf(t, w) = postsByID[w]
      BY ONLY StoreInv, w \in Listed(t), <1>1, ItemTypes
    <3> QED BY <3>1
  <2>2. Key(t, ItemOf(t, x)) = <<postsByID[x].createdAt, postsByID[x].id>>
    BY <1>1, <2>1 DEF Key
  <2>3. \A y \in Listed(t) : /\ Beyond(t, ItemOf(t, y), Key(t, ItemOf(t, x)))
                                 <=> strictlyOlder(postsByID[y], postsByID[x].createdAt,
                                                   postsByID[x].id)
                             /\ Before(t, x, y) <=> Newer(postsByID[x], postsByID[y])
    BY <1>1, <2>1, <2>2 DEF Beyond, Before
  <2>4. \A y \in Listed(t) : strictlyOlder(postsByID[y], postsByID[x].createdAt,
                                           postsByID[x].id)
                               <=> Newer(postsByID[x], postsByID[y])
    BY <2>1, PostTypes DEF strictlyOlder, Newer
  <2>5. Key(t, ItemOf(t, x)) # None
    BY <2>2 DEF None
  <2> QED BY <2>3, <2>4, <2>5
<1>2. CASE t # 0
  <2>1. \A w \in Listed(t) : ItemOf(t, w) = commentsByID[w] /\ w \in DOMAIN commentsByID
    <3>1. ASSUME NEW w \in Listed(t)
          PROVE  ItemOf(t, w) = commentsByID[w] /\ w \in DOMAIN commentsByID
      BY ONLY StoreInv, w \in Listed(t), <1>2, ItemTypes
    <3> QED BY <3>1
  <2>2. Key(t, ItemOf(t, x)) = commentsByID[x].path
    BY <1>2, <2>1 DEF Key
  <2>3. commentsByID[x].path # <<>>
    <3>1. /\ Answering(commentsByID)
          /\ Pathed(commentsByID, PathsOf(commentsByID), Text)
      BY DEF StoreInv, CommentsInv, ThreadsInv
    <3>2. Len(PathsOf(commentsByID)[x]) >= IDWidth /\ PathsOf(commentsByID)[x] \in Seq(Int)
      BY <2>1, <3>1, TextIsNumerals, PathEnd
    <3>3. PathsOf(commentsByID)[x] # <<>>
      BY <3>2, PathAssumption
    <3> QED BY <2>1, <3>3 DEF PathsOf
  <2> QED BY <1>2, <2>1, <2>2, <2>3 DEF Beyond, Before, None
<1> QED BY <1>1, <1>2

\* Nothing is deleted, so the listing is the whole slice, sorted.
LEMMA WholeListing ==
  ASSUME StoreInv, NEW t \in PostIDs, NEW items, items = Listing(t),
         NEW ids, ids = IDsOf(items)
  PROVE  /\ items \in Seq(PostRec \cup CommentRec)
         /\ ids \in Seq(Listed(t)) /\ Len(ids) = Len(items)
         /\ \A i \in 1..Len(ids) : items[i] = ItemOf(t, ids[i])
         /\ \A x \in Listed(t) : \E i \in 1..Len(ids) : ids[i] = x
         /\ Ordered(ids, Sequence(t))
<1> DEFINE s == IF t = 0 THEN posts ELSE comments[t]
           S == PostRec \cup CommentRec
<1>1. /\ s \in Seq(S)
      /\ \A i \in 1..Len(s) : s[i].id \in Listed(t) /\ s[i] = ItemOf(t, s[i].id)
      /\ \A x \in Listed(t) : \E i \in 1..Len(s) : s[i].id = x
      /\ \A i, j \in 1..Len(s) : i < j => Before(t, s[i].id, s[j].id)
  <2>1. CASE t = 0
    <3>1. /\ posts \in Seq(PostRec) /\ s = posts
          /\ \A i \in 1..Len(posts) : /\ posts[i].id \in DOMAIN postsByID
                                      /\ posts[i] = postsByID[posts[i].id]
          /\ \A id \in DOMAIN postsByID : \E i \in 1..Len(posts) : posts[i] = postsByID[id]
          /\ \A id \in DOMAIN postsByID : postsByID[id].id = id
          /\ Ordered(posts, NewestFirst)
      BY <2>1 DEF StoreInv, PostsInv, Mirrored
    <3>2. \A i, j \in 1..Len(posts) : i < j => Newer(posts[i], posts[j])
      BY <3>1, NewestFirstMeans
    <3>3. posts \in Seq(S)
      BY <3>1
    <3> HIDE DEF s
    <3> QED BY <2>1, <3>1, <3>2, <3>3 DEF Listed, ItemOf, Before
  <2>2. CASE t # 0
    <3>1. s = comments[t]
      BY <2>2
    <3> HIDE DEF s
    <3> DEFINE named == IDsOf(s)
    <3>2. /\ s \in Seq(CommentRec) /\ Len(named) = Len(s)
          /\ \A i \in 1..Len(named) :
               /\ named[i] \in DOMAIN commentsByID /\ commentsByID[named[i]].post = t
               /\ s[i] = commentsByID[named[i]] /\ s[i].id = named[i]
          /\ \A c \in DOMAIN commentsByID :
               commentsByID[c].post = t => \E i \in 1..Len(named) : named[i] = c
          /\ \A i, k \in 1..Len(named) :
               i < k => StringLess(commentsByID[named[i]].path, commentsByID[named[k]].path)
      <4>1. ListingOf(t, IDsOf(comments[t])) /\ named = IDsOf(comments[t])
        BY <2>2, <3>1, ListingFacts DEF StoreInv
      <4> HIDE DEF named
      <4> QED BY ONLY <3>1, <4>1 DEF ListingOf
    <3> HIDE DEF named
    <3>3. s \in Seq(S) /\ Len(named) = Len(s)
      BY <3>2
    <3>4. /\ Listed(t) = {c \in DOMAIN commentsByID : commentsByID[c].post = t}
          /\ \A c : ItemOf(t, c) = commentsByID[c]
          /\ \A a, b : Before(t, a, b) =
                         StringLess(commentsByID[a].path, commentsByID[b].path)
      BY <2>2 DEF Listed, ItemOf, Before
    <3>5. \A i \in 1..Len(s) : s[i].id \in Listed(t) /\ s[i] = ItemOf(t, s[i].id)
      BY ONLY <3>2, <3>3, <3>4
    <3>6. \A x \in Listed(t) : \E i \in 1..Len(s) : s[i].id = x
      BY ONLY <3>2, <3>3, <3>4
    <3>7. \A i, j \in 1..Len(s) : i < j => Before(t, s[i].id, s[j].id)
      BY ONLY <3>2, <3>3, <3>4
    <3> QED BY ONLY <3>3, <3>5, <3>6, <3>7
  <2> QED BY <2>1, <2>2
<1> HIDE DEF s
<1>2. items = s
  <2>1. ASSUME NEW i \in 1..Len(s) PROVE ~s[i].deleted
    <3>1. PICK x \in Listed(t) : s[i] = ItemOf(t, x)
      BY <1>1
    <3>2. ItemOf(t, x).deleted = FALSE
      BY ItemTypes
    <3> QED BY <3>1, <3>2
  <2>2. 1..Len(s) \subseteq {i \in DOMAIN s : ~s[i].deleted}
    BY <1>1, <2>1
  <2>3. Filter(s, {i \in DOMAIN s : ~s[i].deleted}) = s
    <3> HIDE DEF S
    <3> QED BY <1>1, <2>2, FilterAll
  <2> QED BY <2>3 DEF Listing, Live, s
<1>3. ids = [i \in 1..Len(s) |-> s[i].id] /\ Len(s) \in Nat
  BY <1>1, <1>2 DEF IDsOf
<1>4. /\ ids \in Seq(Listed(t)) /\ Len(ids) = Len(s)
      /\ \A i \in 1..Len(s) : ids[i] = s[i].id
  <2>1. ids \in [1..Len(s) -> Listed(t)]
    BY <1>1, <1>3
  <2> QED BY <1>3, <2>1
<1>5. Ordered(ids, Sequence(t))
  <2> SUFFICES ASSUME NEW i \in 1..Len(ids), NEW j \in 1..Len(ids), i < j
               PROVE  <<ids[i], ids[j]>> \in Sequence(t)
    BY DEF Ordered
  <2>1. ids[i] \in Listed(t) /\ ids[j] \in Listed(t) /\ Before(t, ids[i], ids[j])
    BY <1>1, <1>4
  <2> QED BY <2>1, SequenceMeans
<1>6. /\ items \in Seq(S) /\ Len(ids) = Len(items)
      /\ \A i \in 1..Len(ids) : items[i] = ItemOf(t, ids[i])
  BY ONLY <1>1, <1>2, <1>4
<1>7. \A x \in Listed(t) : \E i \in 1..Len(ids) : ids[i] = x
  BY ONLY <1>1, <1>4
<1> QED BY ONLY <1>4, <1>5, <1>6, <1>7 DEF S

-----------------------------------------------------------------------------
(* One page. *)

LEMMA clampFirstFacts ==
  ASSUME NEW first \in Firsts PROVE clampFirst(first) \in Nat \ {0}
<1>1. /\ DefaultFirst \in Nat \ {0} /\ MaxFirst \in Nat \ {0} /\ first \in Int
  BY ScanAssumption
<1> QED BY <1>1 DEF clampFirst

\* The page has the items of ids from lo to hi, and a cursor for the last of them
\* if there are more.
PageAt(t, page, ids, lo, hi) ==
  /\ lo \in 1..(Len(ids) + 1) /\ hi \in (lo - 1)..Len(ids)
  /\ IDsOf(page.items) = SubSeq(ids, lo, hi)
  /\ \/ page.next = None /\ hi = Len(ids)
     \/ page.next # None /\ lo <= hi /\ page.next = Key(t, ItemOf(t, ids[hi]))

LEMMA PaginateFacts ==
  ASSUME StoreInv, NEW t \in PostIDs, NEW items, items = Listing(t),
         NEW ids, ids = IDsOf(items), NEW lo \in 1..(Len(ids) + 1),
         NEW limit \in Nat \ {0},
         NEW page, page = paginate(t, SubSeq(items, lo, Len(items)), limit)
  PROVE  \E hi \in (lo - 1)..Len(ids) : PageAt(t, page, ids, lo, hi)
<1> DEFINE S == PostRec \cup CommentRec
           rest == SubSeq(items, lo, Len(items))
           n == Len(ids)
           next == Key(t, rest[limit])
<1>1. /\ items \in Seq(S) /\ ids \in Seq(Listed(t)) /\ Len(items) = n /\ n \in Nat
      /\ \A i \in 1..n : items[i] = ItemOf(t, ids[i]) /\ ids[i] \in Listed(t)
      /\ \A i \in 1..n : ids[i] = items[i].id
  <2>1. /\ items \in Seq(S) /\ ids \in Seq(Listed(t)) /\ Len(ids) = Len(items)
        /\ \A i \in 1..n : items[i] = ItemOf(t, ids[i])
    BY WholeListing
  <2>2. DOMAIN items = 1..n /\ n \in Nat /\ \A i \in 1..n : ids[i] \in Listed(t)
    <3> HIDE DEF S
    <3> QED BY <2>1
  <2> QED BY <2>1, <2>2 DEF IDsOf
<1> HIDE DEF S, n
<1>2. /\ rest \in Seq(S) /\ Len(rest) = n - lo + 1
      /\ \A i \in 1..(n - lo + 1) : rest[i] = items[lo + i - 1]
  <2>1. lo \in 1..(Len(items) + 1) /\ Len(items) \in (lo - 1)..Len(items)
    BY <1>1 DEF n
  <2> QED BY ONLY <1>1, <2>1, SubSeqFacts
<1> HIDE DEF rest
<1>3. lo \in 1..(n + 1) /\ lo \in Nat
  BY <1>1 DEF n
\* The ids of a piece are the piece of the ids.
<1>4. ASSUME NEW hi \in (lo - 1)..n, NEW piece, piece \in Seq(S), Len(piece) = hi - lo + 1,
             \A i \in 1..(hi - lo + 1) : piece[i] = items[lo + i - 1]
      PROVE  IDsOf(piece) = SubSeq(ids, lo, hi)
  <2>1. /\ SubSeq(ids, lo, hi) \in Seq(Listed(t)) /\ Len(SubSeq(ids, lo, hi)) = hi - lo + 1
        /\ \A i \in 1..(hi - lo + 1) : SubSeq(ids, lo, hi)[i] = ids[lo + i - 1]
    <3>1. lo \in 1..(Len(ids) + 1) /\ hi \in (lo - 1)..Len(ids)
      BY DEF n
    <3> QED BY ONLY <1>1, <3>1, SubSeqFacts
  <2> DEFINE q == SubSeq(ids, lo, hi)
             m == hi - lo + 1
  <2>2. q = [i \in 1..m |-> q[i]] /\ \A i \in 1..m : q[i] = ids[lo + i - 1]
    <3> HIDE DEF m
    <3>1. q \in Seq(Listed(t)) /\ Len(q) = m
      BY <2>1 DEF m
    <3> HIDE DEF q
    <3>2. q = [i \in 1..m |-> q[i]]
      BY <3>1
    <3> QED BY <2>1, <3>2 DEF m, q
  <2>3. IDsOf(piece) = [i \in 1..m |-> piece[i].id]
    BY <1>4 DEF IDsOf
  <2>4. \A i \in 1..m : piece[i] = items[lo + i - 1]
    BY <1>4
  <2> HIDE DEF q
  <2>5. ASSUME NEW i \in 1..m PROVE lo + i - 1 \in 1..n
    BY <1>1, <1>3
  <2>6. \A i \in 1..m : piece[i].id = ids[lo + i - 1]
    BY <1>1, <2>4, <2>5
  <2> HIDE DEF m
  <2>7. [i \in 1..m |-> piece[i].id] = [i \in 1..m |-> q[i]]
    BY ONLY <2>2, <2>6
  <2>8. IDsOf(piece) = q
    BY ONLY <2>2, <2>3, <2>7
  <2> QED BY ONLY <2>8 DEF q
<1>5. CASE Len(rest) > limit
  <2> DEFINE hi == lo + limit - 1
             piece == SubSeq(rest, 1, limit)
  <2>1. page = [items |-> piece, next |-> next]
    BY <1>5 DEF paginate, rest
  <2>2. hi \in (lo - 1)..n /\ lo <= hi /\ hi < n /\ hi - lo + 1 = limit /\ hi \in 1..n
    BY <1>1, <1>2, <1>3, <1>5
  <2>3. /\ piece \in Seq(S) /\ Len(piece) = limit
        /\ \A i \in 1..limit : piece[i] = rest[i]
    <3>1. 1 \in 1..(Len(rest) + 1) /\ limit \in (1 - 1)..Len(rest)
      BY <1>1, <1>2, <1>3, <1>5
    <3>2. /\ piece \in Seq(S) /\ Len(piece) = limit - 1 + 1
          /\ \A i \in 1..(limit - 1 + 1) : piece[i] = rest[1 + i - 1]
      BY ONLY <1>2, <3>1, SubSeqFacts
    <3> HIDE DEF piece
    <3> QED BY <3>2
  <2>4. next = Key(t, ItemOf(t, ids[hi]))
    <3>1. limit \in 1..(n - lo + 1)
      BY <1>1, <1>2, <1>3, <1>5
    <3>2. rest[limit] = items[hi]
      BY <1>2, <3>1
    <3> QED BY <1>1, <2>2, <3>2
  <2>5. next # None
    BY <1>1, <2>2, <2>4, BeyondMeansBefore
  <2> HIDE DEF piece, hi
  <2>6. \A i \in 1..(hi - lo + 1) : piece[i] = items[lo + i - 1]
    BY <1>1, <1>2, <1>3, <1>5, <2>2, <2>3
  <2>7. IDsOf(page.items) = SubSeq(ids, lo, hi)
    BY <1>4, <2>1, <2>2, <2>3, <2>6
  <2> HIDE DEF next
  <2>8. page.next = next
    BY <2>1
  <2> QED BY <2>2, <2>4, <2>5, <2>7, <2>8 DEF PageAt, n
<1>6. CASE ~(Len(rest) > limit)
  <2>1. page = [items |-> rest, next |-> None]
    BY <1>6 DEF paginate, rest
  <2>2. n \in (lo - 1)..n
    BY <1>1, <1>3
  <2>3. IDsOf(page.items) = SubSeq(ids, lo, n)
    <3>1. IDsOf(rest) = SubSeq(ids, lo, n)
      BY <1>2, <1>4, <2>2
    <3> QED BY <2>1, <3>1
  <2> QED BY <2>1, <2>2, <2>3 DEF PageAt, n
<1> QED BY <1>5, <1>6

LEMMA FirstPageFacts ==
  ASSUME StoreInv, NEW t \in PostIDs, NEW ids, ids = IDsOf(Listing(t)),
         NEW first \in Firsts,
         NEW page, page = paginate(t, Remaining(t, None), clampFirst(first))
  PROVE  \E hi \in 0..Len(ids) : PageAt(t, page, ids, 1, hi)
<1> DEFINE items == Listing(t)
<1>1. items \in Seq(PostRec \cup CommentRec) /\ Len(ids) = Len(items)
  BY WholeListing
<1>2. Len(items) \in Nat /\ items = SubSeq(items, 1, Len(items))
  <2> DEFINE S == PostRec \cup CommentRec
  <2>1. items \in Seq(S)
    BY <1>1
  <2> HIDE DEF S, items
  <2>2. Len(items) \in Nat /\ items = [i \in 1..Len(items) |-> items[i]]
    BY <2>1
  <2>3. SubSeq(items, 1, Len(items)) = [i \in 1..Len(items) |-> items[i]]
    BY <2>1, <2>2
  <2> QED BY <2>2, <2>3
<1>3. Remaining(t, None) = items
  BY DEF Remaining
<1> HIDE DEF items
<1>4. page = paginate(t, SubSeq(items, 1, Len(items)), clampFirst(first))
  BY <1>2, <1>3
<1>5. clampFirst(first) \in Nat \ {0} /\ 1 \in 1..(Len(ids) + 1)
  BY <1>1, <1>2, clampFirstFacts
<1>6. items = Listing(t) /\ ids = IDsOf(items)
  BY DEF items
<1>7. \E hi \in (1 - 1)..Len(ids) : PageAt(t, page, ids, 1, hi)
  BY <1>4, <1>5, <1>6, PaginateFacts
<1> QED BY <1>7

\* The cursor of item x, in the listing when it was read or only since: the page
\* goes on with the items after x.
LEMMA NextPageFacts ==
  ASSUME StoreInv, NEW t \in PostIDs, NEW ids, ids = IDsOf(Listing(t)),
         NEW x \in Listed(t), NEW first \in Firsts,
         NEW page, page = paginate(t, Remaining(t, Key(t, ItemOf(t, x))), clampFirst(first))
  PROVE  \E lo \in 1..(Len(ids) + 1) :
           /\ \A i \in 1..Len(ids) : i >= lo <=> Before(t, x, ids[i])
           /\ \E hi \in (lo - 1)..Len(ids) : PageAt(t, page, ids, lo, hi)
<1> DEFINE items == Listing(t)
           key == Key(t, ItemOf(t, x))
           beyond == {i \in DOMAIN items : Beyond(t, items[i], key)}
           lo == SearchFirst(items, beyond)
<1>1. /\ items \in Seq(PostRec \cup CommentRec) /\ Len(ids) = Len(items)
      /\ ids \in Seq(Listed(t)) /\ Ordered(ids, Sequence(t))
      /\ \A i \in 1..Len(ids) : items[i] = ItemOf(t, ids[i])
  BY WholeListing
<1>2. /\ Len(items) \in Nat /\ DOMAIN items = 1..Len(ids) /\ Len(ids) \in Nat
      /\ \A i \in 1..Len(ids) : ids[i] \in Listed(t)
  <2> HIDE DEF items
  <2>1. Len(items) \in Nat /\ DOMAIN items = 1..Len(items)
    BY <1>1
  <2> QED BY <1>1, <2>1
<1>3. key # None /\ \A y \in Listed(t) : Beyond(t, ItemOf(t, y), key) <=> Before(t, x, y)
  BY BeyondMeansBefore
<1>4. Remaining(t, key) = SubSeq(items, lo, Len(items))
  BY <1>3 DEF Remaining
<1> HIDE DEF items, key
<1>5. \A i \in 1..Len(ids) : i \in beyond <=> Before(t, x, ids[i])
  BY <1>1, <1>2, <1>3
<1> HIDE DEF beyond
<1>6. /\ lo \in 1..(Len(items) + 1)
      /\ lo <= Len(items) => lo \in beyond
      /\ \A i \in 1..(lo - 1) : i \notin beyond
  BY <1>2, SearchFirstFacts
<1>7. page = paginate(t, SubSeq(items, lo, Len(items)), clampFirst(first))
  BY <1>4 DEF key
<1> HIDE DEF lo
<1>8. ASSUME NEW i \in 1..Len(ids) PROVE i >= lo <=> Before(t, x, ids[i])
  <2>1. CASE i < lo
    BY <1>5, <1>6, <2>1
  <2>2. CASE i = lo
    BY <1>1, <1>5, <1>6, <2>2
  <2>3. CASE lo < i
    <3>1. lo \in 1..Len(ids) /\ Before(t, x, ids[lo])
      BY <1>1, <1>2, <1>5, <1>6, <2>3
    <3>2. <<ids[lo], ids[i]>> \in Sequence(t)
      BY <1>1, <2>3, <3>1 DEF Ordered
    <3>3. Before(t, ids[lo], ids[i])
      BY <1>2, <3>1, <3>2, SequenceMeans
    <3>4. Before(t, x, ids[i])
      BY <1>2, <3>1, <3>3, BeforeIsOrder
    <3> QED BY <1>6, <2>3, <3>4
  <2> QED BY <1>2, <1>6, <2>1, <2>2, <2>3
<1>9. clampFirst(first) \in Nat \ {0} /\ lo \in 1..(Len(ids) + 1)
  BY <1>1, <1>6, clampFirstFacts
<1>10. items = Listing(t) /\ ids = IDsOf(items)
  BY DEF items
<1>11. \E hi \in (lo - 1)..Len(ids) : PageAt(t, page, ids, lo, hi)
  BY <1>7, <1>9, <1>10, PaginateFacts
<1> QED BY <1>8, <1>9, <1>11

-----------------------------------------------------------------------------
(* The scan: the inductive invariant. *)

\* In a list of comments of post t each comes after all that it is below.
Threaded(s, t) ==
  \A i \in 1..Len(s) : \A a \in Listed(t) :
    Extends(commentsByID[s[i]].path, commentsByID[a].path) => \E j \in 1..(i - 1) : s[j] = a

\* What a scan of the listing t may have seen: no item twice, all in order, every
\* reply after what it answers.
Walked(t, s) == /\ s \in Seq(Listed(t)) /\ Ordered(s, Sequence(t))
                /\ t # 0 => Threaded(s, t)

\* Item x is among those seen, or still to come if the scan is open.
Accounted(t, s, open, x) == \/ \E i \in 1..Len(s) : s[i] = x
                            \/ open /\ Before(t, s[Len(s)], x)

\* The items seen are in order, the cursor is that of the last of them, and what is
\* owed has been seen or is still ahead.
ScanInv ==
  /\ target \in PostIDs /\ phase \in {"idle", "open", "done"}
  /\ Walked(target, seen)
  /\ owed \subseteq Listed(target)
  /\ phase = "idle" => seen = <<>> /\ owed = {}
  /\ phase = "open" => /\ Len(seen) > 0
                       /\ cursor = Key(target, ItemOf(target, seen[Len(seen)]))
  /\ \A x \in owed : Accounted(target, seen, phase = "open", x)

\* Of the listing ids, what comes after all of old begins at lo.
Follows(t, old, ids, lo) ==
  \/ Len(old) = 0 /\ lo = 1
  \/ /\ Len(old) > 0
     /\ \A i \in 1..Len(ids) : i >= lo <=> Before(t, old[Len(old)], ids[i])

\* A page put behind what has been seen leaves every comment after those it is below:
\* an ancestor is in the listing, and if it is in no page it was there too late to be
\* before the last item seen, hence is on the page.
LEMMA PageKeepsThreads ==
  ASSUME StoreInv, NEW t \in PostIDs, t # 0,
         NEW ids \in Seq(Listed(t)), Ordered(ids, Sequence(t)),
         \A x \in Listed(t) : \E i \in 1..Len(ids) : ids[i] = x,
         NEW old \in Seq(Listed(t)), Ordered(old, Sequence(t)), Threaded(old, t),
         NEW lo \in 1..(Len(ids) + 1), NEW hi \in (lo - 1)..Len(ids),
         Follows(t, old, ids, lo),
         NEW new, new \in Seq(Listed(t)), Spliced(new, old, ids, lo, hi)
  PROVE  Threaded(new, t)
<1>0. /\ Len(new) = Len(old) + (hi - lo + 1)
      /\ \A i \in 1..Len(old) : new[i] = old[i]
      /\ \A i \in (Len(old) + 1)..Len(new) :
           lo + (i - Len(old)) - 1 \in lo..hi /\ new[i] = ids[lo + (i - Len(old)) - 1]
      /\ \A j \in lo..hi : /\ Len(old) + (j - lo) + 1 \in 1..Len(new)
                            /\ new[Len(old) + (j - lo) + 1] = ids[j]
  BY DEF Spliced
<1>7. \/ Len(old) = 0 /\ lo = 1
      \/ Len(old) > 0 /\ \A i \in 1..Len(ids) : i >= lo <=> Before(t, old[Len(old)], ids[i])
  BY DEF Follows
<1> DEFINE n == Len(ids)
           k == Len(old)
           path(x) == commentsByID[x].path
<1>1. /\ n \in Nat /\ k \in Nat /\ lo \in 1..(n + 1) /\ hi \in (lo - 1)..n
      /\ \A i \in 1..n : ids[i] \in Listed(t)
      /\ \A i \in 1..k : old[i] \in Listed(t)
      /\ \A i \in 1..Len(new) : new[i] \in Listed(t)
      /\ Len(new) = k + (hi - lo + 1)
  <2>1. /\ n \in Nat /\ k \in Nat
        /\ \A i \in 1..n : ids[i] \in Listed(t)
        /\ \A i \in 1..k : old[i] \in Listed(t)
        /\ \A i \in 1..Len(new) : new[i] \in Listed(t)
    BY ONLY ids \in Seq(Listed(t)), old \in Seq(Listed(t)), new \in Seq(Listed(t))
  <2> QED BY <1>0, <2>1
<1>2. \A x \in Listed(t) : path(x) \in Seq(Int)
  <2>1. ASSUME NEW x \in Listed(t) PROVE path(x) \in Seq(Int)
    <3>1. ItemOf(t, x) \in CommentRec /\ ItemOf(t, x) = commentsByID[x]
      BY ONLY StoreInv, t # 0, x \in Listed(t), ItemTypes
    <3> QED BY <3>1, CommentTypes
  <2> QED BY <2>1
<1>3. \A x, y \in Listed(t) : Before(t, x, y) <=> StringLess(path(x), path(y))
  BY DEF Before
<1> HIDE DEF n, k, path
<1> SUFFICES ASSUME NEW i \in 1..Len(new), NEW a \in Listed(t),
                    Extends(path(new[i]), path(a))
             PROVE  \E j \in 1..(i - 1) : new[j] = a
  BY DEF Threaded, path
<1>4. i \in Nat \ {0} /\ new[i] \in Listed(t)
  BY <1>1
<1>5. CASE i <= k
  <2>1. i \in 1..k /\ new[i] = old[i]
    BY <1>0, <1>1, <1>5 DEF k
  <2>2. PICK j \in 1..(i - 1) : old[j] = a
    BY <2>1 DEF Threaded, path, k
  <2>3. j \in 1..k
    BY <1>1, <1>5, <2>2
  <2>4. new[j] = a
    BY <1>0, <2>2, <2>3 DEF k
  <2> QED BY <2>2, <2>4
<1>6. CASE k < i
  <2> DEFINE m == lo + (i - k) - 1
             r == new[i]
  <2>1. m \in lo..hi /\ r = ids[m]
    <3>1. i \in (k + 1)..Len(new)
      BY <1>1, <1>6
    <3> QED BY <1>0, <3>1 DEF k
  <2>2. k + (m - lo) + 1 = i
    BY <1>1, <1>4
  <2> HIDE DEF m, r
  <2>3. m \in 1..n
    BY <1>1, <2>1
  <2>4. Before(t, a, r)
    <3>1. StringLess(path(a), path(r))
      BY <1>2, <1>4, ExtensionIsGreater DEF r
    <3> QED BY <1>3, <1>4, <3>1 DEF r
  <2>5. PICK l \in 1..n : ids[l] = a
    BY DEF n
  <2>6. l < m
    <3>1. CASE m < l
      <4>1. <<ids[m], ids[l]>> \in Sequence(t)
        BY <1>1, <2>3, <3>1 DEF Ordered, n
      <4>2. Before(t, r, a)
        BY <1>1, <2>1, <2>3, <2>5, <4>1, SequenceMeans
      <4> QED BY <1>4, <2>4, <4>2, BeforeIsOrder DEF r
    <3>2. CASE m = l
      BY <2>1, <2>4, <2>5, <3>2, BeforeIsOrder
    <3> QED BY <1>1, <2>3, <3>1, <3>2
  <2>7. CASE lo <= l
    <3> DEFINE j == k + (l - lo) + 1
    <3>1. l \in lo..hi /\ j \in 1..(i - 1)
      <4>1. /\ k \in Nat /\ l \in Nat /\ m \in lo..hi /\ lo \in Nat /\ hi \in Int /\ i \in Nat
            /\ k + (m - lo) + 1 = i
        BY <1>1, <1>4, <2>1, <2>2
      <4> QED BY ONLY <2>6, <2>7, <4>1
    <3>2. new[j] = a
      BY <1>0, <2>5, <3>1 DEF k
    <3> HIDE DEF j
    <3> QED BY <3>1, <3>2
  <2>8. CASE l < lo
    <3> DEFINE x == old[k]
    <3>1. k > 0 /\ k \in 1..k /\ \A p \in 1..n : p >= lo <=> Before(t, x, ids[p])
      <4>1. lo # 1
        BY <1>1, <2>8
      <4>2. k > 0 /\ \A p \in 1..n : p >= lo <=> Before(t, x, ids[p])
        BY <1>7, <4>1 DEF k, n
      <4>3. k \in Nat
        BY <1>1
      <4> QED BY ONLY <4>2, <4>3
    <3>2. x \in Listed(t) /\ new[k] = x /\ k \in 1..(i - 1)
      <4>1. x \in Listed(t)
        BY <1>1, <3>1
      <4>2. new[k] = x
        BY <1>0, <3>1 DEF k
      <4>3. k \in 1..(i - 1)
        BY ONLY <1>1, <1>4, <1>6, <3>1
      <4> QED BY <4>1, <4>2, <4>3
    <3>3. ~Before(t, x, a)
      <4>1. ~(l >= lo)
        BY <1>1, <2>8
      <4> QED BY <2>5, <3>1, <4>1
    <3>4. Before(t, x, r)
      <4>1. m >= lo
        BY <1>1, <2>1
      <4> QED BY <2>1, <2>3, <3>1, <4>1
    <3> HIDE DEF x
    <3>5. CASE a = x
      BY <3>2, <3>5
    <3>6. CASE a # x
      <4>1. Before(t, a, x)
        BY <3>2, <3>3, <3>6, BeforeIsOrder
      <4>2. ~Before(t, r, x)
        BY <1>4, <3>2, <3>4, BeforeIsOrder DEF r
      <4>3. StringLess(path(a), path(x)) /\ ~StringLess(path(r), path(x))
        BY <1>3, <1>4, <3>2, <4>1, <4>2 DEF r
      <4>4. Extends(path(x), path(a))
        BY <1>2, <1>4, <3>2, <4>3, BetweenExtensions DEF r
      <4>5. PICK j \in 1..(k - 1) : old[j] = a
        BY <3>1, <4>4 DEF Threaded, path, x, k
      <4>6. j \in 1..k /\ j \in 1..(i - 1)
        BY <1>1, <1>4, <1>6, <4>5
      <4>7. new[j] = a
        BY <1>0, <4>5, <4>6 DEF k
      <4> QED BY <4>6, <4>7
    <3> QED BY <3>5, <3>6
  <2> QED BY <1>1, <2>7, <2>8
<1> QED BY <1>1, <1>4, <1>5, <1>6

\* One page more: order and threads are kept, the cursor is that of the last item,
\* and an item that was seen or still ahead is one or the other.
LEMMA PageIsAppended ==
  ASSUME StoreInv, NEW t \in PostIDs, NEW ids, ids = IDsOf(Listing(t)),
         NEW old, Walked(t, old), NEW page, NEW lo, NEW hi, PageAt(t, page, ids, lo, hi),
         Follows(t, old, ids, lo), NEW new, new = old \o IDsOf(page.items)
  PROVE  /\ Walked(t, new)
         /\ page.next # None => /\ Len(new) > 0
                                /\ page.next = Key(t, ItemOf(t, new[Len(new)]))
         /\ \A x \in Listed(t) : Len(old) = 0 \/ Accounted(t, old, TRUE, x)
                                 => Accounted(t, new, page.next # None, x)
<1>0. /\ old \in Seq(Listed(t)) /\ Ordered(old, Sequence(t)) /\ (t # 0 => Threaded(old, t))
      /\ lo \in 1..(Len(ids) + 1) /\ hi \in (lo - 1)..Len(ids)
  BY DEF Walked, PageAt
<1> DEFINE n == Len(ids)
           k == Len(old)
           L == Listed(t)
           R == Sequence(t)
<1>1. /\ ids \in Seq(L) /\ Ordered(ids, R)
      /\ \A x \in L : \E i \in 1..n : ids[i] = x
  BY WholeListing
<1>2. /\ n \in Nat /\ k \in Nat
      /\ \A i \in 1..n : ids[i] \in L
      /\ \A i \in 1..k : old[i] \in L
  <2> HIDE DEF L
  <2>1. old \in Seq(L)
    BY <1>0 DEF L
  <2> QED BY ONLY <1>1, <2>1
<1>3. new = old \o SubSeq(ids, lo, hi)
  BY DEF PageAt
<1>4. ASSUME NEW i \in 1..k, NEW j \in lo..hi PROVE <<old[i], ids[j]>> \in R
  <2>1. i \in Nat /\ k \in 1..k /\ j \in 1..n /\ j >= lo /\ k > 0
    BY <1>0, <1>2
  <2>2. Before(t, old[k], ids[j])
    BY <2>1 DEF Follows
  <2>3. Before(t, old[i], ids[j])
    <3>1. CASE i = k
      BY <2>2, <3>1
    <3>2. CASE i < k
      <4>1. <<old[i], old[k]>> \in R
        BY <1>0, <2>1, <3>2 DEF Ordered
      <4>2. Before(t, old[i], old[k])
        BY <1>2, <2>1, <4>1, SequenceMeans
      <4> QED BY <1>2, <2>1, <2>2, <4>2, BeforeIsOrder
    <3> QED BY <1>2, <2>1, <3>1, <3>2
  <2> QED BY <1>2, <2>1, <2>3, SequenceMeans
<1>9. old \in Seq(L) /\ Ordered(old, R)
  BY <1>0
<1> HIDE DEF R, L
<1>5. new \in Seq(L) /\ Ordered(new, R) /\ Spliced(new, old, ids, lo, hi)
  <2>1. Leads(L, R, old, ids, lo, hi)
    BY <1>0, <1>1, <1>4, <1>9 DEF Leads
  <2> QED BY ONLY <1>3, <2>1, ConcatKeepsOrdered
<1>6. ASSUME t # 0 PROVE Threaded(new, t)
  <2>1. Threaded(old, t)
    BY <1>0, <1>6
  <2> QED BY ONLY StoreInv, t \in PostIDs, <1>0, <1>1, <1>5, <1>6, <1>9, <2>1,
                  Follows(t, old, ids, lo), PageKeepsThreads DEF R, L
<1>10. /\ Len(new) = k + (hi - lo + 1)
       /\ \A i \in 1..k : new[i] = old[i]
       /\ \A j \in lo..hi : /\ k + (j - lo) + 1 \in 1..Len(new)
                             /\ new[k + (j - lo) + 1] = ids[j]
  BY <1>5 DEF Spliced
<1>7. ASSUME page.next # None
      PROVE  /\ Len(new) > 0 /\ lo <= hi /\ new[Len(new)] = ids[hi] /\ hi \in 1..n
             /\ page.next = Key(t, ItemOf(t, new[Len(new)]))
  <2>1. lo <= hi /\ page.next = Key(t, ItemOf(t, ids[hi]))
    BY <1>7 DEF PageAt
  <2>2. hi \in lo..hi /\ k + (hi - lo) + 1 = Len(new) /\ hi \in 1..n /\ Len(new) > 0
    BY <1>0, <1>2, <1>10, <2>1
  <2>3. new[Len(new)] = ids[hi]
    BY <1>10, <2>2
  <2> QED BY <2>1, <2>2, <2>3
<1>8. ASSUME NEW x \in L,
             k = 0 \/ (\E i \in 1..k : old[i] = x) \/ Before(t, old[k], x)
      PROVE  \/ \E i \in 1..Len(new) : new[i] = x
             \/ page.next # None /\ Before(t, new[Len(new)], x)
  <2>1. PICK l \in 1..n : ids[l] = x
    BY <1>1
  <2>2. CASE \E i \in 1..k : old[i] = x
    <3>1. PICK i \in 1..k : old[i] = x
      BY <2>2
    <3>2. i \in 1..Len(new)
      BY <1>0, <1>2, <1>10
    <3> QED BY <1>10, <3>1, <3>2
  <2>3. CASE ~\E i \in 1..k : old[i] = x
    <3>1. l >= lo
      <4>1. CASE k = 0
        BY <2>1, <4>1 DEF Follows
      <4>2. CASE k # 0
        <5>1. Before(t, old[k], ids[l])
          BY <1>8, <2>1, <2>3, <4>2
        <5> QED BY <2>1, <4>2, <5>1 DEF Follows
      <4> QED BY <4>1, <4>2
    <3>2. CASE l <= hi
      <4>1. l \in lo..hi
        BY <3>1, <3>2
      <4> QED BY <1>10, <2>1, <4>1
    <3>3. CASE hi < l
      <4>1. page.next # None
        BY <1>2, <3>3 DEF PageAt
      <4>2. new[Len(new)] = ids[hi] /\ hi \in 1..n
        BY <1>7, <4>1
      <4>3. <<ids[hi], ids[l]>> \in R
        BY <1>1, <3>3, <4>2 DEF Ordered
      <4>4. Before(t, ids[hi], ids[l])
        BY <1>2, <4>2, <4>3, SequenceMeans DEF R, L
      <4>5. Before(t, new[Len(new)], x)
        BY ONLY <2>1, <4>2, <4>4
      <4> QED BY <4>1, <4>5
    <3>4. l \in Int /\ hi \in Int
      BY <1>0, <1>2
    <3>5. l <= hi \/ hi < l
      BY ONLY <3>4
    <3> QED BY ONLY <3>2, <3>3, <3>5
  <2> QED BY <2>2, <2>3
<1>11. ASSUME NEW x \in L, Len(old) = 0 \/ Accounted(t, old, TRUE, x)
       PROVE  Accounted(t, new, page.next # None, x)
  BY <1>8, <1>11 DEF Accounted
<1> QED BY <1>5, <1>6, <1>7, <1>11 DEF R, L, Walked

LEMMA ScanInvAtInit == ASSUME StoreInv, ScanInit PROVE ScanInv
<1>1. /\ phase = "idle" /\ target = 0 /\ seen = <<>> /\ owed = {} /\ target \in PostIDs
      /\ Len(seen) = 0 /\ seen \in Seq(Listed(target))
  BY MemoryAssumption DEF ScanInit, PostIDs
<1> QED BY <1>1 DEF ScanInv, Walked, Threaded, Ordered

\* A page reads the store and does not change it.
APage == \/ \E t \in PostIDs, first \in Firsts : FirstPage(t, first)
         \/ \E first \in Firsts : NextPage(first)

LEMMA PageStep ==
  ASSUME StoreInv, ScanInv, APage
  PROVE  ScanInv'
\* What is common to both: a page follows what has been seen, if anything.
<1>1. ASSUME NEW t \in PostIDs, NEW ids, ids = IDsOf(Listing(t)),
             NEW old, Walked(t, old), NEW page, NEW lo, NEW hi,
             PageAt(t, page, ids, lo, hi), Follows(t, old, ids, lo),
             NEW owing, owing \subseteq Listed(t),
             \A x \in owing : Len(old) = 0 \/ Accounted(t, old, TRUE, x),
             seen' = old \o IDsOf(page.items), cursor' = page.next,
             phase' = (IF page.next = None THEN "done" ELSE "open"),
             target' = t, owed' = owing, UNCHANGED <<postsByID, commentsByID>>
      PROVE  ScanInv'
  <2> DEFINE new == old \o IDsOf(page.items)
  <2>1. new = old \o IDsOf(page.items)
    OBVIOUS
  <2>2. seen' = new
    BY <1>1
  <2> HIDE DEF new
  <2>3. /\ Walked(t, new)
        /\ page.next # None => /\ Len(new) > 0
                               /\ page.next = Key(t, ItemOf(t, new[Len(new)]))
        /\ \A x \in Listed(t) : Len(old) = 0 \/ Accounted(t, old, TRUE, x)
                                => Accounted(t, new, page.next # None, x)
    BY <1>1, <2>1, PageIsAppended
  <2>4. /\ Listed(target)' = Listed(t) /\ Sequence(target)' = Sequence(t)
        /\ target' # 0 => Threaded(seen, target)' = Threaded(new, t)
        /\ \A x : /\ ItemOf(target, x)' = ItemOf(t, x)
                  /\ Before(target, new[Len(new)], x)' = Before(t, new[Len(new)], x)
    BY <1>1, <2>2 DEF Listed, Sequence, Threaded, ItemOf, Before
  <2>5. Walked(target, seen)'
    BY <1>1, <2>2, <2>3, <2>4 DEF Walked
  <2>6. target' \in PostIDs /\ phase' \in {"open", "done"} /\ owed' \subseteq Listed(target)'
    BY <1>1, <2>4
  <2>7. (phase' = "open") <=> page.next # None
    BY <1>1
  <2>8. ASSUME phase' = "open"
        PROVE  (Len(seen) > 0 /\ cursor = Key(target, ItemOf(target, seen[Len(seen)])))'
    <3>1. /\ Len(new) > 0 /\ page.next = Key(t, ItemOf(t, new[Len(new)]))
      BY <2>3, <2>7, <2>8
    <3>2. ItemOf(target, seen[Len(seen)])' = ItemOf(t, new[Len(new)])
      BY <1>1, <2>2 DEF ItemOf
    <3> QED BY <1>1, <2>2, <3>1, <3>2 DEF Key
  <2>9. ASSUME NEW x \in owed' PROVE Accounted(target, seen, phase = "open", x)'
    <3>1. Accounted(t, new, page.next # None, x)
      BY <1>1, <2>3, <2>9
    <3> QED BY <1>1, <2>2, <2>4, <2>7, <3>1 DEF Accounted
  <2> QED BY <2>5, <2>6, <2>8, <2>9 DEF ScanInv
<1>2. ASSUME NEW t \in PostIDs, NEW first \in Firsts, FirstPage(t, first) PROVE ScanInv'
  <2> DEFINE ids == IDsOf(Listing(t))
             page == paginate(t, Remaining(t, None), clampFirst(first))
  <2>1. PICK hi \in 0..Len(ids) : PageAt(t, page, ids, 1, hi)
    BY FirstPageFacts
  <2>2. Walked(t, <<>>) /\ Follows(t, <<>>, ids, 1) /\ Len(<<>>) = 0
    BY DEF Walked, Ordered, Threaded, Follows
  <2>3. ToSet(ids) \subseteq Listed(t)
    <3>1. ids \in Seq(Listed(t))
      BY WholeListing
    <3> QED BY <3>1 DEF ToSet
  <2>4. /\ seen' = <<>> \o IDsOf(page.items) /\ cursor' = page.next
        /\ phase' = (IF page.next = None THEN "done" ELSE "open")
        /\ target' = t /\ owed' = ToSet(ids) /\ UNCHANGED <<postsByID, commentsByID>>
    BY <1>2 DEF FirstPage, ReadPage, vars
  <2> HIDE DEF page
  <2> QED BY <1>1, <2>1, <2>2, <2>3, <2>4
<1>3. ASSUME NEW first \in Firsts, NextPage(first) PROVE ScanInv'
  <2> DEFINE t == target
             ids == IDsOf(Listing(t))
             x == seen[Len(seen)]
             page == paginate(t, Remaining(t, Key(t, ItemOf(t, x))), clampFirst(first))
  <2>1. /\ t \in PostIDs /\ Walked(t, seen) /\ Len(seen) > 0 /\ seen \in Seq(Listed(t))
        /\ cursor = Key(t, ItemOf(t, x))
        /\ owed \subseteq Listed(t) /\ \A y \in owed : Accounted(t, seen, TRUE, y)
    BY <1>3 DEF NextPage, ScanInv, Walked
  <2>2. x \in Listed(t)
    BY <2>1
  <2>3. PICK lo \in 1..(Len(ids) + 1) :
          /\ \A i \in 1..Len(ids) : i >= lo <=> Before(t, x, ids[i])
          /\ \E hi \in (lo - 1)..Len(ids) : PageAt(t, page, ids, lo, hi)
    BY <2>1, <2>2, NextPageFacts
  <2>4. PICK hi \in (lo - 1)..Len(ids) : PageAt(t, page, ids, lo, hi)
    BY <2>3
  <2>5. Follows(t, seen, ids, lo)
    BY <2>1, <2>3 DEF Follows
  <2>6. cursor # None
    BY <2>1, <2>2, BeyondMeansBefore
  <2>7. /\ seen' = seen \o IDsOf(page.items) /\ cursor' = page.next
        /\ phase' = (IF page.next = None THEN "done" ELSE "open")
        /\ target' = t /\ owed' = owed /\ UNCHANGED <<postsByID, commentsByID>>
    BY <1>3, <2>1, <2>6 DEF NextPage, ReadPage, vars
  <2> HIDE DEF page, x
  <2> QED BY <1>1, <2>1, <2>4, <2>5, <2>7
<1> QED BY <1>2, <1>3 DEF APage

\* A write changes no sort key and no comment; a comment it adds has the greatest id.
LEMMA ItemsStay ==
  ASSUME StoreInv, [Next]_vars
  PROVE  /\ DOMAIN postsByID \subseteq DOMAIN postsByID'
         /\ \A x \in DOMAIN postsByID : /\ postsByID'[x].id = postsByID[x].id
                                        /\ postsByID'[x].createdAt = postsByID[x].createdAt
         /\ DOMAIN commentsByID \subseteq DOMAIN commentsByID'
         /\ \A x \in DOMAIN commentsByID : commentsByID'[x] = commentsByID[x]
         /\ \A x \in DOMAIN commentsByID, y \in DOMAIN commentsByID' :
              y \notin DOMAIN commentsByID => x < y
<1> DEFINE Kept == /\ DOMAIN postsByID \subseteq DOMAIN postsByID'
                   /\ \A x \in DOMAIN postsByID :
                        /\ postsByID'[x].id = postsByID[x].id
                        /\ postsByID'[x].createdAt = postsByID[x].createdAt
<1>1. /\ nextPostID \in Nat /\ DOMAIN postsByID \subseteq 1..nextPostID
      /\ \A x \in DOMAIN postsByID : postsByID[x] \in PostRec /\ postsByID[x].id = x
      /\ nextCommentID \in Nat /\ DOMAIN commentsByID \subseteq 1..nextCommentID
  BY MemoryAssumption DEF StoreInv, PostsInv, Mirrored, CommentsInv, ThreadsInv
<1>2. ASSUME NEW p, postsByID' = With(postsByID, p.id, p),
             p.id \in DOMAIN postsByID => p.createdAt = postsByID[p.id].createdAt
      PROVE  Kept
  BY <1>1, <1>2 DEF With
<1>3. ASSUME NEW author \in Users, NEW titleOK \in BOOLEAN, NEW bodyOK \in BOOLEAN,
             NEW now \in Times, CreatePost(author, titleOK, bodyOK, now),
             PostError(titleOK, bodyOK) = "none"
      PROVE  Kept
  <2> DEFINE p == [id |-> NewPostID, author |-> author, createdAt |-> now,
                   allowed |-> TRUE, deleted |-> FALSE]
  <2>1. postsByID' = With(postsByID, p.id, p)
    BY <1>3 DEF CreatePost
  <2>2. p.id \notin DOMAIN postsByID
    BY <1>1 DEF NewPostID
  <2> HIDE DEF p, Kept
  <2> QED BY ONLY <1>2, <2>1, <2>2
<1>4. ASSUME NEW id \in PostIDs, NEW user \in Users, NEW allowed \in BOOLEAN,
             SetCommentsAllowed(id, user, allowed), SwitchError(id, user) = "none"
      PROVE  Kept
  <2> DEFINE p == [postsByID[id] EXCEPT !.allowed = allowed]
  <2>1. id \in DOMAIN postsByID
    BY <1>4 DEF SwitchError, LivePost
  <2>2. p.id = id /\ p.createdAt = postsByID[id].createdAt
    BY <1>1, <2>1 DEF PostRec
  <2>3. postsByID' = With(postsByID, id, p)
    BY <1>4 DEF SetCommentsAllowed
  <2> HIDE DEF p, Kept
  <2> QED BY ONLY <1>2, <2>2, <2>3
<1>5. ASSUME NEW bodyOK \in BOOLEAN, NEW post \in PostIDs,
             NEW parent \in CommentIDs \cup {Nil}, CreateComment(bodyOK, post, parent),
             CommentError(bodyOK, post, parent) = "none"
      PROVE  \E c : commentsByID' = With(commentsByID, nextCommentID + 1, c)
  BY <1>5 DEF CreateComment
<1>6. ASSUME NEW c, commentsByID' = With(commentsByID, nextCommentID + 1, c)
      PROVE  /\ DOMAIN commentsByID \subseteq DOMAIN commentsByID'
             /\ \A x \in DOMAIN commentsByID : commentsByID'[x] = commentsByID[x]
             /\ \A x \in DOMAIN commentsByID, y \in DOMAIN commentsByID' :
                  y \notin DOMAIN commentsByID => x < y
  BY <1>1, <1>6 DEF With
<1>7. CASE UNCHANGED postsByID
  <2>1. commentsByID' = commentsByID \/ \E c : commentsByID' = With(commentsByID, nextCommentID + 1, c)
    <3>1. \/ commentsByID' = commentsByID
          \/ \E bodyOK \in BOOLEAN, post \in PostIDs, parent \in CommentIDs \cup {Nil} :
               CreateComment(bodyOK, post, parent)
      BY DEF Next, vars, CreatePost, SetCommentsAllowed
    <3>2. ASSUME NEW bodyOK \in BOOLEAN, NEW post \in PostIDs,
                 NEW parent \in CommentIDs \cup {Nil}, CreateComment(bodyOK, post, parent),
                 CommentError(bodyOK, post, parent) # "none"
          PROVE  commentsByID' = commentsByID
      BY <3>2 DEF CreateComment
    <3> QED BY <1>5, <3>1, <3>2
  <2> QED BY <1>6, <1>7, <2>1
<1>8. CASE ~UNCHANGED postsByID
  <2>1. \/ \E author \in Users, titleOK, bodyOK \in BOOLEAN, now \in Times :
             CreatePost(author, titleOK, bodyOK, now)
        \/ \E id \in PostIDs, user \in Users, allowed \in BOOLEAN :
             SetCommentsAllowed(id, user, allowed)
    BY <1>8 DEF Next, vars, CreateComment
  <2>2. ASSUME NEW author \in Users, NEW titleOK \in BOOLEAN, NEW bodyOK \in BOOLEAN,
               NEW now \in Times, CreatePost(author, titleOK, bodyOK, now)
        PROVE  commentsByID' = commentsByID /\ PostError(titleOK, bodyOK) = "none"
    BY <1>8, <2>2 DEF CreatePost
  <2>3. ASSUME NEW id \in PostIDs, NEW user \in Users, NEW allowed \in BOOLEAN,
               SetCommentsAllowed(id, user, allowed)
        PROVE  commentsByID' = commentsByID /\ SwitchError(id, user) = "none"
    BY <1>8, <2>3 DEF SetCommentsAllowed
  <2>4. commentsByID' = commentsByID
    BY <2>1, <2>2, <2>3
  <2>5. Kept
    <3> HIDE DEF Kept
    <3> QED BY ONLY <1>3, <1>4, <2>1, <2>2, <2>3
  <2> QED BY <2>4, <2>5
<1> QED BY <1>7, <1>8

\* What a client has seen stays in order, and no comment written later belongs above
\* one that it has seen.
LEMMA WriteStep ==
  ASSUME StoreInv, StoreInv', ScanInv, [Next]_vars, UNCHANGED scanVars
  PROVE  ScanInv'
<1> DEFINE t == target
<1>1. /\ UNCHANGED <<phase, target, cursor, seen, owed>>
      /\ t \in PostIDs /\ seen \in Seq(Listed(t)) /\ Ordered(seen, Sequence(t))
      /\ t # 0 => Threaded(seen, t)
  BY DEF scanVars, ScanInv, Walked
<1>2. Listed(t) \subseteq Listed(t)'
  BY <1>1, ItemsStay DEF Listed
<1>3. ASSUME NEW x \in Listed(t), NEW y \in Listed(t) PROVE Before(t, x, y)' <=> Before(t, x, y)
  <2>1. CASE t = 0
    <3>1. x \in DOMAIN postsByID /\ y \in DOMAIN postsByID
      BY <2>1 DEF Listed
    <3> QED BY <1>1, <2>1, <3>1, ItemsStay DEF Before, Newer
  <2>2. CASE t # 0
    <3>1. x \in DOMAIN commentsByID /\ y \in DOMAIN commentsByID
      BY <2>2 DEF Listed
    <3> QED BY <1>1, <2>2, <3>1, ItemsStay DEF Before
  <2> QED BY <2>1, <2>2
<1>4. ASSUME NEW x \in Listed(t) PROVE Key(t, ItemOf(t, x))' = Key(t, ItemOf(t, x))
  <2>1. CASE t = 0
    <3>1. x \in DOMAIN postsByID
      BY <2>1 DEF Listed
    <3> QED BY <1>1, <2>1, <3>1, ItemsStay DEF Key, ItemOf
  <2>2. CASE t # 0
    <3>1. x \in DOMAIN commentsByID
      BY <2>2 DEF Listed
    <3> QED BY <1>1, <2>2, <3>1, ItemsStay DEF Key, ItemOf
  <2> QED BY <2>1, <2>2
<1>5. Len(seen) \in Nat /\ \A i \in 1..Len(seen) : seen[i] \in Listed(t)
  <2> HIDE DEF t
  <2> QED BY <1>1
<1>6. seen \in Seq(Listed(t)')
  BY <1>1, <1>2
<1>7. Ordered(seen, Sequence(t)')
  <2> SUFFICES ASSUME NEW i \in 1..Len(seen), NEW j \in 1..Len(seen), i < j
               PROVE  <<seen[i], seen[j]>> \in Sequence(t)'
    BY DEF Ordered
  <2>1. Before(t, seen[i], seen[j])
    BY <1>1, <1>5, SequenceMeans DEF Ordered
  <2>2. seen[i] \in Listed(t)' /\ seen[j] \in Listed(t)' /\ Before(t, seen[i], seen[j])'
    BY <1>1, <1>2, <1>3, <1>5, <2>1
  <2> QED BY <1>1, <2>2 DEF Sequence
<1>8. ASSUME t # 0 PROVE Threaded(seen, t)'
  <2> SUFFICES ASSUME NEW i \in 1..Len(seen), NEW a \in Listed(t)',
                      Extends(commentsByID'[seen[i]].path, commentsByID'[a].path)
               PROVE  \E j \in 1..(i - 1) : seen[j] = a
    BY <1>1 DEF Threaded
  <2>1. seen[i] \in DOMAIN commentsByID /\ a \in DOMAIN commentsByID'
    BY <1>1, <1>5, <1>8 DEF Listed
  <2>2. CASE a \in DOMAIN commentsByID
    <3>1. a \in Listed(t)
      BY <1>1, <1>8, <2>2, ItemsStay DEF Listed
    <3>2. Extends(commentsByID[seen[i]].path, commentsByID[a].path)
      BY <2>1, <2>2, ItemsStay
    <3> QED BY <1>1, <1>8, <3>1, <3>2 DEF Threaded
  <2>3. CASE a \notin DOMAIN commentsByID
    <3> DEFINE cs == commentsByID'
    <3>1. Answering(cs) /\ Pathed(cs, PathsOf(cs), Text)
      BY DEF StoreInv, CommentsInv, ThreadsInv
    <3>2. seen[i] \in DOMAIN cs /\ a \in DOMAIN cs
      BY <2>1, ItemsStay
    <3>3. Extends(PathsOf(cs)[seen[i]], PathsOf(cs)[a])
      BY <3>2 DEF PathsOf
    <3> HIDE DEF cs
    <3>4. a \in Ancestors(cs)[seen[i]]
      BY <3>1, <3>2, <3>3, TextIsNumerals, ExtendedIsAncestor
    <3>5. a < seen[i]
      BY <3>1, <3>2, <3>4, AncestorsAreOlder
    <3>6. seen[i] < a
      BY <2>1, <2>3, ItemsStay
    <3>7. a \in Nat /\ seen[i] \in Nat
      BY <3>1, <3>2 DEF Answering
    <3> QED BY <3>5, <3>6, <3>7
  <2> QED BY <2>2, <2>3
<1>9. Walked(target, seen)'
  BY <1>1, <1>6, <1>7, <1>8 DEF Walked
<1>10. (phase = "open" => /\ Len(seen) > 0
                          /\ cursor = Key(target, ItemOf(target, seen[Len(seen)])))'
  BY <1>1, <1>4, <1>5 DEF ScanInv
<1>11. ASSUME NEW x \in owed PROVE Accounted(target, seen, phase = "open", x)'
  <2>1. Accounted(t, seen, phase = "open", x) /\ x \in Listed(t)
    BY DEF ScanInv
  <2>2. phase = "open" => seen[Len(seen)] \in Listed(t)
    BY <1>5 DEF ScanInv
  <2> QED BY <1>1, <1>3, <2>1, <2>2 DEF Accounted
<1> QED BY <1>1, <1>2, <1>9, <1>10, <1>11 DEF ScanInv

-----------------------------------------------------------------------------
(* The scan: the theorems. *)

LEMMA ScanInvAlways == ScanSpec => [](StoreInv /\ ScanInv)
<1>1. ScanInit => StoreInv /\ ScanInv
  BY StoreInvAtInit, ScanInvAtInit DEF ScanInit
<1>2. ASSUME StoreInv, ScanInv, [ScanNext]_<<vars, scanVars>> PROVE StoreInv' /\ ScanInv'
  <2>1. CASE UNCHANGED scanVars /\ [Next]_vars
    BY <1>2, <2>1, StoreInvStep, WriteStep
  <2>2. CASE APage
    <3>1. [Next]_vars
      BY <2>2 DEF APage, FirstPage, NextPage
    <3> QED BY <1>2, <2>2, <3>1, StoreInvStep, PageStep
  <2>3. ([Next]_vars /\ UNCHANGED scanVars) \/ APage
    BY <1>2 DEF ScanNext, Write, APage
  <2> QED BY <2>1, <2>2, <2>3
<1> QED BY <1>1, <1>2, PTL DEF ScanSpec

\* Whatever is written between two pages, and whatever the clock says then, no page
\* repeats an item of an earlier one or goes back in the order.
THEOREM ScansGoForward == ScanSpec => []ScanInOrder
<1>1. StoreInv /\ ScanInv => ScanInOrder
  <2> SUFFICES ASSUME StoreInv, ScanInv, NEW i \in DOMAIN seen, NEW j \in DOMAIN seen, i < j
               PROVE  Before(target, seen[i], seen[j])
    BY DEF ScanInOrder
  <2>1. seen \in Seq(Listed(target)) /\ Ordered(seen, Sequence(target))
    BY DEF ScanInv, Walked
  <2>2. i \in 1..Len(seen) /\ j \in 1..Len(seen)
    BY <2>1
  <2>3. seen[i] \in Listed(target) /\ seen[j] \in Listed(target)
    BY <2>1
  <2> QED BY <2>1, <2>2, <2>3, SequenceMeans DEF Ordered
<1> QED BY <1>1, ScanInvAlways, PTL

\* A scan that has come to the end has had every item that was there at its first
\* page: none falls between two pages.
THEOREM ScansMissNothing == ScanSpec => []ScanComplete
<1>1. StoreInv /\ ScanInv => ScanComplete
  <2> SUFFICES ASSUME ScanInv, phase = "done", NEW x \in owed PROVE x \in ToSet(seen)
    BY DEF ScanComplete
  <2>1. seen \in Seq(Listed(target)) /\ Accounted(target, seen, phase = "open", x)
    BY DEF ScanInv, Walked
  <2>2. PICK i \in 1..Len(seen) : seen[i] = x
    BY <2>1 DEF Accounted
  <2> QED BY <2>1, <2>2 DEF ToSet
<1> QED BY <1>1, ScanInvAlways, PTL

\* The tree built from the pages read so far has no reply for a root, though replies
\* and the comments they answer may have been created between any two pages.
THEOREM ScansKeepThreads == ScanSpec => []ScanKeepsThreads
<1>1. StoreInv /\ ScanInv => ScanKeepsThreads
  <2> SUFFICES ASSUME StoreInv, ScanInv, target # 0, NEW tree,
                      tree = BuildCommentTree([i \in DOMAIN seen |-> commentsByID[seen[i]]]),
                      NEW r \in DOMAIN tree.roots
               PROVE  commentsByID[tree.roots[r]].parent = Nil
    BY Zenon DEF ScanKeepsThreads
  <2> DEFINE s == [i \in DOMAIN seen |-> commentsByID[seen[i]]]
             ids == [i \in DOMAIN s |-> s[i].id]
             rootsAt == {i \in DOMAIN s : ~Attached(s, i)}
             cs == commentsByID
  <2>1. /\ seen \in Seq(Listed(target)) /\ Threaded(seen, target)
        /\ Answering(cs) /\ Pathed(cs, PathsOf(cs), Text)
    BY DEF ScanInv, Walked, StoreInv, CommentsInv, ThreadsInv
  <2>2. /\ DOMAIN seen = 1..Len(seen) /\ Len(seen) \in Nat
        /\ \A i \in 1..Len(seen) : seen[i] \in Listed(target)
    BY <2>1
  <2>3. \A c \in Listed(target) :
          /\ c \in DOMAIN cs /\ cs[c].id = c /\ cs[c].post = target
          /\ cs[c].parent # Nil => cs[c].parent \in Listed(target)
    BY DEF Listed, StoreInv, CommentsInv, ThreadsInv, Answering
  <2>4. ids = seen
    <3>1. DOMAIN ids = 1..Len(seen) /\ \A i \in 1..Len(seen) : ids[i] = seen[i]
      BY <2>2, <2>3
    <3>2. ids = [i \in 1..Len(seen) |-> ids[i]]
      BY <3>1
    <3>3. seen = [i \in 1..Len(seen) |-> seen[i]]
      BY <2>1
    <3> HIDE DEF ids
    <3> QED BY <3>1, <3>2, <3>3
  <2>5. tree.roots = Filter(seen, rootsAt)
    BY <2>4 DEF BuildCommentTree
  <2>6. ASSUME NEW i \in 1..Len(seen), cs[seen[i]].parent # Nil PROVE i \notin rootsAt
    <3> DEFINE a == cs[seen[i]].parent
    <3>1. seen[i] \in Listed(target) /\ seen[i] \in DOMAIN cs /\ a \in Listed(target)
          /\ a \in DOMAIN cs
      BY <2>2, <2>3, <2>6
    <3>2. Extends(cs[seen[i]].path, cs[a].path)
      <4>1. Extends(PathsOf(cs)[seen[i]], PathsOf(cs)[a])
        BY <2>1, <2>6, <3>1, TextIsNumerals, ParentIsExtended
      <4> QED BY <3>1, <4>1 DEF PathsOf
    <3>3. PICK j \in 1..(i - 1) : seen[j] = a
      BY <2>1, <3>1, <3>2 DEF Threaded
    <3>4. j \in 1..i /\ j \in DOMAIN seen
      BY <2>2, <3>3
    <3>5. s[j].id = a /\ s[i].parent = a
      BY <2>2, <2>3, <3>1, <3>3, <3>4
    <3>6. Attached(s, i)
      BY <2>6, <3>4, <3>5 DEF Attached
    <3> QED BY <3>6
  <2> HIDE DEF rootsAt
  <2>7. /\ tree.roots \in Seq(Listed(target))
        /\ \E picked : Picks(tree.roots, seen, rootsAt, Len(seen), picked)
    BY <2>1, <2>5, FilterFacts
  <2>8. r \in 1..Len(tree.roots)
    BY <2>7
  <2>9. PICK i \in 1..Len(seen) : i \in rootsAt /\ tree.roots[r] = seen[i]
    BY <2>7, <2>8 DEF Picks
  <2> QED BY <2>6, <2>9
<1> QED BY <1>1, ScanInvAlways, PTL
=============================================================================
