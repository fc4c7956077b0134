----------------------------- MODULE MemoryScan -----------------------------
(***************************************************************************)
(* A client walking a listing page by page, with the opaque cursor of the  *)
(* last page, while other clients write to the memory store.  One action   *)
(* reads one page: List and ListByPost hold the read lock for the whole of *)
(* it.  (ListComments calls GetPost first; no post is ever removed from    *)
(* this store, so the pair of calls answers as one.)                       *)
(*                                                                         *)
(* A cursor carries the sort key of the last item of its page: the encoded *)
(* form is decoded to the same key, nanoseconds included.                  *)
(***************************************************************************)
EXTENDS MemoryStore

CONSTANTS DefaultFirst, MaxFirst,   \* defaultFirst and maxFirst, 20 and 100
          Firsts                    \* values of the argument first, 0 if absent

ASSUME ScanAssumption == /\ MaxFirst \in Nat /\ DefaultFirst \in 1..MaxFirst
                         /\ Firsts \subseteq Int

VARIABLES phase,    \* "idle", "open" (a cursor is held) or "done"
          target,   \* the post whose comments are listed; 0: the list of posts
          cursor,   \* key of the last item seen, None without a cursor
          seen,     \* ids of the items of the pages so far
          owed      \* ids in the listing when the first page was read

scanVars == <<phase, target, cursor, seen, owed>>

None == <<>>

-----------------------------------------------------------------------------
clampFirst(first) == IF first <= 0 THEN DefaultFirst
                     ELSE IF first > MaxFirst THEN MaxFirst
                     ELSE first

Live(s) == Filter(s, {i \in DOMAIN s : ~s[i].deleted})

Listing(t) == Live(IF t = 0 THEN posts ELSE comments[t])

\* EncodePostCursor and EncodeCommentCursor.
Key(t, x) == IF t = 0 THEN <<x.createdAt, x.id>> ELSE x.path

strictlyOlder(p, createdAt, id) == IF p.createdAt = createdAt THEN p.id < id
                                   ELSE p.createdAt < createdAt

\* Mutant of Beyond: the comparison lets the item of the cursor through.
FromKeyOn(t, x, k) == IF t = 0 THEN strictlyOlder(x, k[1], k[2] + 1)
                      ELSE ~StringLess(x.path, k)

\* The items of the next pages: the test that List and ListByPost search with.
Beyond(t, x, k) == IF t = 0 THEN strictlyOlder(x, k[1], k[2])
                   ELSE StringLess(k, x.path)

Remaining(t, k) ==
  LET items == Listing(t)
  IN  IF k = None THEN items
      ELSE LET beyond == {i \in DOMAIN items : Beyond(t, items[i], k)}
           IN  SubSeq(items, SearchFirst(items, beyond), Len(items))

\* Mutant of paginate: the cursor is the first item not returned.
PaginateSkipping(t, items, limit) ==
  IF Len(items) > limit
  THEN [items |-> SubSeq(items, 1, limit), next |-> Key(t, items[limit + 1])]
  ELSE [items |-> items, next |-> None]

\* (The floor of 1 that paginate puts under limit is never used: clampFirst
\* answers at least 1.)
paginate(t, items, limit) ==
  IF Len(items) > limit
  THEN [items |-> SubSeq(items, 1, limit), next |-> Key(t, items[limit])]
  ELSE [items |-> items, next |-> None]

ReadPage(t, k, first) ==
  LET page == paginate(t, Remaining(t, k), clampFirst(first))
  IN  /\ seen' = (IF k = None THEN <<>> ELSE seen) \o IDsOf(page.items)
      /\ cursor' = page.next
      /\ phase' = IF page.next = None THEN "done" ELSE "open"

FirstPage(t, first) ==
  /\ phase = "idle"
  /\ t = 0 \/ LivePost(t)
  /\ ReadPage(t, None, first)
  /\ target' = t
  /\ owed' = ToSet(IDsOf(Listing(t)))
  /\ UNCHANGED vars

NextPage(first) ==
  /\ phase = "open"
  /\ ReadPage(target, cursor, first)
  /\ UNCHANGED <<target, owed>>
  /\ UNCHANGED vars

-----------------------------------------------------------------------------
ScanInit == /\ Init
            /\ phase = "idle" /\ target = 0 /\ cursor = None
            /\ seen = <<>> /\ owed = {}

Write == Next /\ UNCHANGED scanVars

ScanNext == \/ Write
            \/ \E t \in PostIDs, first \in Firsts : FirstPage(t, first)
            \/ \E first \in Firsts : NextPage(first)

ScanSpec == ScanInit /\ [][ScanNext]_<<vars, scanVars>>

-----------------------------------------------------------------------------
Before(t, a, b) == IF t = 0 THEN Newer(postsByID[a], postsByID[b])
                   ELSE StringLess(commentsByID[a].path, commentsByID[b].path)

\* Posts and comments created while a client pages through a listing, and a
\* clock that steps back between two pages, never make a page repeat an item
\* or go back in the order.
ScanInOrder == \A i, j \in DOMAIN seen : i < j => Before(target, seen[i], seen[j])

\* The scan misses nothing that was in the listing when it began.
ScanComplete == phase = "done" => owed \subseteq ToSet(seen)

\* At every page of a scan of comments a reply has come after the comment it
\* answers, even where both were created between two pages: the tree built
\* from the pages so far has no reply for a root.
ScanKeepsThreads ==
  target # 0 =>
    LET tree == BuildCommentTree([i \in DOMAIN seen |-> commentsByID[seen[i]]])
    IN  \A i \in DOMAIN tree.roots : commentsByID[tree.roots[i]].parent = Nil
=============================================================================
