------------------------------ MODULE Threads ------------------------------
(***************************************************************************)
(* Comment threads as data: the depth that a path tells, the relation from *)
(* a reply to the comments above it, the order in which threads are        *)
(* listed, and the tree that domain.BuildCommentTree makes of a listing.   *)
(***************************************************************************)
EXTENDS Slices

\* The ParentID pointer of a top-level comment.
Nil == -1

\* A path is a sequence of characters: a digit stands for itself and Dot for ".",
\* which sorts before every digit.
Dot == -1

\* strings.Count(path, "."), the depth field of the API.
Depth(path) == Cardinality({i \in DOMAIN path : path[i] = Dot})

\* [c |-> the comments above c], for a map cs of records with a parent field.
Ancestors(cs) ==
  LET above[c \in DOMAIN cs] ==
        IF cs[c].parent = Nil THEN {}
        ELSE {cs[c].parent} \cup above[cs[c].parent]
  IN  above

\* A comment comes after the one it answers with nothing between them but
\* comments of the same subtree, and siblings come by their ids.
DepthFirst(cs, listing) ==
  LET above == Ancestors(cs)
  IN  \A i, k \in DOMAIN listing :
        LET a == listing[i]  c == listing[k]
        IN  /\ a \in above[c] => i < k /\ \A j \in (i + 1)..k : a \in above[listing[j]]
            /\ cs[a].parent = cs[c].parent /\ a < c => i < k

-----------------------------------------------------------------------------
(***************************************************************************)
(* domain.BuildCommentTree: one pass over a listing.  A node hangs from    *)
(* its parent if the parent has already been met, else it is a root.       *)
(***************************************************************************)

\* Mutant of Attached: only roots are remembered as parents.
AttachedToRoot(cs, i) == /\ cs[i].parent # Nil
                         /\ \E j \in 1..i : /\ cs[j].id = cs[i].parent
                                           /\ cs[j].parent = Nil

Attached(cs, i) == /\ cs[i].parent # Nil
                   /\ \E j \in 1..i : cs[j].id = cs[i].parent

BuildCommentTree(cs) ==
  LET ids == [i \in DOMAIN cs |-> cs[i].id]
  IN  [roots    |-> Filter(ids, {i \in DOMAIN cs : ~Attached(cs, i)}),
       children |-> [p \in {ids[i] : i \in DOMAIN cs} |->
                       Filter(ids, {i \in DOMAIN cs : /\ Attached(cs, i)
                                                      /\ cs[i].parent = p})]]
=============================================================================
