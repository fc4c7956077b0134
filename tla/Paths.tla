------------------------------- MODULE Paths -------------------------------
(***************************************************************************)
(* The materialised path that a store gives a comment.  Base and IDWidth   *)
(* are 10 and 19 in the code, where 19 digits hold every int64.            *)
(***************************************************************************)
EXTENDS Threads

CONSTANTS Base, IDWidth

ASSUME PathAssumption == /\ Base \in Nat /\ Base >= 2
                         /\ IDWidth \in Nat /\ IDWidth >= 1

\* Mutant of PadID: "%d" in place of "%019d".
UnpaddedID(id) ==
  Digits(Base, CHOOSE n \in 1..IDWidth : /\ id < Pow(Base, n)
                                         /\ n = 1 \/ id >= Pow(Base, n - 1), id)

\* fmt.Sprintf("%019d", id), for an id that fits in the width.
PadID(id) == Digits(Base, IDWidth, id)

\* Mutant of ChildPath: no separator.
UndottedPath(parentPath, id) == parentPath \o PadID(id)

\* The path of comment id below a parent's path, <<>> for a top-level comment.
ChildPath(parentPath, id) ==
  IF parentPath = <<>> THEN PadID(id) ELSE parentPath \o <<Dot>> \o PadID(id)
=============================================================================
