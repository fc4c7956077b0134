------------------------------- MODULE Slices -------------------------------
(***************************************************************************)
(* What the program uses of the Go library, and of SQL, on slices, strings *)
(* and numbers.  The definitions are functions and choices of which every  *)
(* fact can be derived: module DataProofs has the facts.                   *)
(***************************************************************************)
EXTENDS Integers, Sequences, FiniteSets

\* b to the n.
Pow(b, n) ==
  LET power[k \in Nat] == IF k = 0 THEN 1 ELSE b * power[k - 1]
  IN  power[n]

\* fmt.Sprintf("%0*d", width, n), as characters, for an n that fits in the width;
\* the numeral is to any base.
Digits(base, width, n) == [i \in 1..width |-> (n \div Pow(base, width - i)) % base]

\* Go's < on strings: character by character, a proper prefix first.
StringLess(p, q) ==
  \E i \in 1..Len(q) :
    /\ i <= Len(p) + 1
    /\ \A j \in 1..(i - 1) : p[j] = q[j]
    /\ i <= Len(p) => p[i] < q[i]

\* sort.Search on a slice in which the indices that pass are the last ones: the
\* first of them, or the index after the slice.
SearchFirst(s, passing) ==
  CHOOSE k \in 1..(Len(s) + 1) : /\ k <= Len(s) => k \in passing
                                 /\ \A i \in 1..(k - 1) : i \notin passing

\* The loop that appends to a new slice the elements of s whose indices pass.
Filter(s, passing) ==
  LET kept[n \in Nat] == IF n = 0 THEN <<>>
                         ELSE IF n \in passing THEN Append(kept[n - 1], s[n])
                         ELSE kept[n - 1]
  IN  kept[Len(s)]

\* ORDER BY: the rows, each behind the rows that come before it.
OrderBy(rows, before) ==
  [k \in 1..Cardinality(rows) |->
     CHOOSE row \in rows : Cardinality(before[row]) = k - 1]
=============================================================================
