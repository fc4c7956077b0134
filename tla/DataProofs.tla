----------------------------- MODULE DataProofs -----------------------------
(***************************************************************************)
(* Facts about the data of the program, for the proofs about its parts:    *)
(* numbers and numerals, strings, slices, queries, and threads of comments *)
(* with the paths that order them.                                         *)
(*                                                                         *)
(* Induction is done on sets of numbers: a nonempty set of naturals has a  *)
(* first element, which makes a recursive function what it says it is.     *)
(***************************************************************************)
EXTENDS Threads, SequencesExt, FiniteSetTheorems, WellFoundedInduction, TLAPS

LEMMA FirstNatural ==
  ASSUME NEW T, T \subseteq Nat, T # {}
  PROVE  \E n \in T : \A m \in T : n <= m
<1> DEFINE segments == {1..n : n \in T}
           Smaller == StrictSubsetOrdering(Nat)
<1>1. segments \subseteq FiniteSubsetsOf(Nat)
  BY FS_Interval DEF FiniteSubsetsOf
<1>2. segments # {}
  OBVIOUS
<1>3. IsWellFoundedOn(Smaller, FiniteSubsetsOf(Nat))
  BY FS_StrictSubsetOrderingWellFounded
<1> HIDE DEF segments, Smaller
<1>4. PICK s \in segments : \A r \in segments : <<r, s>> \notin Smaller
  BY <1>1, <1>2, <1>3, WFMin
<1>5. PICK n \in T : s = 1..n
  BY DEF segments
<1>6. ASSUME NEW m \in T, m < n PROVE FALSE
  <2>1. 1..m \in segments
    BY DEF segments
  <2>2. 1..m \subseteq 1..n /\ n \in 1..n /\ n \notin 1..m
    BY <1>6
  <2>3. <<1..m, 1..n>> \in Smaller
    BY <2>2 DEF Smaller, StrictSubsetOrdering
  <2> QED BY <1>4, <1>5, <2>1, <2>3
<1> QED BY <1>6

\* Induction, for a set of naturals in place of a predicate.
LEMMA Induction ==
  ASSUME NEW T, 0 \in T, \A n \in Nat : n \in T => n + 1 \in T
  PROVE  Nat \subseteq T
<1> DEFINE missing == Nat \ T
<1>1. ASSUME missing # {} PROVE FALSE
  <2>1. PICK n \in missing : \A m \in missing : n <= m
    <3>1. missing \subseteq Nat OBVIOUS
    <3> HIDE DEF missing
    <3> QED BY <1>1, <3>1, FirstNatural
  <2>2. n # 0 /\ n - 1 \in Nat
    BY <2>1
  <2>3. n - 1 \in T
    BY <2>1, <2>2
  <2> QED BY <2>1, <2>2, <2>3
<1> QED BY <1>1

\* Induction from all smaller numbers.
LEMMA StrongInduction ==
  ASSUME NEW T, \A n \in Nat : (\A m \in 0..(n - 1) : m \in T) => n \in T
  PROVE  Nat \subseteq T
<1> DEFINE missing == Nat \ T
<1>1. ASSUME missing # {} PROVE FALSE
  <2>1. missing \subseteq Nat
    OBVIOUS
  <2>2. PICK n \in missing : \A m \in missing : n <= m
    <3> HIDE DEF missing
    <3> QED BY <1>1, <2>1, FirstNatural
  <2>3. \A m \in 0..(n - 1) : m \in T
    BY <2>2
  <2> QED BY <2>2, <2>3
<1> QED BY <1>1

\* f is given by its first value and by the steps to the others.
StepByStep(f, first, step) ==
  f[0] = first /\ \A n \in Nat \ {0} : f[n] = step[n][f[n - 1]]

\* A function on the naturals may be given step by step.
LEMMA Recursion ==
  ASSUME NEW V, NEW first \in V, NEW step \in [Nat -> [V -> V]]
  PROVE  \E f \in [Nat -> V] : StepByStep(f, first, step)
<1> DEFINE Upto(g, n) == /\ g[0] = first
                         /\ \A k \in 1..n : g[k] = step[k][g[k - 1]]
           T == {n \in Nat : \E g \in [0..n -> V] : Upto(g, n)}
<1>1. 0 \in T
  <2>1. [k \in 0..0 |-> first] \in [0..0 -> V] /\ Upto([k \in 0..0 |-> first], 0)
    OBVIOUS
  <2> QED BY <2>1
<1>2. ASSUME NEW n \in Nat, n \in T PROVE n + 1 \in T
  <2>1. PICK g \in [0..n -> V] : Upto(g, n)
    BY <1>2
  <2> DEFINE h == [k \in 0..(n + 1) |-> IF k = n + 1 THEN step[n + 1][g[n]] ELSE g[k]]
  <2>2. h \in [0..(n + 1) -> V]
    <3>1. step[n + 1][g[n]] \in V
      OBVIOUS
    <3> QED BY <3>1
  <2>3. h[0] = first
    BY <2>1
  <2>4. ASSUME NEW k \in 1..(n + 1) PROVE h[k] = step[k][h[k - 1]]
    <3>1. h[k - 1] = g[k - 1]
      OBVIOUS
    <3>2. CASE k = n + 1
      BY <3>1, <3>2
    <3>3. CASE k \in 1..n
      BY <2>1, <3>1, <3>3
    <3> QED BY <3>2, <3>3
  <2> HIDE DEF h
  <2> QED BY <2>2, <2>3, <2>4
<1>3. Nat \subseteq T
  <2> HIDE DEF T
  <2> QED BY <1>1, <1>2, Induction
\* Two of these functions agree where both are given.
<1> DEFINE Good(g, n) == g \in [0..n -> V] /\ Upto(g, n)
<1>4. ASSUME NEW n \in Nat, NEW m \in Nat, NEW g, Good(g, n), NEW h, Good(h, m),
             NEW k \in Nat, k <= n, k <= m
      PROVE  g[k] = h[k]
  <2> DEFINE A == {j \in Nat : j <= n /\ j <= m => g[j] = h[j]}
  <2>1. 0 \in A
    BY <1>4
  <2>2. ASSUME NEW j \in Nat, j \in A PROVE j + 1 \in A
    <3> SUFFICES ASSUME j + 1 <= n, j + 1 <= m PROVE g[j + 1] = h[j + 1]
      OBVIOUS
    <3>1. g[j] = h[j]
      BY <2>2
    <3>2. g[j + 1] = step[j + 1][g[j]] /\ h[j + 1] = step[j + 1][h[j]]
      BY <1>4
    <3> QED BY <3>1, <3>2
  <2>3. Nat \subseteq A
    <3> HIDE DEF A
    <3> QED BY <2>1, <2>2, Induction
  <2> QED BY <1>4, <2>3
<1> DEFINE G(n) == CHOOSE g \in [0..n -> V] : Upto(g, n)
           f == [n \in Nat |-> G(n)[n]]
<1>5. \A n \in Nat : Good(G(n), n)
  BY <1>3
<1> HIDE DEF G, Upto, Good
<1>6. f \in [Nat -> V]
  BY <1>5 DEF Good
<1>7. f[0] = first
  BY <1>5 DEF Good, Upto
<1>8. ASSUME NEW n \in Nat \ {0} PROVE f[n] = step[n][f[n - 1]]
  <2>1. G(n)[n] = step[n][G(n)[n - 1]]
    BY <1>5 DEF Good, Upto
  <2>2. G(n)[n - 1] = G(n - 1)[n - 1]
    <3> DEFINE m == n - 1
    <3>1. n \in Nat /\ m \in Nat /\ m <= n /\ m <= m
      OBVIOUS
    <3> HIDE DEF m
    <3>2. Good(G(n), n) /\ Good(G(m), m)
      BY <1>5, <3>1
    <3>3. G(n)[m] = G(m)[m]
      BY ONLY <1>4, <3>1, <3>2
    <3> QED BY <3>3 DEF m
  <2> QED BY <2>1, <2>2
<1> QED BY <1>6, <1>7, <1>8 DEF StepByStep

-----------------------------------------------------------------------------
(* Powers. *)

LEMMA PowFacts ==
  ASSUME NEW b \in Nat, b >= 1
  PROVE  /\ Pow(b, 0) = 1
         /\ \A n \in Nat : Pow(b, n) \in Nat \ {0} /\ Pow(b, n + 1) = b * Pow(b, n)
<1> DEFINE eqn(g) == g = [k \in Nat |-> IF k = 0 THEN 1 ELSE b * g[k - 1]]
           power == CHOOSE g : eqn(g)
           times == [n \in Nat |-> [v \in Nat |-> b * v]]
<1>1. \E g : eqn(g)
  <2>1. times \in [Nat -> [Nat -> Nat]] /\ 1 \in Nat
    OBVIOUS
  <2>2. \A n \in Nat, v \in Nat : times[n][v] = b * v
    OBVIOUS
  <2> HIDE DEF times
  <2>3. PICK g \in [Nat -> Nat] : StepByStep(g, 1, times)
    BY <2>1, Recursion
  <2>4. ASSUME NEW n \in Nat \ {0} PROVE g[n] = b * g[n - 1]
    <3>1. n \in Nat /\ g[n - 1] \in Nat
      OBVIOUS
    <3> QED BY <2>2, <2>3, <3>1 DEF StepByStep
  <2>5. eqn(g)
    BY <2>3, <2>4 DEF StepByStep
  <2> QED BY <2>5
<1>2. eqn(power)
  BY <1>1
<1> HIDE DEF power
<1>3. power[0] = 1 /\ \A n \in Nat \ {0} : power[n] = b * power[n - 1]
  BY <1>2
<1>4. \A n : Pow(b, n) = power[n]
  BY DEF Pow, power
<1> DEFINE T == {n \in Nat : power[n] \in Nat \ {0}}
<1>5. Nat \subseteq T
  <2>1. 0 \in T
    BY <1>3
  <2>2. ASSUME NEW n \in Nat, n \in T PROVE n + 1 \in T
    <3>1. power[n + 1] = b * power[n]
      BY <1>3
    <3>2. \A v \in Nat \ {0} : b * v \in Nat \ {0}
      OBVIOUS
    <3> QED BY <2>2, <3>1, <3>2
  <2> HIDE DEF T
  <2> QED BY <2>1, <2>2, Induction
<1>6. \A n \in Nat : power[n + 1] = b * power[n]
  BY <1>3
<1> QED BY <1>3, <1>4, <1>5, <1>6

-----------------------------------------------------------------------------
(* Division and numerals. *)

LEMMA ProductMonotone ==
  ASSUME NEW a \in Nat, NEW b \in Nat, NEW d \in Nat, a <= b
  PROVE d * a <= d * b
OBVIOUS

LEMMA DivisionFacts ==
  ASSUME NEW a \in Nat, NEW d \in Nat \ {0}
  PROVE  /\ a \div d \in Nat /\ a % d \in 0..(d - 1)
         /\ a = d * (a \div d) + (a % d)
OBVIOUS

LEMMA QuotientIs ==
  ASSUME NEW a \in Nat, NEW d \in Nat \ {0}, NEW q \in Nat, d * q <= a, a < d * q + d
  PROVE  a \div d = q
<1> DEFINE p == a \div d
<1>1. p \in Nat /\ d * p <= a /\ a < d * p + d
  BY DivisionFacts
<1> HIDE DEF p
<1>2. ASSUME p < q PROVE FALSE
  <2>1. d * (p + 1) <= d * q
    BY <1>1, <1>2, ProductMonotone
  <2>2. d * (p + 1) = d * p + d
    BY <1>1
  <2> QED BY <1>1, <2>1, <2>2
<1>3. ASSUME q < p PROVE FALSE
  <2>1. d * (q + 1) <= d * p
    BY <1>1, <1>3, ProductMonotone
  <2>2. d * (q + 1) = d * q + d
    OBVIOUS
  <2> QED BY <1>1, <2>1, <2>2
<1> QED BY <1>1, <1>2, <1>3 DEF p

LEMMA QuotientOfQuotient ==
  ASSUME NEW x \in Nat, NEW d \in Nat \ {0}, NEW b \in Nat \ {0}
  PROVE  x \div (b * d) = (x \div d) \div b
<1> DEFINE y == x \div d
           q == y \div b
<1>1. y \in Nat /\ d * y <= x /\ x < d * y + d
  BY DivisionFacts
<1> HIDE DEF y
<1>2. q \in Nat /\ b * q <= y /\ y <= b * q + (b - 1)
  BY <1>1, DivisionFacts
<1> HIDE DEF q
<1>3. b * q \in Nat /\ b * q + (b - 1) \in Nat /\ b * d \in Nat \ {0}
  BY <1>2
<1>4. d * (b * q) <= d * y /\ d * y <= d * (b * q + (b - 1))
  BY <1>1, <1>2, <1>3, ProductMonotone
<1>5. (b * d) * q = d * (b * q)
  BY <1>2
<1>6. d * (b * q + (b - 1)) + d = (b * d) * q + b * d
  BY <1>2
<1>7. (b * d) * q <= x /\ x < (b * d) * q + b * d
  <2>1. d * y \in Nat /\ d * (b * q) \in Nat /\ d * (b * q + (b - 1)) \in Nat
    BY <1>1, <1>3
  <2> QED BY <1>1, <1>3, <1>4, <1>5, <1>6, <2>1
<1>8. x \div (b * d) = q
  BY <1>2, <1>3, <1>7, QuotientIs
<1> QED BY <1>8 DEF q, y

LEMMA QuotientMonotone ==
  ASSUME NEW m \in Nat, NEW n \in Nat, m <= n, NEW d \in Nat \ {0}
  PROVE  m \div d <= n \div d
<1> DEFINE p == m \div d
           q == n \div d
<1>1. p \in Nat /\ d * p <= m /\ q \in Nat /\ n < d * q + d
  BY DivisionFacts
<1> HIDE DEF p, q
<1>2. ASSUME q < p PROVE FALSE
  <2>1. d * (q + 1) <= d * p
    BY <1>1, <1>2, ProductMonotone
  <2>2. d * (q + 1) = d * q + d
    BY <1>1
  <2> QED BY <1>1, <2>1, <2>2
<1> QED BY <1>1, <1>2 DEF p, q

LEMMA DigitsType ==
  ASSUME NEW b \in Nat, b >= 2, NEW w \in Nat, NEW n \in Nat
  PROVE  Digits(b, w, n) \in Seq(Nat) /\ Len(Digits(b, w, n)) = w
<1>1. ASSUME NEW i \in 1..w PROVE (n \div Pow(b, w - i)) % b \in Nat
  <2>1. Pow(b, w - i) \in Nat \ {0}
    BY PowFacts
  <2>2. n \div Pow(b, w - i) \in Nat
    BY <2>1, DivisionFacts
  <2> QED BY <2>2, DivisionFacts
<1> QED BY <1>1 DEF Digits

\* Numerals of one width are ordered as their numbers.
LEMMA DigitsKeepOrder ==
  ASSUME NEW b \in Nat, b >= 2, NEW w \in Nat,
         NEW m \in Nat, NEW n \in Nat, m < n, n < Pow(b, w)
  PROVE  StringLess(Digits(b, w, m), Digits(b, w, n))
\* What the first k digits of the numeral of x stand for.
<1> DEFINE front(x, k) == x \div Pow(b, w - k)
           digit(x, k) == front(x, k) % b
<1>1. ASSUME NEW k \in 0..w PROVE Pow(b, w - k) \in Nat \ {0}
  <2>1. w - k \in Nat /\ b \in Nat /\ b >= 1
    OBVIOUS
  <2> QED BY <2>1, PowFacts
<1>2. ASSUME NEW x \in Nat, NEW k \in 0..w PROVE front(x, k) \in Nat /\ digit(x, k) \in Nat
  <2>1. front(x, k) \in Nat
    BY <1>1, DivisionFacts
  <2> HIDE DEF front
  <2>2. b \in Nat \ {0}
    OBVIOUS
  <2>3. \A y \in Nat : y % b \in 0..(b - 1)
    BY <2>2, DivisionFacts
  <2> QED BY <2>1, <2>2, <2>3
<1>3. ASSUME NEW x \in Nat, x < Pow(b, w) PROVE front(x, 0) = 0
  <2>1. Pow(b, w) \in Nat \ {0} /\ w - 0 = w
    BY PowFacts
  <2>2. 0 \in Nat /\ Pow(b, w) * 0 = 0
    BY <2>1
  <2> QED BY <1>3, <2>1, <2>2, QuotientIs
<1>4. ASSUME NEW x \in Nat PROVE front(x, w) = x
  <2>1. Pow(b, w - w) = 1
    BY PowFacts
  <2> QED BY <2>1
<1>5. ASSUME NEW x \in Nat, NEW k \in 1..w
      PROVE  front(x, k) = b * front(x, k - 1) + digit(x, k)
  <2> DEFINE d == Pow(b, w - k)
  <2>1. d \in Nat \ {0} /\ w - k \in Nat
    BY <1>1
  <2>2. Pow(b, w - (k - 1)) = b * d
    <3>1. w - (k - 1) = (w - k) + 1
      OBVIOUS
    <3> QED BY <2>1, <3>1, PowFacts
  <2> HIDE DEF d
  <2>3. x \div (b * d) = (x \div d) \div b
    <3>1. b \in Nat \ {0}
      OBVIOUS
    <3> QED BY <2>1, <3>1, QuotientOfQuotient
  <2>4. x \div d = b * ((x \div d) \div b) + ((x \div d) % b)
    <3>1. x \div d \in Nat
      BY <2>1, DivisionFacts
    <3>2. \A y \in Nat : y = b * (y \div b) + (y % b)
      BY DivisionFacts
    <3> QED BY <3>1, <3>2
  <2> QED BY <2>2, <2>3, <2>4 DEF d
<1> DEFINE apart == {k \in 0..w : front(m, k) # front(n, k)}
<1>6. w \in apart /\ apart \subseteq Nat
  BY <1>4
<1>7. PICK k \in apart : \A j \in apart : k <= j
  <2> HIDE DEF apart
  <2> QED BY <1>6, FirstNatural
<1>8. k \in 1..w /\ front(m, k) # front(n, k)
  <2>1. front(m, 0) = 0 /\ front(n, 0) = 0
    <3>1. Pow(b, w) \in Nat
      BY PowFacts
    <3>2. m < Pow(b, w)
      BY <3>1
    <3> QED BY <1>3, <3>2
  <2> HIDE DEF front
  <2> QED BY <1>7, <2>1
<1>9. \A j \in 0..w : j < k => front(m, j) = front(n, j)
  BY <1>7
<1>10. \A j \in 1..w : j < k => digit(m, j) = digit(n, j)
  BY <1>9
<1>11. front(m, k) <= front(n, k)
  BY <1>1, <1>8, QuotientMonotone
<1> HIDE DEF front
<1>12. digit(m, k) < digit(n, k)
  <2>1. front(m, k - 1) = front(n, k - 1)
    BY <1>8, <1>9
  <2>2. /\ front(m, k) = b * front(m, k - 1) + digit(m, k)
        /\ front(n, k) = b * front(n, k - 1) + digit(n, k)
    BY <1>5, <1>8
  <2>3. k - 1 \in 0..w /\ k \in 0..w
    BY <1>8
  <2> HIDE DEF digit
  <2>5. /\ front(m, k) \in Nat /\ digit(m, k) \in Nat /\ front(m, k - 1) \in Nat
        /\ front(n, k) \in Nat /\ digit(n, k) \in Nat
    BY <1>2, <2>3
  <2>4. b * front(m, k - 1) \in Nat
    BY <2>5
  <2> QED BY <1>8, <1>11, <2>1, <2>2, <2>5, <2>4
<1>13. /\ Len(Digits(b, w, m)) = w /\ Len(Digits(b, w, n)) = w
       /\ \A j \in 1..w : Digits(b, w, m)[j] = digit(m, j) /\ Digits(b, w, n)[j] = digit(n, j)
  BY DigitsType DEF Digits, front
<1> HIDE DEF digit
<1> QED BY <1>8, <1>10, <1>12, <1>13 DEF StringLess

-----------------------------------------------------------------------------
(* Filtering. *)

\* The loop of Filter: kept has what it has kept of the first n elements.
Loop(kept, s, passing) ==
  /\ kept[0] = <<>>
  /\ \A n \in Nat \ {0} : kept[n] = IF n \in passing THEN Append(kept[n - 1], s[n])
                                                     ELSE kept[n - 1]

LEMMA FilterIsItsLoop ==
  ASSUME NEW s, NEW passing
  PROVE  \E kept : Loop(kept, s, passing) /\ Filter(s, passing) = kept[Len(s)]
<1> DEFINE eqn(g) == g = [n \in Nat |-> IF n = 0 THEN <<>>
                                        ELSE IF n \in passing THEN Append(g[n - 1], s[n])
                                        ELSE g[n - 1]]
           kept == CHOOSE g : eqn(g)
           V == Seq({s[n] : n \in Nat})
           step == [n \in Nat |-> [v \in V |-> IF n \in passing THEN Append(v, s[n]) ELSE v]]
<1>1. \E g : eqn(g)
  <2>1. step \in [Nat -> [V -> V]] /\ <<>> \in V
    OBVIOUS
  <2>2. \A n \in Nat, v \in V : step[n][v] = IF n \in passing THEN Append(v, s[n]) ELSE v
    OBVIOUS
  <2> HIDE DEF step, V
  <2>3. PICK g \in [Nat -> V] : StepByStep(g, <<>>, step)
    BY <2>1, Recursion
  <2>4. ASSUME NEW n \in Nat \ {0}
        PROVE  g[n] = IF n \in passing THEN Append(g[n - 1], s[n]) ELSE g[n - 1]
    <3>1. n \in Nat /\ g[n - 1] \in V
      OBVIOUS
    <3> QED BY <2>2, <2>3, <3>1 DEF StepByStep
  <2>5. eqn(g)
    BY <2>3, <2>4 DEF StepByStep
  <2> QED BY <2>5
<1>2. eqn(kept)
  BY <1>1
<1>3. Filter(s, passing) = kept[Len(s)]
  BY DEF Filter, kept
<1> HIDE DEF kept
<1>4. Loop(kept, s, passing)
  BY <1>2 DEF Loop
<1> QED BY <1>3, <1>4

\* Slice t has the elements of s at the indices picked, in their order, which are
\* those of the first n that pass.
Picks(t, s, passing, n, picked) ==
  /\ \A k \in 1..Len(t) : /\ picked[k] \in 1..n /\ picked[k] \in passing
                           /\ t[k] = s[picked[k]]
  /\ \A j, k \in 1..Len(t) : j < k => picked[j] < picked[k]
  /\ \A i \in 1..n : i \in passing => \E k \in 1..Len(t) : picked[k] = i

LEMMA FilterFacts ==
  ASSUME NEW S, NEW s \in Seq(S), NEW passing, NEW t, t = Filter(s, passing)
  PROVE  t \in Seq(S) /\ \E picked : Picks(t, s, passing, Len(s), picked)
<1>1. PICK kept : Loop(kept, s, passing) /\ t = kept[Len(s)]
  BY FilterIsItsLoop
<1> DEFINE T == {n \in Nat : n <= Len(s) =>
                   /\ kept[n] \in Seq(S)
                   /\ \E picked : Picks(kept[n], s, passing, n, picked)}
<1>2. 0 \in T
  <2>1. kept[0] \in Seq(S) /\ Len(kept[0]) = 0
    BY <1>1 DEF Loop
  <2>2. Picks(kept[0], s, passing, 0, <<>>)
    BY <2>1 DEF Picks
  <2> QED BY <2>1, <2>2
<1>3. ASSUME NEW n \in Nat, n \in T PROVE n + 1 \in T
  <2> SUFFICES ASSUME n + 1 <= Len(s)
               PROVE  /\ kept[n + 1] \in Seq(S)
                      /\ \E picked : Picks(kept[n + 1], s, passing, n + 1, picked)
    OBVIOUS
  <2> DEFINE u == kept[n]
  <2>1. u \in Seq(S)
    BY <1>3
  <2>2. PICK picked : Picks(u, s, passing, n, picked)
    BY <1>3
  <2>3. kept[n + 1] = IF n + 1 \in passing THEN Append(u, s[n + 1]) ELSE u
    BY <1>1 DEF Loop
  <2>4. s[n + 1] \in S
    OBVIOUS
  <2> HIDE DEF u
  <2>5. CASE n + 1 \notin passing
    <3>1. Picks(u, s, passing, n + 1, picked)
      BY <2>2, <2>5 DEF Picks
    <3> QED BY <2>1, <2>3, <2>5, <3>1
  <2>6. CASE n + 1 \in passing
    <3> DEFINE v == Append(u, s[n + 1])
               more == [k \in 1..(Len(u) + 1) |-> IF k = Len(u) + 1 THEN n + 1 ELSE picked[k]]
    <3>1. /\ v \in Seq(S) /\ Len(v) = Len(u) + 1 /\ Len(u) \in Nat
          /\ v[Len(u) + 1] = s[n + 1] /\ \A k \in 1..Len(u) : v[k] = u[k]
      BY <2>1, <2>4
    <3>2. more[Len(u) + 1] = n + 1 /\ \A k \in 1..Len(u) : more[k] = picked[k]
      BY <3>1
    <3> HIDE DEF v, more
    <3>3. Picks(v, s, passing, n + 1, more)
      <4>1. ASSUME NEW k \in 1..Len(v)
            PROVE  more[k] \in 1..(n + 1) /\ more[k] \in passing /\ v[k] = s[more[k]]
        <5>1. CASE k = Len(u) + 1
          BY <2>6, <3>1, <3>2, <5>1
        <5>2. CASE k \in 1..Len(u)
          <6>1. picked[k] \in 1..n /\ picked[k] \in passing /\ u[k] = s[picked[k]]
            BY <2>2, <5>2 DEF Picks
          <6>2. more[k] = picked[k] /\ v[k] = u[k]
            BY <3>1, <3>2, <5>2
          <6> QED BY <6>1, <6>2
        <5> QED BY <3>1, <4>1, <5>1, <5>2
      <4>2. ASSUME NEW j \in 1..Len(v), NEW k \in 1..Len(v), j < k PROVE more[j] < more[k]
        <5>1. j \in 1..Len(u) /\ (k = Len(u) + 1 \/ k \in 1..Len(u))
          BY ONLY <3>1, <4>2, k \in 1..Len(v), j \in 1..Len(v)
        <5>2. more[j] = picked[j] /\ picked[j] \in 1..n
          BY <2>2, <3>2, <5>1 DEF Picks
        <5>3. CASE k = Len(u) + 1
          BY <3>2, <5>2, <5>3
        <5>4. CASE k \in 1..Len(u)
          <6>1. picked[j] < picked[k]
            BY <2>2, <4>2, <5>1, <5>4 DEF Picks
          <6> QED BY <3>2, <5>2, <5>4, <6>1
        <5> QED BY <5>1, <5>3, <5>4
      <4>3. ASSUME NEW i \in 1..(n + 1), i \in passing
            PROVE  \E k \in 1..Len(v) : more[k] = i
        <5>1. CASE i = n + 1
          BY <3>1, <3>2, <5>1
        <5>2. CASE i \in 1..n
          <6>1. PICK k \in 1..Len(u) : picked[k] = i
            BY <2>2, <4>3, <5>2 DEF Picks
          <6> QED BY <3>1, <3>2, <6>1
        <5> QED BY <5>1, <5>2
      <4> QED BY <4>1, <4>2, <4>3 DEF Picks
    <3> QED BY <2>3, <2>6, <3>1, <3>3 DEF v
  <2> QED BY <2>5, <2>6
<1>4. Len(s) \in T
  <2>1. Nat \subseteq T
    <3> HIDE DEF T
    <3> QED BY <1>2, <1>3, Induction
  <2> QED BY <2>1
<1> QED BY <1>1, <1>4

\* Where all pass, the slice stays as it is.
LEMMA FilterAll ==
  ASSUME NEW S, NEW s \in Seq(S), NEW passing, 1..Len(s) \subseteq passing
  PROVE  Filter(s, passing) = s
<1> DEFINE t == Filter(s, passing)
<1>1. PICK kept : Loop(kept, s, passing) /\ t = kept[Len(s)]
  BY FilterIsItsLoop
<1> HIDE DEF t
<1> DEFINE T == {n \in Nat : n <= Len(s) => kept[n] = SubSeq(s, 1, n)}
<1>2. 0 \in T
  <2>1. SubSeq(s, 1, 0) = <<>>
    OBVIOUS
  <2> QED BY <1>1, <2>1 DEF Loop
<1>3. ASSUME NEW n \in Nat, n \in T PROVE n + 1 \in T
  <2> SUFFICES ASSUME n + 1 <= Len(s) PROVE kept[n + 1] = SubSeq(s, 1, n + 1)
    OBVIOUS
  <2>1. kept[n + 1] = Append(SubSeq(s, 1, n), s[n + 1])
    <3>1. n + 1 \in Nat \ {0} /\ (n + 1) - 1 = n /\ n + 1 \in passing
      OBVIOUS
    <3>2. kept[n + 1] = Append(kept[n], s[n + 1])
      BY <1>1, <3>1 DEF Loop
    <3> QED BY <1>3, <3>2
  <2>2. /\ SubSeq(s, 1, n) \in Seq(S) /\ Len(SubSeq(s, 1, n)) = n
        /\ \A i \in 1..n : SubSeq(s, 1, n)[i] = s[i]
    OBVIOUS
  <2>3. /\ SubSeq(s, 1, n + 1) \in Seq(S) /\ Len(SubSeq(s, 1, n + 1)) = n + 1
        /\ \A i \in 1..(n + 1) : SubSeq(s, 1, n + 1)[i] = s[i]
    OBVIOUS
  <2>4. s[n + 1] \in S
    OBVIOUS
  <2> DEFINE a == Append(SubSeq(s, 1, n), s[n + 1])
             b == SubSeq(s, 1, n + 1)
  <2>5. a \in Seq(S) /\ Len(a) = n + 1 /\ \A i \in 1..(n + 1) : a[i] = s[i]
    BY <2>2, <2>4
  <2> HIDE DEF a, b
  <2>6. a = b
    BY <2>3, <2>5 DEF b
  <2> QED BY <2>1, <2>6 DEF a, b
<1>4. Len(s) \in T
  <2>1. Nat \subseteq T
    <3> HIDE DEF T
    <3> QED BY <1>2, <1>3, Induction
  <2> QED BY <2>1
<1>5. SubSeq(s, 1, Len(s)) = s
  OBVIOUS
<1> QED BY <1>1, <1>4, <1>5 DEF t

\* What the loop has kept of a prefix is the prefix filtered.
LEMMA FilterPrefix ==
  ASSUME NEW s, Len(s) \in Nat, NEW u, \A i \in 1..Len(s) : u[i] = s[i],
         NEW passing, NEW other, \A i \in 1..Len(s) : i \in other <=> i \in passing,
         NEW kept, Loop(kept, u, other)
  PROVE  kept[Len(s)] = Filter(s, passing)
<1>1. PICK mine : Loop(mine, s, passing) /\ Filter(s, passing) = mine[Len(s)]
  BY FilterIsItsLoop
<1> DEFINE T == {n \in Nat : n <= Len(s) => kept[n] = mine[n]}
<1>2. 0 \in T
  BY <1>1 DEF Loop
<1>3. ASSUME NEW n \in Nat, n \in T PROVE n + 1 \in T
  <2> SUFFICES ASSUME n + 1 <= Len(s) PROVE kept[n + 1] = mine[n + 1]
    OBVIOUS
  <2>1. n + 1 \in Nat \ {0} /\ (n + 1) - 1 = n /\ n + 1 \in 1..Len(s)
    OBVIOUS
  <2>2. kept[n + 1] = IF n + 1 \in other THEN Append(kept[n], u[n + 1]) ELSE kept[n]
    BY <2>1 DEF Loop
  <2>3. mine[n + 1] = IF n + 1 \in passing THEN Append(mine[n], s[n + 1]) ELSE mine[n]
    BY <1>1, <2>1 DEF Loop
  <2> QED BY <1>3, <2>1, <2>2, <2>3
<1>4. Len(s) \in T
  <2>1. Nat \subseteq T
    <3> HIDE DEF T
    <3> QED BY <1>2, <1>3, Induction
  <2> QED BY <2>1
<1> QED BY <1>1, <1>4

\* Only the indices of the slice matter.
LEMMA FilterSame ==
  ASSUME NEW s, Len(s) \in Nat, NEW passing, NEW other,
         \A i \in 1..Len(s) : i \in other <=> i \in passing
  PROVE  Filter(s, other) = Filter(s, passing)
<1>1. PICK kept : Loop(kept, s, other) /\ Filter(s, other) = kept[Len(s)]
  BY FilterIsItsLoop
<1> QED BY <1>1, FilterPrefix

LEMMA FilterAppend ==
  ASSUME NEW S, NEW s \in Seq(S), NEW e \in S, NEW passing
  PROVE  Filter(Append(s, e), passing) =
           IF Len(s) + 1 \in passing THEN Append(Filter(s, passing), e)
           ELSE Filter(s, passing)
<1> DEFINE u == Append(s, e)
<1>1. u \in Seq(S) /\ Len(u) = Len(s) + 1 /\ u[Len(s) + 1] = e /\ \A i \in 1..Len(s) : u[i] = s[i]
  OBVIOUS
<1> HIDE DEF u
<1>2. PICK kept : Loop(kept, u, passing) /\ Filter(u, passing) = kept[Len(u)]
  BY FilterIsItsLoop
<1>3. kept[Len(s)] = Filter(s, passing)
  BY <1>1, <1>2, FilterPrefix
<1>4. Len(s) + 1 \in Nat \ {0} /\ (Len(s) + 1) - 1 = Len(s)
  OBVIOUS
<1>5. kept[Len(s) + 1] = IF Len(s) + 1 \in passing THEN Append(kept[Len(s)], u[Len(s) + 1])
                         ELSE kept[Len(s)]
  BY <1>2, <1>4 DEF Loop
<1> QED BY <1>1, <1>2, <1>3, <1>5 DEF u

\* What passes is counted by what is kept.
LEMMA FilterLength ==
  ASSUME NEW S, NEW s \in Seq(S), NEW passing
  PROVE  Cardinality({i \in 1..Len(s) : i \in passing}) = Len(Filter(s, passing))
<1> DEFINE t == Filter(s, passing)
           P == {i \in 1..Len(s) : i \in passing}
<1>1. t \in Seq(S) /\ \E picked : Picks(t, s, passing, Len(s), picked)
  BY FilterFacts
<1>2. PICK picked : Picks(t, s, passing, Len(s), picked)
  BY <1>1
<1>3. Len(t) \in Nat /\ Len(s) \in Nat
  BY <1>1
<1> DEFINE f == [k \in 1..Len(t) |-> picked[k]]
<1> HIDE DEF t
<1>4. f \in [1..Len(t) -> P]
  BY <1>2 DEF Picks
<1>5. \A j, k \in 1..Len(t) : f[j] = f[k] => j = k
  <2>1. \A k \in 1..Len(t) : picked[k] \in Nat
    BY <1>2, <1>3 DEF Picks
  <2> QED BY <1>2, <1>3, <2>1 DEF Picks
<1>6. \A i \in P : \E k \in 1..Len(t) : f[k] = i
  BY <1>2 DEF Picks
<1> HIDE DEF f, P
<1>7. f \in Bijection(1..Len(t), P)
  BY <1>4, <1>5, <1>6 DEF Bijection, Injection, Surjection, IsInjective
<1>8. IsFiniteSet(1..Len(t)) /\ Cardinality(1..Len(t)) = Len(t)
  <2>1. \A n \in Nat : IsFiniteSet(1..n) /\ Cardinality(1..n) = n
    BY FS_Interval
  <2> QED BY <1>3, <2>1
<1>9. Cardinality(P) = Cardinality(1..Len(t))
  <2>1. ExistsBijection(1..Len(t), P)
    BY <1>7 DEF ExistsBijection
  <2> QED BY <1>8, <2>1, FS_Bijection
<1> QED BY <1>8, <1>9 DEF P, t

-----------------------------------------------------------------------------
(* The binary search and the insertion, for any slice. *)

\* sort.Search answers with an index of the slice, or the one after it; the
\* elements before it fail the test, and the one there passes it.
LEMMA SearchFirstFacts ==
  ASSUME NEW s, Len(s) \in Nat, NEW passing, NEW k, k = SearchFirst(s, passing)
  PROVE  /\ k \in 1..(Len(s) + 1)
         /\ k <= Len(s) => k \in passing
         /\ \A i \in 1..(k - 1) : i \notin passing
<1> DEFINE found == {n \in 1..(Len(s) + 1) : n = Len(s) + 1 \/ n \in passing}
<1>1. found \subseteq Nat /\ Len(s) + 1 \in found
  OBVIOUS
<1>2. PICK n \in found : \A m \in found : n <= m
  BY <1>1, FirstNatural
<1>3. /\ n \in 1..(Len(s) + 1)
      /\ n <= Len(s) => n \in passing
      /\ \A i \in 1..(n - 1) : i \notin passing
  <2>1. ASSUME NEW i \in 1..(n - 1), i \in passing PROVE FALSE
    <3>1. i \in found
      BY <1>1, <1>2, <2>1
    <3> QED BY <1>1, <1>2, <2>1, <3>1
  <2> QED BY <1>2, <2>1
<1> QED BY <1>3 DEF SearchFirst

LEMMA ConcatFacts ==
  ASSUME NEW S, NEW p \in Seq(S), NEW q \in Seq(S)
  PROVE  /\ p \o q \in Seq(S) /\ Len(p \o q) = Len(p) + Len(q)
         /\ \A i \in 1..Len(p) : (p \o q)[i] = p[i]
         /\ \A i \in 1..Len(q) : (p \o q)[Len(p) + i] = q[i]
OBVIOUS

\* The elements of a slice after an insertion at index k.
LEMMA InsertAtFacts ==
  ASSUME NEW S, NEW s \in Seq(S), NEW e \in S, NEW k \in 1..(Len(s) + 1),
         NEW t, t = InsertAt(s, k, e)
  PROVE  /\ t \in Seq(S) /\ Len(t) = Len(s) + 1
         /\ \A i \in 1..Len(t) : t[i] = IF i < k THEN s[i]
                                        ELSE IF i = k THEN e ELSE s[i - 1]
<1> DEFINE front == SubSeq(s, 1, k - 1)
           back  == SubSeq(s, k, Len(s))
           head  == front \o <<e>>
<1>1. front \in Seq(S) /\ Len(front) = k - 1 /\ \A i \in 1..(k - 1) : front[i] = s[i]
  OBVIOUS
<1>2. /\ back \in Seq(S) /\ Len(back) = Len(s) - k + 1
      /\ \A i \in 1..(Len(s) - k + 1) : back[i] = s[k + i - 1]
  OBVIOUS
<1> HIDE DEF front, back
<1>3. <<e>> \in Seq(S) /\ Len(<<e>>) = 1 /\ <<e>>[1] = e
  OBVIOUS
<1>4. /\ head \in Seq(S) /\ Len(head) = k
      /\ \A i \in 1..(k - 1) : head[i] = s[i]
      /\ head[k] = e
  <2>1. /\ head \in Seq(S) /\ Len(head) = Len(front) + 1
        /\ \A i \in 1..Len(front) : head[i] = front[i]
        /\ \A i \in 1..1 : head[Len(front) + i] = <<e>>[i]
    BY <1>1, <1>3, ConcatFacts
  <2> HIDE DEF head
  <2>2. head[Len(front) + 1] = e
    BY <1>3, <2>1
  <2> QED BY <1>1, <2>1, <2>2
<1> HIDE DEF head
<1>5. t = head \o back
  BY DEF InsertAt, front, back, head
<1>6. /\ t \in Seq(S) /\ Len(t) = Len(s) + 1
      /\ \A i \in 1..k : t[i] = head[i]
      /\ \A i \in 1..(Len(s) - k + 1) : t[k + i] = back[i]
  BY <1>2, <1>4, <1>5, ConcatFacts
<1>7. ASSUME NEW i \in 1..Len(t), i > k PROVE t[i] = s[i - 1]
  <2>1. /\ i - k \in 1..(Len(s) - k + 1)
        /\ k + (i - k) - 1 = i - 1 /\ k + (i - k) = i
    BY <1>6, <1>7
  <2>2. t[k + (i - k)] = back[i - k]
    BY <1>6, <2>1
  <2> QED BY <1>2, <2>1, <2>2
<1> QED BY <1>4, <1>6, <1>7

\* Slice t has the elements of s, and e.
Grows(s, t, e) ==
  /\ \A i \in 1..Len(t) : t[i] = e \/ \E j \in 1..Len(s) : t[i] = s[j]
  /\ \A j \in 1..Len(s) : \E i \in 1..Len(t) : t[i] = s[j]
  /\ \E i \in 1..Len(t) : t[i] = e

LEMMA InsertAtGrows ==
  ASSUME NEW S, NEW s \in Seq(S), NEW e \in S, NEW k \in 1..(Len(s) + 1),
         NEW t, t = InsertAt(s, k, e)
  PROVE  Grows(s, t, e)
<1>1. /\ t \in Seq(S) /\ Len(t) = Len(s) + 1
      /\ \A i \in 1..Len(t) : t[i] = IF i < k THEN s[i] ELSE IF i = k THEN e ELSE s[i - 1]
  BY InsertAtFacts
<1>2. ASSUME NEW i \in 1..Len(t), t[i] # e PROVE \E j \in 1..Len(s) : t[i] = s[j]
  <2>1. \/ i \in 1..Len(s) /\ t[i] = s[i]
        \/ i - 1 \in 1..Len(s) /\ t[i] = s[i - 1]
    BY <1>1, <1>2
  <2> QED BY <2>1
<1>3. ASSUME NEW j \in 1..Len(s) PROVE \E i \in 1..Len(t) : t[i] = s[j]
  <2>1. \/ j \in 1..Len(t) /\ t[j] = s[j]
        \/ j + 1 \in 1..Len(t) /\ t[j + 1] = s[j]
    BY <1>1
  <2> QED BY <2>1
<1>4. k \in 1..Len(t) /\ t[k] = e
  BY <1>1
<1> QED BY <1>2, <1>3, <1>4 DEF Grows

\* Every element of s stands in t, in the order that it has in s.
EmbedsIn(s, t) ==
  \E f \in [1..Len(s) -> 1..Len(t)] :
    /\ \A i, j \in 1..Len(s) : i < j => f[i] < f[j]
    /\ \A i \in 1..Len(s) : t[f[i]] = s[i]

LEMMA SameEmbeds ==
  ASSUME NEW s, NEW t, Len(s) \in Nat, Len(t) = Len(s), \A i \in 1..Len(s) : t[i] = s[i]
  PROVE  EmbedsIn(s, t)
<1> DEFINE f == [i \in 1..Len(s) |-> i]
<1>1. /\ f \in [1..Len(s) -> 1..Len(t)]
      /\ \A i, j \in 1..Len(s) : i < j => f[i] < f[j]
      /\ \A i \in 1..Len(s) : t[f[i]] = s[i]
  OBVIOUS
<1> HIDE DEF f
<1> QED BY <1>1 DEF EmbedsIn

\* An insertion moves elements apart and changes the order of none.
LEMMA InsertAtKeepsOrder ==
  ASSUME NEW S, NEW s \in Seq(S), NEW e \in S, NEW k \in 1..(Len(s) + 1),
         NEW t, t = InsertAt(s, k, e)
  PROVE  EmbedsIn(s, t)
<1>1. /\ Len(t) = Len(s) + 1 /\ Len(s) \in Nat
      /\ \A i \in 1..Len(t) : t[i] = IF i < k THEN s[i] ELSE IF i = k THEN e ELSE s[i - 1]
  BY InsertAtFacts
<1> DEFINE f == [i \in 1..Len(s) |-> IF i < k THEN i ELSE i + 1]
<1>2. f \in [1..Len(s) -> 1..Len(t)]
  BY <1>1
<1>3. \A i, j \in 1..Len(s) : i < j => f[i] < f[j]
  BY <1>1
<1>4. ASSUME NEW i \in 1..Len(s) PROVE t[f[i]] = s[i]
  <2>1. CASE i < k
    <3>1. f[i] = i /\ i \in 1..Len(t)
      BY <1>1, <2>1
    <3> QED BY <1>1, <2>1, <3>1
  <2>2. CASE ~(i < k)
    <3>1. f[i] = i + 1 /\ i + 1 \in 1..Len(t) /\ ~(i + 1 < k) /\ i + 1 # k /\ (i + 1) - 1 = i
      BY <1>1, <2>2
    <3> QED BY <1>1, <3>1
  <2> QED BY <2>1, <2>2
<1> HIDE DEF f
<1> QED BY <1>2, <1>3, <1>4 DEF EmbedsIn

-----------------------------------------------------------------------------
(* Sorted slices. *)

\* Each element of s stands in relation R to all that follow it.
Ordered(s, R) == \A i, j \in 1..Len(s) : i < j => <<s[i], s[j]>> \in R

LEMMA InsertKeepsOrdered ==
  ASSUME NEW S, NEW s \in Seq(S), NEW R, Ordered(s, R), NEW e \in S,
         NEW k \in 1..(Len(s) + 1),
         \A i \in 1..Len(s) : i < k => <<s[i], e>> \in R,
         \A i \in 1..Len(s) : k <= i => <<e, s[i]>> \in R,
         NEW t, t = InsertAt(s, k, e)
  PROVE  Ordered(t, R)
<1>1. /\ t \in Seq(S) /\ Len(t) = Len(s) + 1 /\ Len(s) \in Nat
      /\ \A i \in 1..Len(t) : t[i] = IF i < k THEN s[i] ELSE IF i = k THEN e ELSE s[i - 1]
  BY InsertAtFacts
<1> SUFFICES ASSUME NEW i \in 1..Len(t), NEW j \in 1..Len(t), i < j
             PROVE  <<t[i], t[j]>> \in R
  BY DEF Ordered
<1>2. CASE j < k
  <2>1. i \in 1..Len(s) /\ j \in 1..Len(s) /\ t[i] = s[i] /\ t[j] = s[j]
    BY <1>1, <1>2
  <2> QED BY <2>1 DEF Ordered
<1>3. CASE j = k
  <2>1. i \in 1..Len(s) /\ i < k /\ t[i] = s[i] /\ t[j] = e
    BY <1>1, <1>3
  <2> QED BY <2>1
<1>4. CASE i = k
  <2>1. j - 1 \in 1..Len(s) /\ k <= j - 1 /\ t[i] = e /\ t[j] = s[j - 1]
    BY <1>1, <1>4
  <2> QED BY <2>1
<1>5. CASE k < i
  <2>1. i - 1 \in 1..Len(s) /\ j - 1 \in 1..Len(s) /\ i - 1 < j - 1
    BY <1>1, <1>5
  <2>2. t[i] = s[i - 1]
    BY <1>1, <1>5
  <2>3. t[j] = s[j - 1]
    BY <1>1, <1>5
  <2> QED BY <2>1, <2>2, <2>3 DEF Ordered
<1>6. CASE i < k /\ k < j
  <2>1. i \in 1..Len(s) /\ j - 1 \in 1..Len(s) /\ i < j - 1
    BY <1>1, <1>6
  <2>2. t[i] = s[i]
    BY <1>1, <1>6
  <2>3. t[j] = s[j - 1]
    BY <1>1, <1>6
  <2> QED BY <2>1, <2>2, <2>3 DEF Ordered
<1> QED BY <1>2, <1>3, <1>4, <1>5, <1>6

LEMMA SubSeqFacts ==
  ASSUME NEW S, NEW s \in Seq(S), NEW lo \in 1..(Len(s) + 1), NEW hi \in (lo - 1)..Len(s)
  PROVE  /\ SubSeq(s, lo, hi) \in Seq(S) /\ Len(SubSeq(s, lo, hi)) = hi - lo + 1
         /\ \A i \in 1..(hi - lo + 1) : SubSeq(s, lo, hi)[i] = s[lo + i - 1]
OBVIOUS

\* Of two sorted slices of elements of S, the elements of p come before those of s
\* from lo to hi.
Leads(S, R, p, s, lo, hi) ==
  /\ p \in Seq(S) /\ Ordered(p, R) /\ s \in Seq(S) /\ Ordered(s, R)
  /\ lo \in 1..(Len(s) + 1) /\ hi \in (lo - 1)..Len(s)
  /\ \A i \in 1..Len(p), j \in lo..hi : <<p[i], s[j]>> \in R

\* Slice t has the elements of p, then those of s from lo to hi.
Spliced(t, p, s, lo, hi) ==
  /\ Len(t) = Len(p) + (hi - lo + 1)
  /\ \A i \in 1..Len(p) : t[i] = p[i]
  /\ \A i \in (Len(p) + 1)..Len(t) :
       lo + (i - Len(p)) - 1 \in lo..hi /\ t[i] = s[lo + (i - Len(p)) - 1]
  /\ \A j \in lo..hi :
       Len(p) + (j - lo) + 1 \in 1..Len(t) /\ t[Len(p) + (j - lo) + 1] = s[j]

LEMMA ConcatKeepsOrdered ==
  ASSUME NEW S, NEW R, NEW p, NEW s, NEW lo, NEW hi, Leads(S, R, p, s, lo, hi),
         NEW t, t = p \o SubSeq(s, lo, hi)
  PROVE  t \in Seq(S) /\ Ordered(t, R) /\ Spliced(t, p, s, lo, hi)
<1>0. /\ p \in Seq(S) /\ Ordered(p, R) /\ s \in Seq(S) /\ Ordered(s, R)
      /\ lo \in 1..(Len(s) + 1) /\ hi \in (lo - 1)..Len(s)
      /\ \A i \in 1..Len(p), j \in lo..hi : <<p[i], s[j]>> \in R
  BY DEF Leads
<1> DEFINE q == SubSeq(s, lo, hi)
           lp == Len(p)
<1>1. /\ q \in Seq(S) /\ Len(q) = hi - lo + 1
      /\ \A i \in 1..(hi - lo + 1) : q[i] = s[lo + i - 1]
  BY <1>0, SubSeqFacts
<1> HIDE DEF q
<1>2. /\ t \in Seq(S) /\ Len(t) = lp + Len(q)
      /\ \A i \in 1..lp : t[i] = p[i]
      /\ \A i \in 1..Len(q) : t[lp + i] = q[i]
  <2> DEFINE u == p \o q
  <2>1. p \in Seq(S) /\ q \in Seq(S)
    BY <1>0, <1>1
  <2>2. /\ u \in Seq(S) /\ Len(u) = lp + Len(q)
        /\ \A i \in 1..lp : u[i] = p[i]
        /\ \A i \in 1..Len(q) : u[lp + i] = q[i]
    BY ONLY <2>1, ConcatFacts
  <2> HIDE DEF u
  <2>3. t = u
    BY DEF u, q
  <2> QED BY <2>2, <2>3
<1>3. /\ lp \in Nat /\ lo \in Nat /\ hi \in Int /\ lo <= hi + 1
      /\ Len(s) \in Nat /\ lo..hi \subseteq 1..Len(s)
  BY <1>0
<1> HIDE DEF lp
<1>4. ASSUME NEW i \in (lp + 1)..Len(t)
      PROVE  lo + (i - lp) - 1 \in lo..hi /\ t[i] = s[lo + (i - lp) - 1]
  <2> DEFINE k == i - lp
  <2>1. k \in 1..(hi - lo + 1) /\ lp + k = i
    BY <1>1, <1>2, <1>3
  <2> HIDE DEF k
  <2>2. t[lp + k] = q[k] /\ q[k] = s[lo + k - 1]
    BY <1>1, <1>2, <2>1
  <2>3. lo + k - 1 \in lo..hi
    BY ONLY <1>3, <2>1
  <2> QED BY <2>1, <2>2, <2>3 DEF k
<1>5. ASSUME NEW j \in lo..hi
      PROVE  lp + (j - lo) + 1 \in 1..Len(t) /\ t[lp + (j - lo) + 1] = s[j]
  <2> DEFINE k == (j - lo) + 1
  <2>1. k \in 1..(hi - lo + 1) /\ lo + k - 1 = j
    BY <1>3
  <2> HIDE DEF k
  <2>2. t[lp + k] = q[k] /\ q[k] = s[lo + k - 1]
    BY <1>1, <1>2, <2>1
  <2>4. lp + k \in 1..Len(t)
    BY ONLY <1>1, <1>2, <1>3, <2>1
  <2>3. lp + (j - lo) + 1 = lp + k
    BY <1>3 DEF k
  <2> QED BY <2>1, <2>2, <2>3, <2>4
<1>6. ASSUME NEW i \in 1..Len(t), NEW j \in 1..Len(t), i < j PROVE <<t[i], t[j]>> \in R
  <2>1. CASE j <= lp
    <3>1. i \in 1..lp /\ j \in 1..lp
      BY <1>3, <1>6, <2>1
    <3> QED BY <1>0, <1>2, <1>6, <3>1 DEF Ordered, lp
  <2>2. CASE i <= lp /\ lp < j
    <3>1. i \in 1..lp /\ j \in (lp + 1)..Len(t)
      BY <1>3, <2>2
    <3>2. lo + (j - lp) - 1 \in lo..hi /\ t[j] = s[lo + (j - lp) - 1] /\ t[i] = p[i]
      BY <1>2, <1>4, <3>1
    <3> DEFINE m == lo + (j - lp) - 1
    <3>3. m \in lo..hi /\ t[j] = s[m] /\ t[i] = p[i]
      BY <3>2
    <3>4. i \in 1..Len(p)
      BY <3>1 DEF lp
    <3> HIDE DEF m
    <3> QED BY <1>0, <3>3, <3>4
  <2>3. CASE lp < i
    <3> DEFINE m == lo + (i - lp) - 1
               n == lo + (j - lp) - 1
    <3>1. i \in (lp + 1)..Len(t) /\ j \in (lp + 1)..Len(t)
      BY <1>3, <1>6, <2>3
    <3>2. m \in lo..hi /\ t[i] = s[m] /\ n \in lo..hi /\ t[j] = s[n]
      BY <1>4, <3>1
    <3>3. m < n
      BY ONLY <1>3, <1>6, <3>1
    <3> HIDE DEF m, n
    <3>4. m \in 1..Len(s) /\ n \in 1..Len(s)
      BY ONLY <1>3, <3>2
    <3> QED BY <1>0, <3>2, <3>3, <3>4 DEF Ordered
  <2>4. i \in Int /\ j \in Int /\ i < j
    BY <1>2, <1>6
  <2>5. j <= lp \/ (i <= lp /\ lp < j) \/ lp < i
    BY ONLY <1>3, <2>4
  <2> QED BY <2>1, <2>2, <2>3, <2>5
<1>7. Len(t) = lp + (hi - lo + 1)
  BY <1>1, <1>2
<1> QED BY <1>2, <1>4, <1>5, <1>6, <1>7 DEF Ordered, Spliced, lp

\* What is inserted in a slice is inserted in the slice of a field of its elements.
FieldOf(field, s) == [i \in DOMAIN s |-> field[s[i]]]

LEMMA FieldInserted ==
  ASSUME NEW S, NEW T, NEW field \in [S -> T], NEW s \in Seq(S), NEW e \in S,
         NEW k \in 1..(Len(s) + 1)
  PROVE  FieldOf(field, InsertAt(s, k, e)) = InsertAt(FieldOf(field, s), k, field[e])
<1> DEFINE t == InsertAt(s, k, e)
           u == FieldOf(field, s)
           v == InsertAt(u, k, field[e])
<1>1. /\ t \in Seq(S) /\ Len(t) = Len(s) + 1
      /\ \A i \in 1..Len(t) : t[i] = IF i < k THEN s[i] ELSE IF i = k THEN e ELSE s[i - 1]
  BY InsertAtFacts
<1>2. u \in Seq(T) /\ Len(u) = Len(s) /\ \A i \in 1..Len(s) : u[i] = field[s[i]]
  BY DEF FieldOf
<1> HIDE DEF t, u
<1>3. /\ v \in Seq(T) /\ Len(v) = Len(u) + 1
      /\ \A i \in 1..Len(v) : v[i] = IF i < k THEN u[i]
                                     ELSE IF i = k THEN field[e] ELSE u[i - 1]
  BY <1>2, InsertAtFacts
<1> HIDE DEF v
<1>4. DOMAIN t = 1..(Len(s) + 1) /\ v = [i \in 1..(Len(s) + 1) |-> v[i]]
  BY <1>1, <1>2, <1>3
<1>5. ASSUME NEW i \in 1..(Len(s) + 1) PROVE v[i] = field[t[i]]
  <2>1. CASE i < k
    <3>1. i \in 1..Len(s)
      BY <2>1
    <3> QED BY <1>1, <1>2, <1>3, <2>1, <3>1
  <2>2. CASE i = k
    BY <1>1, <1>2, <1>3, <2>2
  <2>3. CASE i > k
    <3>1. i - 1 \in 1..Len(s) /\ ~(i < k) /\ i # k
      BY <2>3
    <3> QED BY <1>1, <1>2, <1>3, <3>1
  <2> QED BY <2>1, <2>2, <2>3
<1>6. FieldOf(field, t) = v
  BY <1>4, <1>5 DEF FieldOf
<1> QED BY <1>6 DEF t, u, v

-----------------------------------------------------------------------------
(* The order of strings. *)

LEMMA StringLessIsTransitive ==
  ASSUME NEW p \in Seq(Int), NEW q \in Seq(Int), NEW r \in Seq(Int),
         StringLess(p, q), StringLess(q, r)
  PROVE  StringLess(p, r)
<1>1. PICK i \in 1..Len(q) : /\ i <= Len(p) + 1
                             /\ \A k \in 1..(i - 1) : p[k] = q[k]
                             /\ i <= Len(p) => p[i] < q[i]
  BY DEF StringLess
<1>2. PICK j \in 1..Len(r) : /\ j <= Len(q) + 1
                             /\ \A k \in 1..(j - 1) : q[k] = r[k]
                             /\ j <= Len(q) => q[j] < r[j]
  BY DEF StringLess
<1>3. CASE i < j
  <2>1. i \in 1..(j - 1) /\ i \in 1..Len(r) /\ 1..(i - 1) \subseteq 1..(j - 1)
    BY <1>3
  <2>2. \A k \in 1..(i - 1) : p[k] = r[k]
    BY ONLY <1>1, <1>2, <2>1
  <2>3. q[i] = r[i]
    BY <1>2, <2>1
  <2> QED BY <1>1, <2>1, <2>2, <2>3 DEF StringLess
<1>4. CASE j < i
  <2>1. j \in 1..(i - 1) /\ j <= Len(p) + 1 /\ j <= Len(q) /\ 1..(j - 1) \subseteq 1..(i - 1)
    <3>1. j \in 1..(i - 1) /\ 1..(j - 1) \subseteq 1..(i - 1) /\ j <= Len(q)
      BY <1>4
    <3>2. Len(p) \in Nat
      OBVIOUS
    <3>3. j <= Len(p) + 1
      BY ONLY <1>1, <1>4, <3>2, i \in 1..Len(q), j \in 1..Len(r)
    <3> QED BY <1>1, <1>4, <3>1, <3>3
  <2>2. \A k \in 1..(j - 1) : p[k] = r[k]
    BY ONLY <1>1, <1>2, <2>1
  <2>3. p[j] = q[j] /\ q[j] < r[j]
    BY <1>1, <1>2, <2>1
  <2> QED BY <2>1, <2>2, <2>3 DEF StringLess
<1>5. CASE i = j
  <2>1. \A k \in 1..(i - 1) : p[k] = r[k]
    BY ONLY <1>1, <1>2, <1>5
  <2>2. i <= Len(p) => p[i] < r[i]
    <3>1. ASSUME i <= Len(p) PROVE p[i] < r[i]
      <4>1. i \in 1..Len(p) /\ i \in 1..Len(q) /\ i \in 1..Len(r)
        BY <1>5, <3>1
      <4>2. p[i] \in Int /\ q[i] \in Int /\ r[i] \in Int
        BY <4>1
      <4>3. p[i] < q[i] /\ q[i] < r[i]
        BY <1>1, <1>2, <1>5, <3>1, <4>1
      <4> QED BY ONLY <4>2, <4>3
    <3> QED BY <3>1
  <2> QED BY <1>1, <1>2, <1>5, <2>1, <2>2 DEF StringLess
<1> QED BY <1>1, <1>2, <1>3, <1>4, <1>5

LEMMA StringLessIsIrreflexive == ASSUME NEW p \in Seq(Int) PROVE ~StringLess(p, p)
BY DEF StringLess

LEMMA StringLessIsTotal ==
  ASSUME NEW p \in Seq(Int), NEW q \in Seq(Int), p # q
  PROVE  StringLess(p, q) \/ StringLess(q, p)
<1> DEFINE apart == {i \in Nat \ {0} : i > Len(p) \/ i > Len(q) \/ p[i] # q[i]}
<1>1. Len(p) + 1 \in apart /\ apart \subseteq Nat
  OBVIOUS
<1>2. PICK i \in apart : \A j \in apart : i <= j
  <2> HIDE DEF apart
  <2> QED BY <1>1, FirstNatural
<1>3. /\ i \in Nat \ {0} /\ i <= Len(p) + 1 /\ i <= Len(q) + 1
      /\ \A j \in 1..(i - 1) : p[j] = q[j]
  <2>1. Len(q) + 1 \in apart
    OBVIOUS
  <2>2. ASSUME NEW j \in 1..(i - 1) PROVE p[j] = q[j]
    <3>1. j \notin apart /\ j \in Nat \ {0}
      BY <1>2
    <3> QED BY <3>1
  <2> QED BY <1>1, <1>2, <2>1, <2>2
<1>4. CASE i <= Len(p) /\ i <= Len(q)
  <2>1. p[i] \in Int /\ q[i] \in Int /\ p[i] # q[i]
    BY <1>2, <1>4
  <2>2. CASE p[i] < q[i]
    BY <1>3, <1>4, <2>2 DEF StringLess
  <2>3. CASE q[i] < p[i]
    BY <1>3, <1>4, <2>3 DEF StringLess
  <2> QED BY <2>1, <2>2, <2>3
<1>5. CASE i > Len(p) /\ i <= Len(q)
  BY <1>3, <1>5 DEF StringLess
<1>6. CASE i <= Len(p) /\ i > Len(q)
  BY <1>3, <1>6 DEF StringLess
<1>7. CASE i > Len(p) /\ i > Len(q)
  <2>1. Len(p) = Len(q) /\ \A j \in 1..Len(p) : p[j] = q[j]
    BY <1>3, <1>7
  <2>2. p = [j \in 1..Len(p) |-> p[j]] /\ q = [j \in 1..Len(q) |-> q[j]]
    OBVIOUS
  <2> QED BY <2>1, <2>2
<1> QED BY <1>3, <1>4, <1>5, <1>6, <1>7

-----------------------------------------------------------------------------
(* Threads. *)

\* cs is a map of comments by id in which each answers an older one, or nobody.
Answering(cs) ==
  /\ DOMAIN cs \subseteq Nat
  /\ \A c \in DOMAIN cs : cs[c].parent # Nil =>
       cs[c].parent \in DOMAIN cs /\ cs[c].parent < c

\* The recursion of Ancestors has a solution: what every set contains that has the
\* parent and with each comment the one it answers.
LEMMA AncestorsFacts ==
  ASSUME NEW cs, Answering(cs), NEW above, above = Ancestors(cs)
  PROVE  \A c \in DOMAIN cs :
           above[c] = IF cs[c].parent = Nil THEN {}
                      ELSE {cs[c].parent} \cup above[cs[c].parent]
<1> DEFINE closed(T) == \A x \in T : cs[x].parent # Nil => cs[x].parent \in T
           upper(c) == IF cs[c].parent = Nil THEN {}
                       ELSE {a \in DOMAIN cs : \A T \in SUBSET DOMAIN cs :
                               cs[c].parent \in T /\ closed(T) => a \in T}
           eqn(g) == g = [c \in DOMAIN cs |-> IF cs[c].parent = Nil THEN {}
                                              ELSE {cs[c].parent} \cup g[cs[c].parent]]
<1>1. ASSUME NEW c \in DOMAIN cs, cs[c].parent # Nil
      PROVE  upper(c) = {cs[c].parent} \cup upper(cs[c].parent)
  <2> DEFINE p == cs[c].parent
             T0 == {p} \cup upper(p)
  <2>1. p \in DOMAIN cs
    BY <1>1 DEF Answering
  <2>2. p \in upper(c)
    BY <1>1, <2>1
  <2>3. ASSUME NEW a \in upper(p) PROVE a \in upper(c)
    <3>1. cs[p].parent # Nil /\ a \in DOMAIN cs
      BY <2>3
    <3>2. ASSUME NEW T \in SUBSET DOMAIN cs, p \in T, closed(T) PROVE a \in T
      BY <2>3, <3>1, <3>2
    <3> QED BY <1>1, <3>1, <3>2
  <2>4. ASSUME NEW a \in upper(c) PROVE a \in T0
    <3>1. T0 \in SUBSET DOMAIN cs /\ p \in T0
      BY <2>1
    <3>2. ASSUME NEW x \in T0, cs[x].parent # Nil PROVE cs[x].parent \in T0
      <4> DEFINE y == cs[x].parent
      <4>1. y \in DOMAIN cs
        BY <3>1, <3>2 DEF Answering
      <4>2. CASE x = p
        <5>1. y \in upper(p)
          BY <3>2, <4>1, <4>2
        <5> QED BY <5>1
      <4>3. CASE x \in upper(p)
        <5>1. cs[p].parent # Nil
          BY <4>3
        <5>2. ASSUME NEW T \in SUBSET DOMAIN cs, cs[p].parent \in T, closed(T) PROVE y \in T
          <6>1. x \in T
            BY <4>3, <5>1, <5>2
          <6> QED BY <3>2, <5>2, <6>1
        <5>3. y \in upper(p)
          BY <4>1, <5>1, <5>2
        <5> QED BY <5>3
      <4> QED BY <4>2, <4>3
    <3>3. closed(T0)
      BY <3>2
    <3> HIDE DEF T0
    <3> QED BY <1>1, <2>4, <3>1, <3>3
  <2> QED BY <2>2, <2>3, <2>4
<1>2. eqn([c \in DOMAIN cs |-> upper(c)])
  <2>1. \A c \in DOMAIN cs : upper(c) = IF cs[c].parent = Nil THEN {}
                                       ELSE {cs[c].parent} \cup upper(cs[c].parent)
    BY <1>1
  <2>2. \A c \in DOMAIN cs : cs[c].parent # Nil => cs[c].parent \in DOMAIN cs
    BY DEF Answering
  <2> HIDE DEF upper
  <2> QED BY <2>1, <2>2
<1>3. above = CHOOSE g : eqn(g)
  BY DEF Ancestors
<1>4. eqn(above)
  <2> HIDE DEF eqn
  <2> QED BY <1>2, <1>3
<1> QED BY <1>4

\* A set that has the parent of each of its comments has everything above them.
LEMMA AncestorsWithin ==
  ASSUME NEW cs, Answering(cs), NEW D \in SUBSET DOMAIN cs,
         \A c \in D : cs[c].parent # Nil => cs[c].parent \in D, NEW c \in D
  PROVE  Ancestors(cs)[c] \subseteq D
<1> DEFINE above == Ancestors(cs)
           T == {n \in Nat : n \in D => above[n] \subseteq D}
<1>1. \A d \in DOMAIN cs : above[d] = IF cs[d].parent = Nil THEN {}
                                      ELSE {cs[d].parent} \cup above[cs[d].parent]
  BY AncestorsFacts
<1> HIDE DEF above
<1>2. ASSUME NEW n \in Nat, \A m \in 0..(n - 1) : m \in T PROVE n \in T
  <2> SUFFICES ASSUME n \in D PROVE above[n] \subseteq D
    OBVIOUS
  <2>1. CASE cs[n].parent = Nil
    BY <1>1, <2>1
  <2>2. CASE cs[n].parent # Nil
    <3> DEFINE p == cs[n].parent
    <3>1. p \in D /\ p < n /\ p \in Nat
      BY <2>2 DEF Answering
    <3>2. above[p] \subseteq D
      BY <1>2, <3>1
    <3>3. above[n] = {p} \cup above[p]
      BY <1>1, <2>2
    <3> QED BY <3>1, <3>2, <3>3
  <2> QED BY <2>1, <2>2
<1>3. Nat \subseteq T
  <2> HIDE DEF T
  <2> QED BY <1>2, StrongInduction
<1>4. c \in Nat
  BY DEF Answering
<1> QED BY <1>3, <1>4 DEF above

\* The comment that is answered is the first of those above.
LEMMA ParentIsAncestor ==
  ASSUME NEW cs, Answering(cs), NEW c \in DOMAIN cs, cs[c].parent # Nil
  PROVE  cs[c].parent \in Ancestors(cs)[c]
<1> DEFINE above == Ancestors(cs)
<1>1. above = Ancestors(cs)
  OBVIOUS
<1> HIDE DEF above
<1>2. \A x \in DOMAIN cs : above[x] = IF cs[x].parent = Nil THEN {}
                                     ELSE {cs[x].parent} \cup above[cs[x].parent]
  BY ONLY Answering(cs), <1>1, AncestorsFacts
<1>3. cs[c].parent \in above[c]
  BY ONLY <1>2, cs[c].parent # Nil, c \in DOMAIN cs
<1> QED BY <1>1, <1>3

LEMMA AncestorsAreOlder ==
  ASSUME NEW cs, Answering(cs), NEW c \in DOMAIN cs
  PROVE  \A a \in Ancestors(cs)[c] : a \in DOMAIN cs /\ a < c
<1> DEFINE above == Ancestors(cs)
           T == {n \in Nat : n \in DOMAIN cs => \A a \in above[n] : a \in DOMAIN cs /\ a < n}
<1>1. \A x \in DOMAIN cs : above[x] = IF cs[x].parent = Nil THEN {}
                                     ELSE {cs[x].parent} \cup above[cs[x].parent]
  BY AncestorsFacts
<1> HIDE DEF above
<1>2. ASSUME NEW n \in Nat, \A m \in 0..(n - 1) : m \in T PROVE n \in T
  <2> SUFFICES ASSUME n \in DOMAIN cs, NEW a \in above[n] PROVE a \in DOMAIN cs /\ a < n
    OBVIOUS
  <2> DEFINE p == cs[n].parent
  <2>1. p # Nil /\ (a = p \/ a \in above[p])
    BY <1>1
  <2>2. p \in DOMAIN cs /\ p < n /\ p \in Nat
    BY <2>1 DEF Answering
  <2> HIDE DEF p
  <2>3. p \in T
    BY <1>2, <2>2
  <2>4. CASE a \in above[p]
    <3>1. a \in DOMAIN cs /\ a < p
      BY <2>2, <2>3, <2>4
    <3>2. a \in Nat
      BY <3>1 DEF Answering
    <3> QED BY <2>2, <3>1, <3>2
  <2> QED BY <2>1, <2>2, <2>4
<1>3. Nat \subseteq T
  <2> HIDE DEF T
  <2> QED BY <1>2, StrongInduction
<1>4. c \in T
  BY <1>3 DEF Answering
<1> QED BY <1>4 DEF above

-----------------------------------------------------------------------------
(* Paths. *)

\* text has numerals of one width w, in the order of their numbers.
Numerals(text, w) ==
  /\ w \in Nat \ {0} /\ DOMAIN text \subseteq Nat
  /\ \A n \in DOMAIN text : text[n] \in Seq(Nat) /\ Len(text[n]) = w
  /\ \A m, n \in DOMAIN text : m < n => StringLess(text[m], text[n])

\* The path of a comment is that of the one it answers, a dot and its numeral.
Pathed(cs, path, text) ==
  /\ DOMAIN cs \subseteq DOMAIN text
  /\ \A c \in DOMAIN cs :
       /\ path[c] \in Seq(Int)
       /\ path[c] = IF cs[c].parent = Nil THEN text[c]
                    ELSE path[cs[c].parent] \o <<Dot>> \o text[c]

LEMMA ConcatInts ==
  ASSUME NEW p \in Seq(Int), NEW q \in Seq(Int)
  PROVE  /\ p \o q \in Seq(Int) /\ Len(p \o q) = Len(p) + Len(q)
         /\ \A i \in 1..Len(p) : (p \o q)[i] = p[i]
         /\ \A i \in 1..Len(q) : (p \o q)[Len(p) + i] = q[i]
OBVIOUS

LEMMA NatsAreInts == ASSUME NEW t \in Seq(Nat) PROVE t \in Seq(Int)
<1>1. t = [i \in 1..Len(t) |-> t[i]] /\ \A i \in 1..Len(t) : t[i] \in Int
  OBVIOUS
<1> QED BY <1>1

LEMMA ReplyPath ==
  ASSUME NEW p \in Seq(Int), NEW t \in Seq(Nat)
  PROVE  LET q == p \o <<Dot>> \o t
         IN  /\ q \in Seq(Int) /\ Len(q) = Len(p) + 1 + Len(t)
             /\ \A i \in 1..Len(p) : q[i] = p[i]
             /\ q[Len(p) + 1] = Dot
             /\ \A i \in 1..Len(t) : q[Len(p) + 1 + i] = t[i]
<1> DEFINE r == p \o <<Dot>>
           q == r \o t
<1>1. t \in Seq(Int)
  BY NatsAreInts
<1>2. /\ r \in Seq(Int) /\ Len(r) = Len(p) + 1
      /\ \A i \in 1..Len(p) : r[i] = p[i]
      /\ r[Len(p) + 1] = Dot
  <2>1. Dot \in Int
    BY DEF Dot
  <2> QED BY <2>1
<1> HIDE DEF r
<1>3. /\ q \in Seq(Int) /\ Len(q) = Len(r) + Len(t)
      /\ \A i \in 1..Len(r) : q[i] = r[i]
      /\ \A i \in 1..Len(t) : q[Len(r) + i] = t[i]
  <2>1. r \in Seq(Int) /\ t \in Seq(Int)
    BY <1>1, <1>2
  <2> QED BY ONLY <2>1, ConcatInts
<1> HIDE DEF q
<1>4. /\ q \in Seq(Int) /\ Len(q) = Len(p) + 1 + Len(t)
      /\ \A i \in 1..Len(p) : q[i] = p[i]
      /\ q[Len(p) + 1] = Dot
      /\ \A i \in 1..Len(t) : q[Len(p) + 1 + i] = t[i]
  <2>1. Len(p) \in Nat
    OBVIOUS
  <2> QED BY <1>2, <1>3, <2>1
<1> QED BY <1>4 DEF q, r

\* A path ends with the numeral of its comment.
LEMMA PathEnd ==
  ASSUME NEW cs, NEW path, NEW text, NEW w, Answering(cs), Numerals(text, w),
         Pathed(cs, path, text), NEW c \in DOMAIN cs
  PROVE  /\ path[c] \in Seq(Int) /\ text[c] \in Seq(Nat) /\ Len(text[c]) = w
         /\ Len(path[c]) >= w
         /\ \A i \in 1..w : path[c][Len(path[c]) - w + i] = text[c][i]
<1> DEFINE p == cs[c].parent
<1>1. /\ path[c] \in Seq(Int) /\ text[c] \in Seq(Nat) /\ Len(text[c]) = w
      /\ w \in Nat \ {0}
  BY DEF Pathed, Numerals
<1>2. CASE p = Nil
  <2>1. path[c] = text[c]
    BY <1>2 DEF Pathed
  <2> QED BY <1>1, <2>1
<1>3. CASE p # Nil
  <2>1. path[p] \in Seq(Int)
    BY <1>3 DEF Answering, Pathed
  <2>2. path[c] = path[p] \o <<Dot>> \o text[c]
    BY <1>3 DEF Pathed
  <2>3. /\ Len(path[c]) = Len(path[p]) + 1 + w
        /\ \A i \in 1..w : path[c][Len(path[p]) + 1 + i] = text[c][i]
    <3> DEFINE q == path[p] \o <<Dot>> \o text[c]
    <3>1. /\ Len(q) = Len(path[p]) + 1 + Len(text[c])
          /\ \A i \in 1..Len(text[c]) : q[Len(path[p]) + 1 + i] = text[c][i]
      BY ONLY <1>1, <2>1, ReplyPath
    <3> HIDE DEF q
    <3> QED BY <1>1, <2>2, <3>1 DEF q
  <2>4. Len(path[p]) \in Nat
    BY <2>1
  <2> HIDE DEF p
  <2>5. Len(path[c]) - w = Len(path[p]) + 1 /\ Len(path[c]) >= w
    BY <1>1, <2>3, <2>4
  <2>6. \A i \in 1..w : path[c][Len(path[c]) - w + i] = text[c][i]
    BY <2>3, <2>5
  <2> QED BY <1>1, <2>5, <2>6
<1> QED BY <1>2, <1>3

\* Strings that agree at every place are in no order.
LEMMA EqualIsNotLess ==
  ASSUME NEW w, NEW a \in Seq(Nat), NEW b \in Seq(Nat), Len(a) = w, Len(b) = w,
         \A i \in 1..w : a[i] = b[i]
  PROVE  ~StringLess(a, b) /\ ~StringLess(b, a)
<1>1. \A i \in 1..w : a[i] \in Nat /\ b[i] \in Nat
  OBVIOUS
<1>2. Len(a) \in Nat /\ Len(b) \in Nat
  OBVIOUS
<1> QED BY ONLY <1>1, <1>2, Len(a) = w, Len(b) = w, \A i \in 1..w : a[i] = b[i] DEF StringLess

LEMMA PathsDiffer ==
  ASSUME NEW cs, NEW path, NEW text, NEW w, Answering(cs), Numerals(text, w),
         Pathed(cs, path, text), NEW c \in DOMAIN cs, NEW d \in DOMAIN cs,
         path[c] = path[d]
  PROVE  c = d
<1>1. /\ text[c] \in Seq(Nat) /\ Len(text[c]) = w
      /\ \A i \in 1..w : path[c][Len(path[c]) - w + i] = text[c][i]
  BY ONLY Answering(cs), Numerals(text, w), Pathed(cs, path, text), c \in DOMAIN cs,
          PathEnd
<1>2. /\ text[d] \in Seq(Nat) /\ Len(text[d]) = w
      /\ \A i \in 1..w : path[d][Len(path[d]) - w + i] = text[d][i]
  BY ONLY Answering(cs), Numerals(text, w), Pathed(cs, path, text), d \in DOMAIN cs,
          PathEnd
<1>3. ~StringLess(text[c], text[d]) /\ ~StringLess(text[d], text[c])
  <2>1. \A i \in 1..w : text[c][i] = text[d][i]
    BY ONLY <1>1, <1>2, path[c] = path[d]
  <2> QED BY ONLY <1>1, <1>2, <2>1, EqualIsNotLess
<1>4. c \in Nat /\ d \in Nat /\ c \in DOMAIN text /\ d \in DOMAIN text
  BY DEF Answering, Pathed
<1> QED BY <1>3, <1>4 DEF Numerals

\* String p begins with string q, and goes on.
Extends(p, q) == Len(q) < Len(p) /\ \A i \in 1..Len(q) : p[i] = q[i]

LEMMA ExtensionIsGreater ==
  ASSUME NEW p \in Seq(Int), NEW q \in Seq(Int), Extends(p, q)
  PROVE  StringLess(q, p)
<1>1. Len(q) + 1 \in 1..Len(p)
  BY DEF Extends
<1> QED BY <1>1 DEF Extends, StringLess

\* What lies between a string and an extension of it is an extension too.
LEMMA BetweenExtensions ==
  ASSUME NEW q \in Seq(Int), NEW x \in Seq(Int), NEW p \in Seq(Int),
         Extends(p, q), StringLess(q, x), ~StringLess(p, x)
  PROVE  Extends(x, q)
<1>1. PICK i \in 1..Len(x) : /\ i <= Len(q) + 1
                             /\ \A j \in 1..(i - 1) : q[j] = x[j]
                             /\ i <= Len(q) => q[i] < x[i]
  BY DEF StringLess
<1>2. CASE i <= Len(q)
  <2>1. /\ i <= Len(p) + 1 /\ i <= Len(p)
        /\ i \in 1..Len(q) /\ 1..(i - 1) \subseteq 1..Len(q)
    BY <1>2 DEF Extends
  <2>2. p[i] = q[i] /\ \A j \in 1..(i - 1) : p[j] = x[j]
    BY <1>1, <2>1 DEF Extends
  <2>3. p[i] < x[i]
    BY <1>1, <1>2, <2>2
  <2>4. StringLess(p, x)
    BY <2>1, <2>2, <2>3 DEF StringLess
  <2> QED BY <2>4
<1>3. CASE i = Len(q) + 1
  BY <1>1, <1>3 DEF Extends
<1> QED BY <1>1, <1>2, <1>3

\* A reply comes after what it answers.
LEMMA ParentIsExtended ==
  ASSUME NEW cs, NEW path, NEW text, NEW w, Answering(cs), Numerals(text, w),
         Pathed(cs, path, text), NEW c \in DOMAIN cs, cs[c].parent # Nil
  PROVE  Extends(path[c], path[cs[c].parent])
<1> DEFINE p == cs[c].parent
<1>1. path[p] \in Seq(Int) /\ text[c] \in Seq(Nat)
  BY DEF Answering, Pathed, Numerals
<1>2. path[c] = path[p] \o <<Dot>> \o text[c]
  BY DEF Pathed
<1>3. /\ Len(path[c]) = Len(path[p]) + 1 + Len(text[c])
      /\ \A i \in 1..Len(path[p]) : path[c][i] = path[p][i]
  <2> DEFINE q == path[p] \o <<Dot>> \o text[c]
  <2>1. /\ Len(q) = Len(path[p]) + 1 + Len(text[c])
        /\ \A i \in 1..Len(path[p]) : q[i] = path[p][i]
    BY ONLY <1>1, ReplyPath
  <2> QED BY <1>2, <2>1
<1>4. Len(path[p]) \in Nat /\ Len(text[c]) \in Nat
  BY <1>1
<1>5. Len(path[p]) < Len(path[c])
  <2> DEFINE m == Len(path[p])
             n == Len(text[c])
             l == Len(path[c])
  <2>1. l = m + 1 + n /\ m \in Nat /\ n \in Nat
    BY <1>3, <1>4
  <2> HIDE DEF l, m, n
  <2>2. m < l
    BY <2>1
  <2> QED BY <2>2 DEF l, m
<1> HIDE DEF p
<1>6. Extends(path[c], path[p])
  BY ONLY <1>3, <1>5 DEF Extends
<1> QED BY <1>6 DEF p

\* The comments above one are those whose paths its own extends.
LEMMA AncestorsAreExtended ==
  ASSUME NEW cs, NEW path, NEW text, NEW w, Answering(cs), Numerals(text, w),
         Pathed(cs, path, text), NEW c \in DOMAIN cs, NEW a \in Ancestors(cs)[c]
  PROVE  Extends(path[c], path[a])
<1> DEFINE above == Ancestors(cs)
           T == {n \in Nat : n \in DOMAIN cs => \A b \in above[n] : Extends(path[n], path[b])}
<1>1. \A x \in DOMAIN cs : above[x] = IF cs[x].parent = Nil THEN {}
                                     ELSE {cs[x].parent} \cup above[cs[x].parent]
  <2>1. above = Ancestors(cs)
    OBVIOUS
  <2> HIDE DEF above
  <2> QED BY ONLY Answering(cs), <2>1, AncestorsFacts
<1>2. \A x \in DOMAIN cs : \A b \in above[x] : b \in DOMAIN cs
  BY AncestorsAreOlder
<1> HIDE DEF above
<1>3. ASSUME NEW n \in Nat, \A m \in 0..(n - 1) : m \in T PROVE n \in T
  <2> SUFFICES ASSUME n \in DOMAIN cs, NEW b \in above[n] PROVE Extends(path[n], path[b])
    OBVIOUS
  <2> DEFINE p == cs[n].parent
  <2>1. p # Nil /\ (b = p \/ b \in above[p])
    BY <1>1
  <2>2. p \in DOMAIN cs /\ p < n /\ p \in Nat
    BY <2>1 DEF Answering
  <2>3. Extends(path[n], path[p])
    BY <2>1, ParentIsExtended
  <2> HIDE DEF p
  <2>4. p \in T
    BY <1>3, <2>2
  <2>5. CASE b \in above[p]
    <3>1. Extends(path[p], path[b])
      BY <2>2, <2>4, <2>5
    <3>2. b \in DOMAIN cs
      BY <1>2
    <3>3. Len(path[n]) \in Nat /\ Len(path[p]) \in Nat /\ Len(path[b]) \in Nat
      <4>1. path[n] \in Seq(Int) /\ path[p] \in Seq(Int) /\ path[b] \in Seq(Int)
        BY <2>2, <3>2 DEF Pathed
      <4> QED BY <4>1
    <3> QED BY <2>3, <3>1, <3>3 DEF Extends
  <2> QED BY <2>1, <2>3, <2>5
<1>4. Nat \subseteq T
  <2> HIDE DEF T
  <2> QED BY <1>3, StrongInduction
<1>5. c \in T
  BY <1>4 DEF Answering
<1> QED BY <1>5 DEF above

LEMMA ExtendedIsAncestor ==
  ASSUME NEW cs, NEW path, NEW text, NEW w, Answering(cs), Numerals(text, w),
         Pathed(cs, path, text), NEW c \in DOMAIN cs, NEW a \in DOMAIN cs,
         Extends(path[c], path[a])
  PROVE  a \in Ancestors(cs)[c]
<1> DEFINE above == Ancestors(cs)
           T == {n \in Nat : n \in DOMAIN cs /\ Extends(path[n], path[a]) => a \in above[n]}
           la == Len(path[a])
<1>1. \A x \in DOMAIN cs : above[x] = IF cs[x].parent = Nil THEN {}
                                     ELSE {cs[x].parent} \cup above[cs[x].parent]
  BY AncestorsFacts
<1> HIDE DEF above
<1>2. /\ path[a] \in Seq(Int) /\ la \in Nat /\ la >= w /\ w \in Nat \ {0}
      /\ \A i \in 1..w : path[a][la - w + i] \in Nat
  <2>1. w \in Nat \ {0}
    BY DEF Numerals
  <2>2. /\ path[a] \in Seq(Int) /\ text[a] \in Seq(Nat) /\ Len(text[a]) = w
        /\ la >= w
        /\ \A i \in 1..w : path[a][la - w + i] = text[a][i]
    BY PathEnd
  <2>3. la \in Nat
    BY <2>2
  <2> HIDE DEF la
  <2>4. \A i \in 1..w : text[a][i] \in Nat
    BY <2>2
  <2> QED BY <2>1, <2>2, <2>3, <2>4
<1>3. ASSUME NEW n \in Nat, \A m \in 0..(n - 1) : m \in T PROVE n \in T
  <2> SUFFICES ASSUME n \in DOMAIN cs, Extends(path[n], path[a]) PROVE a \in above[n]
    OBVIOUS
  <2>1. la < Len(path[n]) /\ \A i \in 1..la : path[n][i] = path[a][i]
    BY DEF Extends
  <2>2. path[n] \in Seq(Int) /\ text[n] \in Seq(Nat) /\ Len(text[n]) = w
    BY DEF Pathed, Numerals
  <2> HIDE DEF la
  <2>3. CASE cs[n].parent = Nil
    <3>1. path[n] = text[n]
      BY <2>3 DEF Pathed
    <3> QED BY <1>2, <2>1, <2>2, <3>1
  <2>4. CASE cs[n].parent # Nil
    <3> DEFINE p == cs[n].parent
               lp == Len(path[p])
    <3>1. p \in DOMAIN cs /\ p < n /\ p \in Nat
      BY <2>4 DEF Answering
    <3>2. path[p] \in Seq(Int) /\ lp \in Nat
      BY <3>1 DEF Pathed
    <3>3. path[n] = path[p] \o <<Dot>> \o text[n]
      BY <2>4 DEF Pathed
    <3>4. /\ Len(path[n]) = lp + 1 + w /\ path[n][lp + 1] = Dot
          /\ \A i \in 1..lp : path[n][i] = path[p][i]
      <4> DEFINE q == path[p] \o <<Dot>> \o text[n]
      <4>1. /\ Len(q) = lp + 1 + Len(text[n]) /\ q[lp + 1] = Dot
            /\ \A i \in 1..lp : q[i] = path[p][i]
        BY ONLY <2>2, <3>2, ReplyPath
      <4> HIDE DEF q, lp
      <4>2. path[n] = q
        BY <3>3 DEF q
      <4> QED BY <2>2, <4>1, <4>2
    <3>5. p \in T
      BY <1>3, <3>1
    <3>6. above[n] = {p} \cup above[p]
      BY <1>1, <2>4
    <3>7. CASE la = lp
      <4>1. \A i \in 1..la : path[a][i] = path[p][i]
        BY <2>1, <3>4, <3>7
      <4>2. path[a] = [i \in 1..la |-> path[a][i]]
        BY <1>2 DEF la
      <4>3. path[p] = [i \in 1..lp |-> path[p][i]]
        BY <3>2
      <4>4. path[a] = path[p]
        BY <3>7, <4>1, <4>2, <4>3
      <4>5. a = p
        BY <3>1, <4>4, PathsDiffer
      <4> QED BY <3>6, <4>5
    <3>8. CASE la < lp
      <4>1. \A i \in 1..la : path[p][i] = path[a][i]
        BY <1>2, <2>1, <3>2, <3>4, <3>8
      <4>2. Extends(path[p], path[a])
        BY <3>8, <4>1 DEF Extends, la
      <4> QED BY <3>1, <3>5, <3>6, <4>2
    <3>9. CASE lp < la
      <4> HIDE DEF p, lp
      <4> DEFINE i == (lp + 1) - (la - w)
      <4>1. lp + 1 \in 1..la /\ i \in 1..w /\ la - w + i = lp + 1
        BY <1>2, <2>1, <3>2, <3>4, <3>9
      <4>2. path[a][lp + 1] \in Nat
        BY <1>2, <4>1
      <4>3. path[a][lp + 1] = Dot
        BY <2>1, <3>4, <4>1
      <4> QED BY <4>2, <4>3 DEF Dot
    <3> QED BY <1>2, <3>2, <3>7, <3>8, <3>9
  <2> QED BY <2>3, <2>4
<1>4. Nat \subseteq T
  <2> HIDE DEF T
  <2> QED BY <1>3, StrongInduction
<1>5. c \in T
  BY <1>4 DEF Answering
<1> QED BY <1>5 DEF above

\* Siblings come in the order of their numbers.
LEMMA SiblingsInOrder ==
  ASSUME NEW cs, NEW path, NEW text, NEW w, Answering(cs), Numerals(text, w),
         Pathed(cs, path, text), NEW a \in DOMAIN cs, NEW c \in DOMAIN cs,
         cs[a].parent = cs[c].parent, a < c
  PROVE  StringLess(path[a], path[c])
<1> DEFINE p == cs[a].parent
<1>1. StringLess(text[a], text[c])
  BY DEF Pathed, Numerals
<1>2. CASE p = Nil
  BY <1>1, <1>2 DEF Pathed
<1>3. CASE p # Nil
  <2> DEFINE lp == Len(path[p])
  <2>1. path[p] \in Seq(Int) /\ lp \in Nat
    BY <1>3 DEF Answering, Pathed
  <2>2. /\ text[a] \in Seq(Nat) /\ text[c] \in Seq(Nat)
        /\ Len(text[a]) = w /\ Len(text[c]) = w /\ w \in Nat
    BY DEF Pathed, Numerals
  <2>3. ASSUME NEW x \in {a, c}
        PROVE  /\ Len(path[x]) = lp + 1 + w /\ path[x][lp + 1] = Dot
               /\ \A i \in 1..lp : path[x][i] = path[p][i]
               /\ \A i \in 1..w : path[x][lp + 1 + i] = text[x][i]
    <3> DEFINE q == path[p] \o <<Dot>> \o text[x]
    <3>1. text[x] \in Seq(Nat) /\ Len(text[x]) = w
      BY <2>2
    <3>2. /\ Len(q) = lp + 1 + Len(text[x]) /\ q[lp + 1] = Dot
          /\ \A i \in 1..lp : q[i] = path[p][i]
          /\ \A i \in 1..Len(text[x]) : q[lp + 1 + i] = text[x][i]
      BY ONLY <2>1, <3>1, ReplyPath
    <3> HIDE DEF q, lp
    <3>3. path[x] = q
      BY <1>3 DEF Pathed, q
    <3> QED BY <3>1, <3>2, <3>3
  <2> HIDE DEF lp, p
  <2>4. PICK k \in 1..w : /\ k <= w + 1
                          /\ \A j \in 1..(k - 1) : text[a][j] = text[c][j]
                          /\ k <= w => text[a][k] < text[c][k]
    BY <1>1, <2>2 DEF StringLess
  <2>5. path[a][lp + 1 + k] < path[c][lp + 1 + k]
    BY <2>2, <2>3, <2>4
  <2>6. ASSUME NEW j \in 1..(lp + k) PROVE path[a][j] = path[c][j]
    <3>1. CASE j <= lp + 1
      BY <2>1, <2>3, <3>1
    <3>2. CASE j > lp + 1
      <4>1. j - lp - 1 \in 1..(k - 1) /\ j - lp - 1 \in 1..w /\ lp + 1 + (j - lp - 1) = j
        <5>1. lp \in Nat /\ w \in Nat /\ k \in 1..w /\ j \in 1..(lp + k) /\ j > lp + 1
          BY <2>1, <2>2, <3>2
        <5> QED BY ONLY <5>1
      <4>2. /\ path[a][lp + 1 + (j - lp - 1)] = text[a][j - lp - 1]
            /\ path[c][lp + 1 + (j - lp - 1)] = text[c][j - lp - 1]
        BY <2>3, <4>1
      <4> QED BY <2>4, <4>1, <4>2
    <3> QED BY <2>1, <3>1, <3>2
  <2>7. /\ Len(path[a]) = lp + 1 + w /\ Len(path[c]) = lp + 1 + w
        /\ lp + 1 + k \in 1..(lp + 1 + w) /\ (lp + 1 + k) - 1 = lp + k
    BY <2>1, <2>2, <2>3, <2>4
  <2> QED BY <2>1, <2>2, <2>5, <2>6, <2>7 DEF StringLess
<1> QED BY <1>2, <1>3

-----------------------------------------------------------------------------
(* Listings. *)

\* Sorted by path, a listing of comments is depth first, and no two of the same
\* parent change places.
LEMMA PathOrderIsDepthFirst ==
  ASSUME NEW cs, NEW path, NEW text, NEW w, Answering(cs), Numerals(text, w),
         Pathed(cs, path, text), NEW listing,
         \A i \in DOMAIN listing : listing[i] \in DOMAIN cs,
         DOMAIN listing \subseteq Int, \A i, k \in DOMAIN listing : i..k \subseteq DOMAIN listing,
         \A i, k \in DOMAIN listing : i < k => StringLess(path[listing[i]], path[listing[k]])
  PROVE  DepthFirst(cs, listing)
<1> DEFINE above == Ancestors(cs)
<1>1. \A c \in DOMAIN cs : path[c] \in Seq(Int)
  BY DEF Pathed
\* The order of the paths is the order of the listing.
<1>2. ASSUME NEW i \in DOMAIN listing, NEW k \in DOMAIN listing,
             StringLess(path[listing[i]], path[listing[k]])
      PROVE  i < k
  <2>1. path[listing[i]] \in Seq(Int) /\ path[listing[k]] \in Seq(Int)
    BY <1>1
  <2>2. i # k
    BY <1>2, <2>1, StringLessIsIrreflexive
  <2>3. ~(k < i)
    <3>1. SUFFICES ASSUME k < i PROVE FALSE
      OBVIOUS
    <3>2. StringLess(path[listing[k]], path[listing[i]])
      BY <3>1
    <3>3. StringLess(path[listing[i]], path[listing[i]])
      BY <1>2, <2>1, <3>2, StringLessIsTransitive
    <3> QED BY <2>1, <3>3, StringLessIsIrreflexive
  <2> QED BY <2>2, <2>3
<1>3. ASSUME NEW i \in DOMAIN listing, NEW k \in DOMAIN listing,
             listing[i] \in above[listing[k]]
      PROVE  i < k /\ \A j \in (i + 1)..k : listing[i] \in above[listing[j]]
  <2> DEFINE a == listing[i]
             c == listing[k]
  <2>1. a \in DOMAIN cs /\ c \in DOMAIN cs
    OBVIOUS
  <2>2. Extends(path[c], path[a])
    BY <1>3, <2>1, AncestorsAreExtended
  <2>3. path[a] \in Seq(Int) /\ path[c] \in Seq(Int)
    BY <1>1, <2>1
  <2>4. i < k
    BY <1>2, <2>2, <2>3, ExtensionIsGreater
  <2>5. ASSUME NEW j \in (i + 1)..k PROVE a \in above[listing[j]]
    <3> DEFINE x == listing[j]
    <3>1. j \in DOMAIN listing /\ i < j
      BY <2>4
    <3>2. x \in DOMAIN cs /\ path[x] \in Seq(Int)
      BY <1>1, <3>1
    <3>3. StringLess(path[a], path[x])
      BY <3>1
    <3>4. ~StringLess(path[c], path[x])
      BY <1>2, <3>1
    <3>5. Extends(path[x], path[a])
      BY <2>2, <2>3, <3>2, <3>3, <3>4, BetweenExtensions
    <3> QED BY <2>1, <3>2, <3>5, ExtendedIsAncestor
  <2> QED BY <2>4, <2>5
<1>4. ASSUME NEW i \in DOMAIN listing, NEW k \in DOMAIN listing,
             cs[listing[i]].parent = cs[listing[k]].parent, listing[i] < listing[k]
      PROVE  i < k
  <2> DEFINE a == listing[i]
             c == listing[k]
  <2>1. a \in DOMAIN cs /\ c \in DOMAIN cs
    OBVIOUS
  <2>2. StringLess(path[a], path[c])
    BY <1>4, <2>1, SiblingsInOrder
  <2> QED BY <1>2, <2>2
<1> QED BY <1>3, <1>4 DEF DepthFirst

-----------------------------------------------------------------------------
(* Depth. *)

\* The dots in a path are as many as the comments above its own.
LEMMA DotsCountAncestors ==
  ASSUME NEW cs, NEW path, NEW text, NEW w, Answering(cs), Numerals(text, w),
         Pathed(cs, path, text), NEW c \in DOMAIN cs
  PROVE  Depth(path[c]) = Cardinality(Ancestors(cs)[c])
<1> DEFINE above == Ancestors(cs)
           dots(n) == {i \in DOMAIN path[n] : path[n][i] = Dot}
           T == {n \in Nat : n \in DOMAIN cs =>
                   /\ IsFiniteSet(above[n]) /\ IsFiniteSet(dots(n))
                   /\ Cardinality(dots(n)) = Cardinality(above[n])}
<1>1. \A x \in DOMAIN cs : above[x] = IF cs[x].parent = Nil THEN {}
                                     ELSE {cs[x].parent} \cup above[cs[x].parent]
  BY AncestorsFacts
<1>2. \A x \in DOMAIN cs : \A a \in above[x] : a \in DOMAIN cs /\ a < x
  BY AncestorsAreOlder
<1> HIDE DEF above
<1>3. ASSUME NEW n \in Nat, \A m \in 0..(n - 1) : m \in T PROVE n \in T
  <2> SUFFICES ASSUME n \in DOMAIN cs
               PROVE  /\ IsFiniteSet(above[n]) /\ IsFiniteSet(dots(n))
                      /\ Cardinality(dots(n)) = Cardinality(above[n])
    OBVIOUS
  <2> DEFINE p == cs[n].parent
  <2>1. path[n] \in Seq(Int) /\ text[n] \in Seq(Nat)
    BY DEF Pathed, Numerals
  <2>2. CASE p = Nil
    <3>1. \A i \in DOMAIN path[n] : path[n][i] # Dot
      <4>1. path[n] = text[n]
        BY <2>2 DEF Pathed
      <4>2. \A i \in DOMAIN text[n] : text[n][i] \in Nat
        BY <2>1
      <4> QED BY <4>1, <4>2 DEF Dot
    <3>2. dots(n) = {} /\ above[n] = {}
      BY <1>1, <2>2, <3>1
    <3> HIDE DEF dots
    <3> QED BY <3>2, FS_EmptySet
  <2>3. CASE p # Nil
    <3>1. p \in DOMAIN cs /\ p < n /\ p \in Nat
      BY <2>3 DEF Answering
    <3>2. path[p] \in Seq(Int)
      BY <3>1 DEF Pathed
    <3>3. path[n] = path[p] \o <<Dot>> \o text[n]
      BY <2>3 DEF Pathed
    <3>4. above[n] = above[p] \cup {p} /\ p \notin above[p]
      <4>1. above[n] = {p} \cup above[p]
        BY <1>1, <2>3
      <4>2. \A a \in above[p] : a < p
        BY <1>2, <3>1
      <4> HIDE DEF p
      <4> QED BY <3>1, <4>1, <4>2
    <3> DEFINE lp == Len(path[p])
               lt == Len(text[n])
    <3>5. /\ Len(path[n]) = lp + 1 + lt
          /\ \A i \in 1..lp : path[n][i] = path[p][i]
          /\ path[n][lp + 1] = Dot
          /\ \A i \in 1..lt : path[n][lp + 1 + i] = text[n][i]
      <4> DEFINE q == path[p] \o <<Dot>> \o text[n]
      <4>1. /\ Len(q) = lp + 1 + lt
            /\ \A i \in 1..lp : q[i] = path[p][i]
            /\ q[lp + 1] = Dot
            /\ \A i \in 1..lt : q[lp + 1 + i] = text[n][i]
        BY ONLY <2>1, <3>2, ReplyPath
      <4> HIDE DEF q
      <4>2. path[n] = q
        BY <3>3 DEF q
      <4> QED BY <4>1, <4>2
    <3>6. /\ lp \in Nat /\ lt \in Nat /\ DOMAIN path[n] = 1..(lp + 1 + lt)
          /\ DOMAIN path[p] = 1..lp /\ \A i \in 1..lt : text[n][i] # Dot
      <4>1. lp \in Nat /\ lt \in Nat /\ DOMAIN path[p] = 1..lp
        BY <2>1, <3>2
      <4>2. DOMAIN path[n] = 1..(lp + 1 + lt)
        <5>1. DOMAIN path[n] = 1..Len(path[n])
          BY <2>1
        <5> QED BY <3>5, <5>1
      <4>3. \A i \in 1..lt : text[n][i] \in Nat
        BY <2>1
      <4> QED BY <4>1, <4>2, <4>3 DEF Dot
    <3> HIDE DEF p, lp, lt
    <3>7. ASSUME NEW i \in 1..(lp + 1 + lt)
          PROVE  path[n][i] = Dot <=> (i = lp + 1 \/ (i \in 1..lp /\ path[p][i] = Dot))
      <4>1. CASE i <= lp
        <5>1. i \in 1..lp /\ i # lp + 1
          BY ONLY <3>6, <4>1, i \in 1..(lp + 1 + lt)
        <5>2. path[n][i] = path[p][i]
          BY <3>5, <5>1
        <5> QED BY <5>1, <5>2
      <4>2. CASE i = lp + 1
        BY <3>5, <4>2
      <4>3. CASE i > lp + 1
        <5> DEFINE k == i - lp - 1
        <5>1. k \in 1..lt /\ lp + 1 + k = i
          BY ONLY <3>6, <4>3, i \in 1..(lp + 1 + lt)
        <5> HIDE DEF k
        <5>2. path[n][lp + 1 + k] = text[n][k] /\ text[n][k] # Dot
          BY <3>5, <3>6, <5>1
        <5>3. path[n][i] # Dot
          BY <5>1, <5>2
        <5>4. i \notin 1..lp /\ i # lp + 1
          BY <3>6, <4>3
        <5> QED BY <5>3, <5>4
      <4>4. i <= lp \/ i = lp + 1 \/ i > lp + 1
        BY <3>6
      <4> QED BY <4>1, <4>2, <4>3, <4>4
    <3>8. dots(n) = dots(p) \cup {lp + 1} /\ lp + 1 \notin dots(p)
      BY <3>6, <3>7
    <3>9. p \in T
      BY <1>3, <3>1
    <3>10. /\ IsFiniteSet(above[p]) /\ IsFiniteSet(dots(p))
           /\ Cardinality(dots(p)) = Cardinality(above[p])
      BY <3>1, <3>9
    <3> HIDE DEF dots
    <3>11. IsFiniteSet(above[n]) /\ Cardinality(above[n]) = Cardinality(above[p]) + 1
      BY <3>4, <3>10, FS_AddElement
    <3>12. IsFiniteSet(dots(n)) /\ Cardinality(dots(n)) = Cardinality(dots(p)) + 1
      BY <3>8, <3>10, FS_AddElement
    <3> QED BY <3>10, <3>11, <3>12
  <2> QED BY <2>2, <2>3
<1>4. Nat \subseteq T
  <2> HIDE DEF T
  <2> QED BY <1>3, StrongInduction
<1>5. c \in T
  BY <1>4 DEF Answering
<1> QED BY <1>5 DEF above, Depth

-----------------------------------------------------------------------------
(* ORDER BY. *)

\* before is a total order of the finite set rows.
Ranked(rows, before) ==
  /\ IsFiniteSet(rows)
  /\ \A r \in rows : before[r] \subseteq rows /\ r \notin before[r]
  /\ \A r \in rows : \A q \in before[r] : before[q] \subseteq before[r]
  /\ \A q, r \in rows : q # r => q \in before[r] \/ r \in before[q]

\* The answer has every row once, and the rows before one are those in front of it.
LEMMA OrderByFacts ==
  ASSUME NEW rows, NEW before, Ranked(rows, before), NEW s, s = OrderBy(rows, before)
  PROVE  /\ s \in Seq(rows)
         /\ \A r \in rows : \E i \in 1..Len(s) : s[i] = r
         /\ \A i, j \in 1..Len(s) : i < j => s[i] \in before[s[j]]
<1> DEFINE N == Cardinality(rows)
           rank == [r \in rows |-> Cardinality(before[r]) + 1]
<1>1. IsFiniteSet(rows) /\ N \in Nat
  BY FS_CardinalityType DEF Ranked
<1>2. ASSUME NEW r \in rows
      PROVE  /\ IsFiniteSet(before[r]) /\ Cardinality(before[r]) \in Nat
             /\ Cardinality(before[r]) < N
  <2>1. before[r] \in SUBSET rows /\ before[r] # rows
    BY DEF Ranked
  <2>2. IsFiniteSet(before[r]) /\ Cardinality(before[r]) <= N /\ Cardinality(before[r]) # N
    BY <1>1, <2>1, FS_Subset
  <2>3. Cardinality(before[r]) \in Nat
    BY <2>2, FS_CardinalityType
  <2> HIDE DEF N
  <2> QED BY <1>1, <2>2, <2>3
<1>3. ASSUME NEW r \in rows, NEW q \in before[r]
      PROVE  Cardinality(before[q]) < Cardinality(before[r])
  <2>1. before[q] \in SUBSET before[r] /\ before[q] # before[r] /\ q \in rows
    BY DEF Ranked
  <2>2. /\ Cardinality(before[q]) <= Cardinality(before[r])
        /\ Cardinality(before[q]) # Cardinality(before[r])
    BY <1>2, <2>1, FS_Subset
  <2> QED BY <1>2, <2>1, <2>2
<1>4. rank \in [rows -> 1..N]
  <2> HIDE DEF N
  <2> QED BY <1>1, <1>2
<1>5. \A q, r \in rows : rank[q] = rank[r] => q = r
  <2> SUFFICES ASSUME NEW q \in rows, NEW r \in rows, rank[q] = rank[r], q # r PROVE FALSE
    OBVIOUS
  <2>1. Cardinality(before[q]) = Cardinality(before[r])
    BY <1>2
  <2>2. q \in before[r] \/ r \in before[q]
    BY DEF Ranked
  <2> QED BY <1>2, <1>3, <2>1, <2>2
<1>6. \A k \in 1..N : \E r \in rows : rank[r] = k
  <2>1. rank \in Injection(rows, 1..N)
    BY <1>4, <1>5 DEF Injection, IsInjective
  <2>2. IsFiniteSet(1..N) /\ Cardinality(1..N) = N
    <3> HIDE DEF N
    <3> QED BY <1>1, FS_Interval
  <2>3. rank \in Surjection(rows, 1..N)
    <3> HIDE DEF rank
    <3> QED BY <2>1, <2>2, FS_Injection
  <2> HIDE DEF rank, N
  <2> QED BY <2>3 DEF Surjection
<1>7. ASSUME NEW k \in 1..N PROVE s[k] \in rows /\ rank[s[k]] = k
  <2>1. PICK r \in rows : rank[r] = k
    BY <1>6
  <2>2. Cardinality(before[r]) = k - 1
    <3> HIDE DEF N
    <3> QED BY <1>1, <1>2, <2>1
  <2>3. s[k] = CHOOSE row \in rows : Cardinality(before[row]) = k - 1
    BY DEF OrderBy
  <2>4. s[k] \in rows /\ Cardinality(before[s[k]]) = k - 1
    BY <2>2, <2>3
  <2>5. k - 1 + 1 = k
    <3> HIDE DEF N
    <3> QED BY <1>1
  <2> QED BY <2>4, <2>5
<1>8. s \in Seq(rows) /\ Len(s) = N
  <2>1. s = [k \in 1..N |-> s[k]]
    BY DEF OrderBy
  <2>2. \A k \in 1..N : s[k] \in rows
    BY <1>7
  <2> HIDE DEF N
  <2>3. s \in [1..N -> rows]
    BY <2>1, <2>2
  <2>4. s \in Seq(rows)
    BY <1>1, <2>3
  <2> QED BY <1>1, <2>3, <2>4
<1>9. ASSUME NEW r \in rows PROVE \E i \in 1..Len(s) : s[i] = r
  <2>1. rank[r] \in 1..N
    BY <1>4
  <2>2. s[rank[r]] \in rows /\ rank[s[rank[r]]] = rank[r]
    BY <1>7, <2>1
  <2>3. s[rank[r]] = r
    <3> HIDE DEF rank
    <3> QED BY <1>5, <2>2
  <2> HIDE DEF rank
  <2> QED BY <1>8, <2>1, <2>3
<1>10. ASSUME NEW i \in 1..Len(s), NEW j \in 1..Len(s), i < j PROVE s[i] \in before[s[j]]
  <2>1. /\ s[i] \in rows /\ rank[s[i]] = i
        /\ s[j] \in rows /\ rank[s[j]] = j
    <3> HIDE DEF rank, N
    <3> QED BY <1>7, <1>8
  <2>2. Cardinality(before[s[i]]) + 1 = i /\ Cardinality(before[s[j]]) + 1 = j
    BY <2>1
  <2>3. i \in Nat /\ j \in Nat
    OBVIOUS
  <2>4. s[i] # s[j]
    BY <2>2, <2>3, <1>10
  <2>5. ~(s[j] \in before[s[i]])
    <3>1. SUFFICES ASSUME s[j] \in before[s[i]] PROVE FALSE
      OBVIOUS
    <3>2. Cardinality(before[s[j]]) < Cardinality(before[s[i]])
      BY <1>3, <2>1, <3>1
    <3>3. Cardinality(before[s[j]]) \in Nat /\ Cardinality(before[s[i]]) \in Nat
      BY <1>2, <2>1
    <3> QED BY <1>10, <2>2, <2>3, <3>2, <3>3
  <2> QED BY <2>1, <2>4, <2>5 DEF Ranked
<1> QED BY <1>8, <1>9, <1>10
=============================================================================
