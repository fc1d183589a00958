------------------------------- MODULE Loops -------------------------------
(***************************************************************************)
(* Lemmas about loops.  A loop over the elements of a sequence is a        *)
(* recursive function of how far it has come,                              *)
(*                                                                         *)
(*   f[k \in 0..n] == IF k = 0 THEN start ELSE ... f[k - 1] ... ,          *)
(*                                                                         *)
(* which TLA+ takes to be some f that this equation holds for.  That there *)
(* is one, and what holds after every round, is by induction on k, which   *)
(* is taken from the library's theorem that < on Nat is well-founded.      *)
(***************************************************************************)
EXTENDS Integers, Sequences, WellFoundedInduction, TLAPS

\* A set of numbers that is not empty has a least one.
LEMMA LeastNumber ==
  ASSUME NEW T, T \subseteq Nat, T # {}
  PROVE  \E x \in T : \A y \in T : x <= y
<1> DEFINE R == OpToRel(<, Nat)
<1>1. IsWellFoundedOn(R, Nat)
  BY NatLessThanWellFounded
<1>2. \A x, y \in Nat : <<y, x>> \in R <=> y < x
  BY DEF OpToRel
<1> HIDE DEF R
<1>3. \E x \in T : \A y \in T : ~(<<y, x>> \in R)
  BY <1>1, WFMin
<1>4. \A x, y \in T : ~(y < x) => x <= y
  OBVIOUS
<1> QED
  BY <1>2, <1>3, <1>4

\* What holds before a loop of n rounds, and after a round if it did before, holds for
\* every round: a set of rounds stands for the property.
LEMMA LoopInduction ==
  ASSUME NEW n \in Nat, NEW S, 0 \in S,
         \A k \in 1..n : k - 1 \in S => k \in S
  PROVE  0..n \subseteq S
<1> SUFFICES ASSUME (0..n) \ S # {} PROVE FALSE
  OBVIOUS
<1>1. PICK k \in (0..n) \ S : \A l \in (0..n) \ S : k <= l
  BY LeastNumber, (0..n) \ S \subseteq Nat
<1>2. k \in 1..n /\ k - 1 \in 0..n
  BY <1>1
<1>3. k - 1 \in S
  BY <1>1, <1>2
<1> QED
  BY <1>1, <1>2, <1>3

\* The same for all numbers.
LEMMA Induction ==
  ASSUME NEW S, 0 \in S, \A k \in Nat : k \in S => k + 1 \in S
  PROVE  Nat \subseteq S
<1> SUFFICES ASSUME NEW n \in Nat PROVE n \in S
  OBVIOUS
<1>1. \A k \in 1..n : k - 1 \in S => k \in S
  <2> SUFFICES ASSUME NEW k \in 1..n, k - 1 \in S PROVE k \in S
    OBVIOUS
  <2>1. k - 1 \in Nat /\ k = (k - 1) + 1
    OBVIOUS
  <2> QED
    BY <2>1
<1>2. 0..n \subseteq S
  BY <1>1, LoopInduction
<1> QED
  BY <1>2

\* A loop of n rounds with values in T: step is what a round makes of the value before.
IsLoop(f, n, T, start, step) ==
  /\ f \in [0..n -> T]
  /\ f[0] = start
  /\ \A k \in 1..n : f[k] = step[<<f[k - 1], k>>]

LEMMA LoopExists ==
  ASSUME NEW n \in Nat, NEW T, NEW start \in T, NEW step \in [T \X (1..n) -> T]
  PROVE  \E f : IsLoop(f, n, T, start, step)
<1> DEFINE Loop(f, m) == IsLoop(f, m, T, start, step)
           S == {m \in 0..n : \E f : Loop(f, m)}
<1>1. 0 \in S
  <2> DEFINE f == [k \in 0..0 |-> start]
  <2>1. Loop(f, 0)
    BY DEF IsLoop
  <2> HIDE DEF f, Loop
  <2> QED
    BY <2>1
<1>2. ASSUME NEW m \in 1..n, m - 1 \in S PROVE m \in S
  <2>0. PICK f : Loop(f, m - 1)
    BY <1>2
  <2>1. /\ f \in [0..(m - 1) -> T] /\ f[0] = start
        /\ \A k \in 1..(m - 1) : f[k] = step[<<f[k - 1], k>>]
    BY <2>0 DEF IsLoop
  <2> DEFINE g == [k \in 0..m |-> IF k = m THEN step[<<f[m - 1], m>>] ELSE f[k]]
  <2>2. f[m - 1] \in T /\ step[<<f[m - 1], m>>] \in T
    BY <2>1
  <2>3. g \in [0..m -> T]
    BY <2>1, <2>2
  <2>4. g[m] = step[<<f[m - 1], m>>] /\ \A k \in 0..(m - 1) : g[k] = f[k]
    OBVIOUS
  <2>5. Loop(g, m)
    <3> HIDE DEF g
    <3>0. g[0] = start
      BY <2>1, <2>4
    <3>1. \A k \in 1..m : k = m \/ k \in 1..(m - 1)
      OBVIOUS
    <3>2. \A k \in 1..m : k - 1 \in 0..(m - 1)
      OBVIOUS
    <3>3. ASSUME NEW k \in 1..m PROVE g[k] = step[<<g[k - 1], k>>]
      <4>1. g[k - 1] = f[k - 1]
        BY <2>4, <3>2
      <4>2. CASE k = m
        BY <2>4, <4>1, <4>2
      <4>3. CASE k \in 1..(m - 1)
        <5>1. k \in 0..(m - 1)
          BY <4>3
        <5>2. g[k] = f[k] /\ f[k] = step[<<f[k - 1], k>>]
          BY <2>1, <2>4, <4>3, <5>1
        <5> QED
          BY <4>1, <5>2
      <4> QED
        BY <3>1, <4>2, <4>3
    <3> QED
      BY <2>3, <3>0, <3>3 DEF IsLoop
  <2> HIDE DEF g, Loop
  <2> QED
    BY <2>5
<1>3. 0..n \subseteq S
  <2> HIDE DEF S
  <2> QED
    BY <1>1, <1>2, LoopInduction
<1> QED
  BY <1>3

-----------------------------------------------------------------------------
(* Loops that append the elements with the indices K.                      *)

IsFilter(f, s, K) ==
  f = [n \in 0..Len(s) |-> IF n = 0 THEN <<>>
                          ELSE IF n \in K THEN Append(f[n - 1], s[n]) ELSE f[n - 1]]

LEMMA FilterExists ==
  ASSUME NEW X, NEW s \in Seq(X), NEW K
  PROVE  \E f : IsFilter(f, s, K)
<1> DEFINE T == Seq(X)
           N == Len(s)
           step == [x \in T \X (1..N) |-> IF x[2] \in K THEN Append(x[1], s[x[2]]) ELSE x[1]]
<1>1. N \in Nat /\ <<>> \in T
  OBVIOUS
<1>2. \A list \in T, n \in 1..N : Append(list, s[n]) \in T
  OBVIOUS
<1>3. \A list \in T, n \in 1..N :
        step[<<list, n>>] = IF n \in K THEN Append(list, s[n]) ELSE list
  OBVIOUS
<1>4. step \in [T \X (1..N) -> T]
  <2> HIDE DEF T, N
  <2> QED
    BY <1>2
<1> HIDE DEF step, T, N
<1>5a. PICK f : IsLoop(f, N, T, <<>>, step)
  BY <1>1, <1>4, LoopExists
<1>5. f \in [0..N -> T] /\ f[0] = <<>> /\ \A n \in 1..N : f[n] = step[<<f[n - 1], n>>]
  BY <1>5a DEF IsLoop
<1>6. \A n \in 1..N : n - 1 \in 0..N /\ f[n - 1] \in T
  BY <1>1, <1>5
<1>7. \A n \in 1..N : step[<<f[n - 1], n>>] = IF n \in K THEN Append(f[n - 1], s[n]) ELSE f[n - 1]
  BY <1>3, <1>6
<1>8. \A n \in 0..N : n # 0 => n \in 1..N
  BY <1>1
<1>9. f = [n \in 0..N |-> IF n = 0 THEN <<>>
                          ELSE IF n \in K THEN Append(f[n - 1], s[n]) ELSE f[n - 1]]
  BY <1>5, <1>7, <1>8
<1> QED
  BY <1>9 DEF N, IsFilter

\* The list comes from increasing indices, and these are all there are in K.
Picks(list, s, K, n) ==
  \E from \in [1..Len(list) -> 1..n] :
    /\ \A j \in 1..Len(list) : from[j] \in K /\ list[j] = s[from[j]]
    /\ \A j, l \in 1..Len(list) : j < l => from[j] < from[l]
    /\ \A k \in 1..n : k \in K => \E j \in 1..Len(list) : from[j] = k

LEMMA FilterLoop ==
  ASSUME NEW X, NEW s \in Seq(X), NEW K, NEW f,
         f[0] = <<>>,
         \A n \in 1..Len(s) : f[n] = IF n \in K THEN Append(f[n - 1], s[n]) ELSE f[n - 1]
  PROVE  f[Len(s)] \in Seq(X) /\ Picks(f[Len(s)], s, K, Len(s))
<1> DEFINE N == Len(s)
           Good(n) == f[n] \in Seq(X) /\ Picks(f[n], s, K, n)
           S == {n \in 0..N : Good(n)}
<1>1. N \in Nat /\ \A n \in 1..N : s[n] \in X
  OBVIOUS
<1>2. /\ f[0] = <<>>
      /\ \A n \in 1..N : f[n] = IF n \in K THEN Append(f[n - 1], s[n]) ELSE f[n - 1]
  OBVIOUS
<1>3. 0 \in S
  <2> DEFINE none == [j \in 1..0 |-> j]
  <2>1. none \in [1..Len(<<>>) -> 1..0] /\ 1..Len(<<>>) = {} /\ 1..0 = {}
    OBVIOUS
  <2>2. Picks(<<>>, s, K, 0)
    <3> HIDE DEF none
    <3> QED
      BY <2>1 DEF Picks
  <2>3. Good(0)
    BY <1>2, <2>2
  <2> HIDE DEF Good, N
  <2> QED
    BY <1>1, <2>3
<1>4. ASSUME NEW n \in 1..N, n - 1 \in S PROVE n \in S
  <2> DEFINE g == f[n - 1]
  <2>1. g \in Seq(X) /\ Len(g) \in Nat
    BY <1>4
  <2>2. PICK from \in [1..Len(g) -> 1..(n - 1)] :
          /\ \A j \in 1..Len(g) : from[j] \in K /\ g[j] = s[from[j]]
          /\ \A j, l \in 1..Len(g) : j < l => from[j] < from[l]
          /\ \A k \in 1..(n - 1) : k \in K => \E j \in 1..Len(g) : from[j] = k
    BY <1>4 DEF Picks
  <2> HIDE DEF g
  <2>3. CASE n \notin K
    <3>1. f[n] = g
      BY <1>2, <2>3 DEF g
    <3>2. from \in [1..Len(g) -> 1..n] /\ \A k \in 1..n : k \in K => k \in 1..(n - 1)
      BY <2>2, <2>3
    <3>3. Picks(g, s, K, n)
      BY <2>2, <3>2 DEF Picks
    <3> QED
      BY <2>1, <3>1, <3>3
  <2>4. CASE n \in K
    <3> DEFINE h == Append(g, s[n])
               M == Len(g)
               more == [j \in 1..(M + 1) |-> IF j = M + 1 THEN n ELSE from[j]]
    <3>1. f[n] = h
      BY <1>2, <2>4 DEF g
    <3>2. /\ h \in Seq(X) /\ Len(h) = M + 1 /\ h[M + 1] = s[n]
          /\ \A j \in 1..M : h[j] = g[j]
      BY <1>1, <2>1
    <3> HIDE DEF h
    <3>3. more \in [1..(M + 1) -> 1..n]
      BY <2>1, <2>2
    <3>4. more[M + 1] = n /\ \A j \in 1..M : more[j] = from[j]
      BY <2>1
    <3> HIDE DEF more
    <3>5. \A j \in 1..(M + 1) : j = M + 1 \/ j \in 1..M
      BY <2>1
    <3>6. \A j \in 1..(M + 1) : more[j] \in K /\ h[j] = s[more[j]]
      BY <2>2, <2>4, <3>2, <3>4, <3>5
    <3>7. \A j, l \in 1..(M + 1) : j < l => more[j] < more[l]
      <4> SUFFICES ASSUME NEW j \in 1..(M + 1), NEW l \in 1..(M + 1), j < l
                   PROVE  more[j] < more[l]
        OBVIOUS
      <4>1. j \in 1..M
        BY <2>1
      <4>2. from[j] \in 1..(n - 1) /\ more[j] = from[j]
        BY <2>2, <3>4, <4>1
      <4>3. CASE l = M + 1
        BY <3>4, <4>2, <4>3
      <4>4. CASE l \in 1..M
        BY <2>2, <3>4, <4>1, <4>4
      <4> QED
        BY <3>5, <4>3, <4>4
    <3>8. \A k \in 1..n : k \in K => \E j \in 1..(M + 1) : more[j] = k
      <4>1. \A k \in 1..n : k = n \/ k \in 1..(n - 1)
        OBVIOUS
      <4>2. M + 1 \in 1..(M + 1) /\ 1..M \subseteq 1..(M + 1)
        BY <2>1
      <4> SUFFICES ASSUME NEW k \in 1..n, k \in K PROVE \E j \in 1..(M + 1) : more[j] = k
        OBVIOUS
      <4>3. CASE k = n
        BY <3>4, <4>2, <4>3
      <4>4. CASE k \in 1..(n - 1)
        <5>1. PICK j \in 1..M : from[j] = k
          BY <2>2, <4>4
        <5> QED
          BY <3>4, <4>2, <5>1
      <4> QED
        BY <4>1, <4>3, <4>4
    <3>9. Picks(h, s, K, n)
      <4>1. 1..Len(h) = 1..(M + 1)
        BY <3>2
      <4>2. \E from2 \in [1..Len(h) -> 1..n] :
              /\ \A j \in 1..Len(h) : from2[j] \in K /\ h[j] = s[from2[j]]
              /\ \A j, l \in 1..Len(h) : j < l => from2[j] < from2[l]
              /\ \A k \in 1..n : k \in K => \E j \in 1..Len(h) : from2[j] = k
        <5> HIDE DEF M
        <5>1. more \in [1..Len(h) -> 1..n]
          BY <3>3, <4>1
        <5> WITNESS more \in [1..Len(h) -> 1..n]
        <5> QED
          BY <3>6, <3>7, <3>8, <4>1
      <4> QED
        BY <4>2 DEF Picks
    <3> QED
      BY <3>1, <3>2, <3>9
  <2> QED
    BY <2>3, <2>4
<1>5. 0..N \subseteq S
  <2> HIDE DEF S, N
  <2> QED
    BY <1>1, <1>3, <1>4, LoopInduction
<1>6. N \in S
  BY <1>1, <1>5
<1> QED
  BY <1>6
-----------------------------------------------------------------------------
(* Recursion over trees: a function f with f[x] made of f[y] for y of a    *)
(* lesser height only.                                                     *)

\* What holds for x if it does for everything lower, holds: a set stands for the property.
LEMMA HeightInduction ==
  ASSUME NEW S, NEW h \in [S -> Nat], NEW T,
         \A x \in S : (\A y \in S : h[y] < h[x] => y \in T) => x \in T
  PROVE  S \subseteq T
<1> SUFFICES ASSUME NEW z \in S \ T PROVE FALSE
  OBVIOUS
<1> DEFINE H == {h[x] : x \in S \ T}
<1>1. H \subseteq Nat /\ H # {}
  OBVIOUS
<1>2. PICK n \in H : \A m \in H : n <= m
  BY <1>1, LeastNumber
<1>3. PICK x \in S \ T : h[x] = n
  BY <1>2
<1>4. \A y \in S \ T : h[x] <= h[y] /\ h[y] \in Nat /\ h[x] \in Nat
  BY <1>2, <1>3
<1>5. \A y \in S : h[y] < h[x] => y \in T
  BY <1>4
<1> QED
  BY <1>3, <1>5

\* f is what step makes of it, up to height n.
IsUpTo(f, n, S, h, step) == \A x \in S : h[x] < n => f[x] = step[f][x]

\* step uses of a function only what is lower.
LooksDown(S, R, h, step) ==
  \A x \in S : \A f, g \in [S -> R] :
    (\A y \in S : h[y] < h[x] => f[y] = g[y]) => step[f][x] = step[g][x]

SameUpTo(S, R, h, step) ==
  \A n, m \in Nat : \A f, g \in [S -> R] :
    IsUpTo(f, n, S, h, step) /\ IsUpTo(g, m, S, h, step) =>
      \A x \in S : h[x] < n /\ h[x] < m => f[x] = g[x]

LEMMA OneUpTo ==
  ASSUME NEW S, NEW R, NEW h, NEW step,
         h \in [S -> Nat], step \in [[S -> R] -> [S -> R]], LooksDown(S, R, h, step)
  PROVE  SameUpTo(S, R, h, step)
<1> SUFFICES ASSUME NEW n \in Nat, NEW m \in Nat, NEW f \in [S -> R], NEW g \in [S -> R],
                    IsUpTo(f, n, S, h, step), IsUpTo(g, m, S, h, step)
             PROVE  \A x \in S : h[x] < n /\ h[x] < m => f[x] = g[x]
  BY DEF SameUpTo
<1> DEFINE T == {x \in S : h[x] < n /\ h[x] < m => f[x] = g[x]}
<1>1. ASSUME NEW x \in S, \A y \in S : h[y] < h[x] => y \in T PROVE x \in T
  <2> SUFFICES ASSUME h[x] < n, h[x] < m PROVE f[x] = g[x]
    OBVIOUS
  <2>1. \A y \in S : h[y] < h[x] => f[y] = g[y]
    <3> SUFFICES ASSUME NEW y \in S, h[y] < h[x] PROVE f[y] = g[y]
      OBVIOUS
    <3>1. h[y] < n /\ h[y] < m
      <4>1. h[y] \in Nat /\ h[x] \in Nat
        OBVIOUS
      <4> QED
        BY <4>1
    <3> QED
      BY <1>1, <3>1
  <2>2. step[f][x] = step[g][x]
    BY <2>1 DEF LooksDown
  <2> QED
    BY <2>2 DEF IsUpTo
<1>2. S \subseteq T
  <2> HIDE DEF T
  <2> QED
    BY <1>1, HeightInduction
<1> QED
  BY <1>2

\* step is a recursion that goes down with h.
IsRecursion(S, R, h, step) ==
  /\ R # {} /\ h \in [S -> Nat] /\ step \in [[S -> R] -> [S -> R]]
  /\ LooksDown(S, R, h, step)

LEMMA RecursionExists ==
  ASSUME NEW S, NEW R, NEW h, NEW step, IsRecursion(S, R, h, step)
  PROVE  \E f \in [S -> R] : f = step[f]
<1>0. /\ R # {} /\ h \in [S -> Nat] /\ step \in [[S -> R] -> [S -> R]]
      /\ LooksDown(S, R, h, step)
  BY DEF IsRecursion
<1> USE <1>0
<1> DEFINE UpTo(f, n) == IsUpTo(f, n, S, h, step)
           N == {n \in Nat : \E f \in [S -> R] : UpTo(f, n)}
<1>1. 0 \in N
  <2>1. PICK r \in R : TRUE
    OBVIOUS
  <2> DEFINE f == [x \in S |-> r]
  <2>2. f \in [S -> R] /\ UpTo(f, 0)
    BY DEF IsUpTo
  <2> HIDE DEF f, UpTo
  <2> QED
    BY <2>2
<1>2. ASSUME NEW n \in Nat, n \in N PROVE n + 1 \in N
  <2>1. PICK f \in [S -> R] : UpTo(f, n)
    BY <1>2
  <2> DEFINE g == step[f]
  <2>2. g \in [S -> R]
    OBVIOUS
  <2>3. ASSUME NEW x \in S, h[x] < n + 1 PROVE g[x] = step[g][x]
    <3>1. ASSUME NEW y \in S, h[y] < h[x] PROVE f[y] = g[y]
      <4>1. h[y] \in Nat /\ h[x] \in Nat
        OBVIOUS
      <4>2. h[y] < n
        BY <2>3, <3>1, <4>1
      <4> QED
        BY <2>1, <4>2 DEF IsUpTo
    <3> QED
      BY <2>2, <3>1 DEF LooksDown
  <2>4. UpTo(g, n + 1)
    BY <2>3 DEF IsUpTo
  <2> HIDE DEF g, UpTo
  <2> QED
    BY <2>2, <2>4
<1>3. Nat \subseteq N
  <2> HIDE DEF N
  <2> QED
    BY <1>1, <1>2, Induction
<1>s. SameUpTo(S, R, h, step)
  BY OneUpTo
<1> DEFINE F == [n \in Nat |-> CHOOSE f \in [S -> R] : UpTo(f, n)]
<1>4. \A n \in Nat : F[n] \in [S -> R] /\ UpTo(F[n], n)
  <2> HIDE DEF UpTo
  <2> QED
    BY <1>3
<1> DEFINE g == [x \in S |-> F[h[x] + 1][x]]
<1>5. g \in [S -> R]
  <2> HIDE DEF F
  <2> SUFFICES ASSUME NEW x \in S PROVE F[h[x] + 1][x] \in R
    OBVIOUS
  <2>1. h[x] + 1 \in Nat
    OBVIOUS
  <2> QED
    BY <1>4, <2>1
<1>6. ASSUME NEW x \in S PROVE g[x] = step[g][x]
  <2> DEFINE n == h[x] + 1
  <2>1. n \in Nat /\ h[x] < n /\ h[x] \in Nat
    OBVIOUS
  <2>2. F[n] \in [S -> R] /\ IsUpTo(F[n], n, S, h, step) /\ g[x] = F[n][x]
    BY <1>4, <2>1
  <2>3. F[n][x] = step[F[n]][x]
    <3> HIDE DEF F, n
    <3> QED
      BY <2>1, <2>2 DEF IsUpTo
  <2>4. ASSUME NEW y \in S, h[y] < h[x] PROVE F[n][y] = g[y]
    <3> DEFINE m == h[y] + 1
    <3>1. h[y] \in Nat /\ m \in Nat /\ h[y] < m /\ h[y] < n
      BY <2>1, <2>4
    <3>2. F[m] \in [S -> R] /\ IsUpTo(F[m], m, S, h, step) /\ g[y] = F[m][y]
      BY <1>4, <3>1
    <3>3. F[n][y] = F[m][y]
      <4> DEFINE a == F[n]
                 b == F[m]
      <4>1. a \in [S -> R] /\ b \in [S -> R] /\ IsUpTo(a, n, S, h, step) /\ IsUpTo(b, m, S, h, step)
        BY <2>2, <3>2
      <4> HIDE DEF a, b, F, n, m, g
      <4>2. \A z \in S : h[z] < n /\ h[z] < m => a[z] = b[z]
        BY <1>s, <2>1, <3>1, <4>1 DEF SameUpTo
      <4> QED
        BY <3>1, <4>2 DEF a, b
    <3> HIDE DEF F, m, n, g
    <3> QED
      BY <3>2, <3>3
  <2> HIDE DEF F, n, g
  <2>5. step[F[n]][x] = step[g][x]
    BY <1>5, <2>2, <2>4 DEF LooksDown
  <2> QED
    BY <2>2, <2>3, <2>5
<1>7. step[g] \in [S -> R]
  BY <1>5
<1> HIDE DEF g
<1>8. g = step[g]
  BY <1>5, <1>6, <1>7
<1> QED
  BY <1>5, <1>8
=============================================================================
