----------------------------- MODULE Recursion -----------------------------
(***************************************************************************)
(* Induction and recursion for the other proofs, with sets and functions   *)
(* where the library's theorems have operators as parameters: the least    *)
(* element of a set of naturals, induction as closure of a set, iteration, *)
(* and that a recursive definition whose arguments decrease has a          *)
(* solution.                                                               *)
(***************************************************************************)
EXTENDS Integers, WellFoundedInduction, TLAPS

\* A set of naturals that is not empty has a least element.
LEMMA Least ==
  ASSUME NEW T \in SUBSET Nat, T # {}
  PROVE  \E x \in T : \A y \in T : x <= y
<1>1. \E x \in T : \A y \in T : ~(<<y, x>> \in OpToRel(<, Nat))
  BY NatLessThanWellFounded, WFMin
<1>2. \E x \in T : \A y \in T : ~(y < x)
  BY <1>1 DEF OpToRel
<1> QED
  BY <1>2

\* Induction: a set that has 0 and with n also n + 1 has all naturals.
LEMMA Induction ==
  ASSUME NEW S, 0 \in S, \A n \in Nat : n \in S => n + 1 \in S
  PROVE  Nat \subseteq S
<1> SUFFICES ASSUME ~(Nat \subseteq S) PROVE FALSE
  OBVIOUS
<1> DEFINE T == Nat \ S
<1>1. PICK x \in T : \A y \in T : x <= y
  BY Least
<1>2. x # 0 /\ x - 1 \in Nat /\ (x - 1) + 1 = x
  BY <1>1
<1> QED
  BY <1>1, <1>2

\* g is the beginning, up to n, of the iteration of F from a.
Begins(g, n, S, a, F) ==
  g \in [0..n -> S] /\ g[0] = a /\ \A k \in 0..(n - 1) : g[k + 1] = F[g[k]]

\* f is the iteration of F from a.
Iterates(f, S, a, F) ==
  f \in [Nat -> S] /\ f[0] = a /\ \A n \in Nat : f[n + 1] = F[f[n]]

\* A function from a set to itself can be iterated.
LEMMA Iteration ==
  ASSUME NEW S, NEW a \in S, NEW F \in [S -> S]
  PROVE  \E f : Iterates(f, S, a, F)
<1> DEFINE B(g, n) == Begins(g, n, S, a, F)
           Some == {n \in Nat : \E g : B(g, n)}
<1>1. Nat \subseteq Some
  <2>1. B([k \in 0..0 |-> a], 0)
    BY DEF Begins
  <2>2. 0 \in Some
    BY <2>1
  <2>3. ASSUME NEW n \in Nat, n \in Some PROVE n + 1 \in Some
    <3>1. PICK g : B(g, n)
      BY <2>3
    <3> DEFINE h == [k \in 0..(n + 1) |-> IF k = n + 1 THEN F[g[n]] ELSE g[k]]
    <3>2. \A k \in 0..n : g[k] \in S /\ F[g[k]] \in S
      BY <3>1 DEF Begins
    <3>3. h \in [0..(n + 1) -> S]
      BY <3>2
    <3>4. h[0] = a
      BY <3>1 DEF Begins
    <3>5. ASSUME NEW k \in 0..n PROVE h[k + 1] = F[h[k]]
      BY <3>1, <3>5 DEF Begins
    <3>6. (n + 1) - 1 = n
      OBVIOUS
    <3> HIDE DEF h
    <3>7. B(h, n + 1)
      BY <3>3, <3>4, <3>5, <3>6 DEF Begins
    <3> QED
      BY <3>7
  <2> HIDE DEF Some
  <2> QED
    BY <2>2, <2>3, Induction
<1>2. ASSUME NEW n \in Nat, NEW m \in Nat, m <= n, NEW g, B(g, n), NEW h, B(h, m)
      PROVE  \A k \in 0..m : g[k] = h[k]
  <2> DEFINE Same == {k \in Nat : k <= m => g[k] = h[k]}
  <2>1. 0 \in Same
    BY <1>2 DEF Begins
  <2>2. ASSUME NEW k \in Nat, k \in Same PROVE k + 1 \in Same
    <3>1. CASE k + 1 <= m
      <4>1. k \in 0..(m - 1) /\ k \in 0..(n - 1)
        BY <3>1, <1>2
      <4>2. g[k + 1] = F[g[k]] /\ h[k + 1] = F[h[k]]
        BY <4>1, <1>2 DEF Begins
      <4> QED
        BY <4>1, <4>2, <2>2
    <3>2. CASE ~(k + 1 <= m)
      BY <3>2
    <3> QED
      BY <3>1, <3>2
  <2>3. Nat \subseteq Same
    <3> HIDE DEF Same
    <3> QED
      BY <2>1, <2>2, Induction
  <2> QED
    BY <2>3
<1> DEFINE g(n) == CHOOSE q : B(q, n)
           f == [n \in Nat |-> g(n)[n]]
<1>3. \A n \in Nat : B(g(n), n)
  BY <1>1
<1>4. ASSUME NEW n \in Nat PROVE f[n] \in S
  <2>1. B(g(n), n)
    BY <1>3
  <2> HIDE DEF g
  <2> QED
    BY <2>1 DEF Begins
<1>5. f[0] = a
  BY <1>3 DEF Begins
<1>6. ASSUME NEW n \in Nat PROVE f[n + 1] = F[f[n]]
  <2>1. B(g(n), n) /\ B(g(n + 1), n + 1)
    BY <1>3
  <2> HIDE DEF g
  <2>2. g(n + 1)[n] = g(n)[n]
    BY <2>1, <1>2
  <2>3. g(n + 1)[n + 1] = F[g(n + 1)[n]]
    BY <2>1 DEF Begins
  <2> QED
    BY <2>2, <2>3
<1> HIDE DEF f
<1>7. f \in [Nat -> S]
  <2> USE DEF f
  <2> QED
    BY <1>4
<1> QED
  BY <1>5, <1>6, <1>7 DEF Iterates

\* What F makes of a function at d depends only on its values at arguments
\* with a smaller measure.
Decreases(F, m, D, V) ==
  /\ m \in [D -> Nat] /\ F \in [[D -> V] -> [D -> V]]
  /\ \A f, g \in [D -> V], d \in D :
       (\A e \in D : m[e] < m[d] => f[e] = g[e]) => F[f][d] = F[g][d]

\* Then the recursion f = F[f] has a solution.
LEMMA Solution ==
  ASSUME NEW D, NEW V, NEW m, NEW F, Decreases(F, m, D, V), NEW start \in [D -> V]
  PROVE  \E f : f = F[f] /\ f \in [D -> V]
<1> USE DEF Decreases
<1> DEFINE S == [D -> V]
<1>1. PICK s : Iterates(s, S, start, F)
  <2>1. start \in S /\ F \in [S -> S]
    OBVIOUS
  <2> HIDE DEF S
  <2> QED
    BY <2>1, Iteration
<1>2. \A n \in Nat : s[n] \in S /\ s[n + 1] \in S /\ s[n + 1] = F[s[n]]
  BY <1>1 DEF Iterates
<1> HIDE DEF S
<1> DEFINE Stable == {n \in Nat : \A d \in D : m[d] < n => s[n + 1][d] = s[n][d]}
<1>3. Nat \subseteq Stable
  <2>1. 0 \in Stable
    OBVIOUS
  <2>2. ASSUME NEW n \in Nat, n \in Stable PROVE n + 1 \in Stable
    <3> SUFFICES ASSUME NEW d \in D, m[d] < n + 1 PROVE s[n + 2][d] = s[n + 1][d]
      OBVIOUS
    <3>1. \A e \in D : m[e] < m[d] => s[n + 1][e] = s[n][e]
      BY <2>2
    <3>2. s[(n + 1) + 1] = F[s[n + 1]] /\ s[n + 1] = F[s[n]] /\ (n + 1) + 1 = n + 2
      BY <1>2
    <3>3. s[n] \in S /\ s[n + 1] \in S
      BY <1>2
    <3>4. F[s[n + 1]][d] = F[s[n]][d]
      BY <3>1, <3>3 DEF S
    <3> QED
      BY <3>2, <3>4
  <2> HIDE DEF Stable
  <2> QED
    BY <2>1, <2>2, Induction
<1>4. ASSUME NEW n \in Nat, NEW d \in D, m[d] < n PROVE \A p \in Nat : s[n + p][d] = s[n][d]
  <2> DEFINE Same == {p \in Nat : s[n + p][d] = s[n][d]}
  <2>1. 0 \in Same
    OBVIOUS
  <2>2. ASSUME NEW p \in Nat, p \in Same PROVE p + 1 \in Same
    <3>1. n + p \in Stable /\ m[d] < n + p
      BY <1>3, <1>4
    <3>2. s[(n + p) + 1][d] = s[n + p][d]
      BY <3>1
    <3> QED
      BY <3>2, <2>2
  <2> HIDE DEF Same
  <2>3. Nat \subseteq Same
    BY <2>1, <2>2, Induction
  <2> QED
    BY <2>3 DEF Same
<1> DEFINE f == [d \in D |-> s[m[d] + 1][d]]
<1>5. f \in S
  BY <1>2 DEF S
<1>6. ASSUME NEW d \in D PROVE F[f][d] = f[d]
  <2>1. ASSUME NEW e \in D, m[e] < m[d] PROVE f[e] = s[m[d]][e]
    <3>1. m[d] \in Nat /\ m[e] \in Nat
      OBVIOUS
    <3>2. /\ m[e] < m[e] + 1 /\ m[e] + 1 \in Nat
          /\ m[d] - (m[e] + 1) \in Nat
          /\ (m[e] + 1) + (m[d] - (m[e] + 1)) = m[d]
      BY <2>1, <3>1
    <3>3. s[(m[e] + 1) + (m[d] - (m[e] + 1))][e] = s[m[e] + 1][e]
      BY <3>2, <1>4
    <3> QED
      BY <3>2, <3>3
  <2>2. s[m[d]] \in S /\ s[m[d] + 1] = F[s[m[d]]]
    BY <1>2
  <2> HIDE DEF f
  <2>3. F[f][d] = F[s[m[d]]][d]
    BY <2>1, <2>2, <1>5 DEF S
  <2> QED
    BY <2>2, <2>3 DEF f
<1>7. F[f] \in S
  BY <1>5 DEF S
<1>8. F[f] = f
  BY <1>5, <1>6, <1>7 DEF S
<1> QED
  BY <1>5, <1>8 DEF S

\* f is the course of a loop from a, of which round k makes G[k][v] of v.
Course(f, n, V, a, G) ==
  f \in [0..n -> V] /\ f[0] = a /\ \A k \in 1..n : f[k] = G[k][f[k - 1]]

\* A loop of n rounds has a course.
LEMMA LoopRuns ==
  ASSUME NEW n \in Nat, NEW V, NEW a \in V, NEW G \in [1..n -> [V -> V]]
  PROVE  \E f : Course(f, n, V, a, G)
<1> DEFINE D == 0..n
           F == [f \in [D -> V] |-> [k \in D |-> IF k = 0 THEN a ELSE G[k][f[k - 1]]]]
           m == [k \in D |-> k]
           start == [k \in D |-> a]
<1>1. \A k \in D : k # 0 => k \in 1..n /\ k - 1 \in D /\ k - 1 < k
  OBVIOUS
<1>2. F \in [[D -> V] -> [D -> V]]
  <2>1. ASSUME NEW f \in [D -> V] PROVE [k \in D |-> IF k = 0 THEN a ELSE G[k][f[k - 1]]] \in [D -> V]
    <3> SUFFICES ASSUME NEW k \in D PROVE (IF k = 0 THEN a ELSE G[k][f[k - 1]]) \in V
      OBVIOUS
    <3>1. CASE k = 0
      BY <3>1
    <3>2. CASE k # 0
      <4>1. f[k - 1] \in V /\ k \in 1..n
        BY <1>1, <3>2
      <4> QED
        BY <3>2, <4>1
    <3> QED
      BY <3>1, <3>2
  <2> HIDE DEF D
  <2> QED
    BY <2>1
<1>3. Decreases(F, m, D, V)
  <2>1. m \in [D -> Nat]
    OBVIOUS
  <2>2. ASSUME NEW f \in [D -> V], NEW g \in [D -> V], NEW d \in D,
               \A e \in D : m[e] < m[d] => f[e] = g[e]
        PROVE  F[f][d] = F[g][d]
    <3>1. CASE d = 0
      BY <3>1
    <3>2. CASE d # 0
      <4>1. d - 1 \in D /\ m[d - 1] < m[d]
        BY <1>1, <3>2
      <4>2. f[d - 1] = g[d - 1]
        BY <2>2, <4>1
      <4> HIDE DEF D
      <4> QED
        BY <3>2, <4>2
    <3> QED
      BY <3>1, <3>2
  <2> HIDE DEF D, F, m
  <2> QED
    BY <1>2, <2>1, <2>2 DEF Decreases
<1>4. start \in [D -> V]
  OBVIOUS
<1>5. PICK f : f = F[f] /\ f \in [D -> V]
  <2> HIDE DEF D, F, m, start
  <2> QED
    BY <1>3, <1>4, Solution
<1>6. \A k \in D : f[k] = IF k = 0 THEN a ELSE G[k][f[k - 1]]
  <2> HIDE DEF D
  <2> QED
    BY <1>5
<1>7. 0 \in D /\ \A k \in 1..n : k \in D /\ k # 0
  OBVIOUS
<1>8. f[0] = a /\ \A k \in 1..n : f[k] = G[k][f[k - 1]]
  <2> HIDE DEF D
  <2> QED
    BY <1>6, <1>7
<1> QED
  BY <1>5, <1>8 DEF Course

\* A set of numbers up to n that is not empty has a greatest element.
LEMMA Greatest ==
  ASSUME NEW n \in Nat, NEW T \in SUBSET (0..n), T # {}
  PROVE  \E x \in T : \A y \in T : x >= y
<1> DEFINE U == {n - k : k \in T}
<1>1. U \in SUBSET Nat /\ U # {}
  <2>1. ASSUME NEW k \in T PROVE n - k \in Nat
    OBVIOUS
  <2> QED
    BY <2>1
<1>2. PICK u \in U : \A v \in U : u <= v
  BY <1>1, Least
<1>3. PICK x \in T : u = n - x
  BY <1>2
<1>4. ASSUME NEW y \in T PROVE x >= y
  <2>1. n - x <= n - y
    BY <1>2, <1>3
  <2> QED
    BY <2>1
<1> QED
  BY <1>4
=============================================================================
