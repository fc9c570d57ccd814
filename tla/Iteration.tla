------------------------------ MODULE Iteration ------------------------------
(***************************************************************************)
(* Induction and recursion on an interval of numbers, stated with a set    *)
(* and with a function in the place of a predicate and of an operator.     *)
(* The library's theorems take an operator as a parameter; these follow    *)
(* from the one that does not, that a set of numbers has a least member.   *)
(***************************************************************************)
EXTENDS Integers, WellFoundedInduction, TLAPS

\* A set of numbers has a least member.
LEMMA LeastExists ==
    ASSUME NEW S, S \subseteq Nat, S # {}
    PROVE  \E n \in S : \A m \in S : n <= m
<1> DEFINE R == OpToRel(<, Nat)
<1>1. IsWellFoundedOn(R, Nat)
  BY NatLessThanWellFounded
<1>2. \A x, y \in Nat : x < y => <<x, y>> \in R
  BY DEF OpToRel
<1> HIDE DEF R
<1>3. PICK k \in S : k \in Nat
  OBVIOUS
<1>4. PICK n \in S : \A m \in S : <<m, n>> \notin R
  BY <1>1, <1>3, WFMin
<1>5. \A m \in S : ~(m < n)
  BY <1>2, <1>4
<1>6. QED
  BY <1>4, <1>5

\* What holds of 0, and of n + 1 if it holds of n, holds of every number.
LEMMA SetInduction ==
    ASSUME NEW S, 0 \in S, \A n \in Nat : n \in S => n + 1 \in S
    PROVE  \A n \in Nat : n \in S
<1> SUFFICES ASSUME NEW x \in Nat \ S PROVE FALSE
  OBVIOUS
<1>1. PICK m \in Nat \ S : \A k \in Nat \ S : m <= k
  <2> DEFINE Rest == Nat \ S
  <2>1. Rest \subseteq Nat /\ Rest # {}
    OBVIOUS
  <2> HIDE DEF Rest
  <2>2. \E m \in Rest : \A k \in Rest : m <= k
    BY <2>1, LeastExists
  <2>3. QED
    BY <2>2 DEF Rest
<1>2. m # 0 /\ m - 1 \in Nat /\ ~(m <= m - 1) /\ (m - 1) + 1 = m
  OBVIOUS
<1>3. m - 1 \in S
  BY <1>1, <1>2
<1>4. QED
  BY <1>2, <1>3

\* The same for the numbers up to N.
LEMMA IntervalInduction ==
    ASSUME NEW N \in Nat, NEW S, 0 \in S, \A n \in 0 .. (N - 1) : n \in S => n + 1 \in S
    PROVE  \A n \in 0 .. N : n \in S
<1> DEFINE T == {n \in Nat : n <= N => n \in S}
<1>1. 0 \in T
  OBVIOUS
<1>2. \A n \in Nat : n \in T => n + 1 \in T
  OBVIOUS
<1> HIDE DEF T
<1>3. \A n \in Nat : n \in T
  BY <1>1, <1>2, SetInduction
<1>4. QED
  BY <1>3 DEF T

\* F is a step for each i in 1 .. N, on the members of S, of which s is one.
Steps(N, S, s, F) == N \in Nat /\ s \in S /\ F \in [1 .. N -> [S -> S]]

\* f records what the steps make of s.
Records(N, S, s, F, f) ==
    /\ f \in [0 .. N -> S]
    /\ f[0] = s
    /\ \A i \in 1 .. N : f[i] = F[i][f[i - 1]]

\* What the steps make of s, one after the other, can be recorded.
LEMMA Iterates ==
    ASSUME NEW N, NEW S, NEW s, NEW F, Steps(N, S, s, F)
    PROVE  \E f : Records(N, S, s, F, f)
<1> USE DEF Steps
<1> DEFINE Upto(f, n) == f[0] = s /\ \A i \in 1 .. n : f[i] = F[i][f[i - 1]]
           T == {n \in 0 .. N : \E f \in [0 .. N -> S] : Upto(f, n)}
<1>1. 0 \in T
  <2>1. [i \in 0 .. N |-> s] \in [0 .. N -> S] /\ Upto([i \in 0 .. N |-> s], 0)
    OBVIOUS
  <2>2. 0 \in 0 .. N
    OBVIOUS
  <2>3. QED
    BY <2>1, <2>2
<1>2. ASSUME NEW n \in 0 .. (N - 1), n \in T
      PROVE  n + 1 \in T
  <2>1. PICK f \in [0 .. N -> S] : Upto(f, n)
    BY <1>2
  <2> DEFINE g == [i \in 0 .. N |-> IF i = n + 1 THEN F[n + 1][f[n]] ELSE f[i]]
  <2>2. g \in [0 .. N -> S]
    <3>1. n + 1 \in 1 .. N /\ n \in 0 .. N
      OBVIOUS
    <3>2. F[n + 1] \in [S -> S] /\ f[n] \in S
      BY <3>1, <2>1
    <3>3. F[n + 1][f[n]] \in S
      BY <3>2
    <3>4. QED
      BY <3>3, <2>1
  <2>3. \A i \in 0 .. n : g[i] = f[i]
    OBVIOUS
  <2>4. g[n + 1] = F[n + 1][f[n]]
    OBVIOUS
  <2> HIDE DEF g
  <2>5. Upto(g, n + 1)
    BY <2>1, <2>3, <2>4
  <2>6. n + 1 \in 0 .. N
    OBVIOUS
  <2>7. QED
    BY <2>2, <2>5, <2>6
<1> HIDE DEF T
<1>3. \A n \in 0 .. N : n \in T
  BY <1>1, <1>2, IntervalInduction
<1>4. N \in T
  BY <1>3
<1>5. QED
  BY <1>4 DEF T, Records

\* F gives the value for each i in 1 .. N from the values for those above it.
Descending(N, S, F) ==
    /\ N \in Nat
    /\ F \in [1 .. N -> [[1 .. N -> S] -> S]]
    /\ \A i \in 1 .. N : \A g, h \in [1 .. N -> S] :
          (\A j \in (i + 1) .. N : g[j] = h[j]) => F[i][g] = F[i][h]

\* The values of f follow from each other in that way.
Descended(N, S, F, f) == f \in [1 .. N -> S] /\ \A i \in 1 .. N : f[i] = F[i][f]

\* There is such a function.
LEMMA Descends ==
    ASSUME NEW N, NEW S, NEW s, s \in S, NEW F, Descending(N, S, F)
    PROVE  \E f : Descended(N, S, F, f)
<1> DEFINE Downto(f, n) == \A i \in 1 .. N : i > N - n => f[i] = F[i][f]
           T == {n \in 0 .. N : \E f \in [1 .. N -> S] : Downto(f, n)}
<1>1. N \in Nat /\ F \in [1 .. N -> [[1 .. N -> S] -> S]]
  BY DEF Descending
<1>2. 0 \in T
  <2>1. [i \in 1 .. N |-> s] \in [1 .. N -> S] /\ Downto([i \in 1 .. N |-> s], 0)
    BY <1>1
  <2>2. 0 \in 0 .. N
    BY <1>1
  <2>3. QED
    BY <2>1, <2>2
<1>3. ASSUME NEW n \in 0 .. (N - 1), n \in T
      PROVE  n + 1 \in T
  <2>1. PICK f \in [1 .. N -> S] : Downto(f, n)
    BY <1>3
  <2> DEFINE k == N - n
             v == F[k][f]
             g == [i \in 1 .. N |-> IF i = k THEN v ELSE f[i]]
  <2>2. k \in 1 .. N /\ N - (n + 1) = k - 1 /\ n + 1 \in 0 .. N
    BY <1>1
  <2>3. v \in S
    BY <1>1, <2>1, <2>2
  <2> HIDE DEF v, k
  <2>4. g \in [1 .. N -> S] /\ \A i \in 1 .. N : g[i] = IF i = k THEN v ELSE f[i]
    BY <2>1, <2>3
  <2> HIDE DEF g
  <2>5. ASSUME NEW i \in 1 .. N, i > k - 1
        PROVE  g[i] = F[i][g]
    <3>1. \A j \in (i + 1) .. N : j \in 1 .. N /\ j # k
      BY <1>1, <2>2, <2>5
    <3>2. \A j \in (i + 1) .. N : g[j] = f[j]
      BY <2>4, <3>1
    <3>3. F[i][g] = F[i][f]
      BY <2>1, <2>4, <3>2 DEF Descending
    <3>4. CASE i = k
      BY <2>4, <3>3, <3>4 DEF v
    <3>5. CASE i # k
      <4>1. i > N - n
        BY <1>1, <2>2, <2>5, <3>5 DEF k
      <4>2. f[i] = F[i][f]
        BY <2>1, <4>1
      <4>3. QED
        BY <2>4, <3>3, <3>5, <4>2
    <3>6. QED
      BY <3>4, <3>5
  <2>6. Downto(g, n + 1)
    BY <2>2, <2>5
  <2> HIDE DEF Downto
  <2>7. QED
    BY <2>2, <2>4, <2>6
<1> HIDE DEF T
<1>4. N \in T
  <2>1. \A n \in 0 .. N : n \in T
    BY <1>1, <1>2, <1>3, IntervalInduction
  <2>2. N \in 0 .. N
    BY <1>1
  <2>3. QED
    BY <2>1, <2>2
<1>5. PICK f \in [1 .. N -> S] : Downto(f, N)
  BY <1>4 DEF T
<1>6. \A i \in 1 .. N : i > N - N
  BY <1>1
<1>7. QED
  BY <1>5, <1>6 DEF Descended
=============================================================================
