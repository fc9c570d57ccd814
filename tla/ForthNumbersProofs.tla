------------------------- MODULE ForthNumbersProofs -------------------------
(***************************************************************************)
(* For every width of cells and ints, and numerals of any length: a token  *)
(* is read as the number it stands for, and what is printed is read back.  *)
(*                                                                         *)
(* The number is read digit by digit and printed by divisions; both are    *)
(* recursive functions, shown to satisfy their equations and then compared *)
(* by induction, the reading with the sum of the digits' weights, and with *)
(* the number that was printed.                                            *)
(***************************************************************************)
EXTENDS ForthNumbers, SequenceTheorems, Iteration

Numerals == Seq(Digit)

-----------------------------------------------------------------------------
(* The recursive functions. *)

\* Reading adds a digit at a time.
LEMMA ReadIs ==
    ASSUME NEW ds \in Numerals
    PROVE  /\ Read(ds) \in [0 .. Len(ds) -> Nat]
           /\ Read(ds)[0] = 0
           /\ \A k \in 1 .. Len(ds) : Read(ds)[k] = 10 * Read(ds)[k - 1] + (ds[k] - 48)
<1> DEFINE N == Len(ds)
           F == [k \in 1 .. N |-> [x \in Nat |-> 10 * x + (ds[k] - 48)]]
           Def(f) == f = [k \in 0 .. N |-> IF k = 0 THEN 0 ELSE 10 * f[k - 1] + (ds[k] - 48)]
           read == CHOOSE f : Def(f)
<1>1. N \in Nat /\ \A k \in 1 .. N : ds[k] - 48 \in Nat
  BY DEF Numerals, Digit
<1>2. Read(ds) = read
  BY DEF Read
<1> HIDE DEF N
<1>3. Steps(N, Nat, 0, F)
  <2>1. ASSUME NEW k \in 1 .. N
        PROVE  [x \in Nat |-> 10 * x + (ds[k] - 48)] \in [Nat -> Nat]
    <3>1. ds[k] - 48 \in Nat
      BY <1>1
    <3>2. QED
      BY <3>1
  <2>2. QED
    BY <1>1, <2>1 DEF Steps
<1>4. PICK f : Records(N, Nat, 0, F, f)
  <2> HIDE DEF F
  <2>1. QED
    BY <1>3, Iterates
<1>5. /\ f \in [0 .. N -> Nat] /\ f[0] = 0
      /\ \A k \in 1 .. N : f[k] = 10 * f[k - 1] + (ds[k] - 48)
  <2>1. \A k \in 1 .. N : f[k - 1] \in Nat
    BY <1>1, <1>4 DEF Records
  <2>2. QED
    BY <1>4, <2>1 DEF Records
<1> HIDE DEF F
<1>6. Def(f)
  <2>1. \A k \in 0 .. N : k = 0 \/ k \in 1 .. N
    BY <1>1
  <2>2. f = [k \in 0 .. N |-> f[k]]
    BY <1>5
  <2>3. QED
    BY <1>5, <2>1, <2>2
<1>7. Def(read)
  <2> HIDE DEF Def
  <2>1. QED
    BY <1>6
<1> HIDE DEF read
<1>8. /\ read[0] = 0
      /\ \A k \in 1 .. N : read[k] = 10 * read[k - 1] + (ds[k] - 48)
  <2>1. \A k \in 1 .. N : k \in 0 .. N /\ k # 0
    BY <1>1
  <2>2. 0 \in 0 .. N
    BY <1>1
  <2>3. QED
    BY <1>7, <2>1, <2>2
<1> DEFINE Typed == {k \in 0 .. N : read[k] \in Nat}
<1>9. 0 \in Typed
  BY <1>1, <1>8
<1>10. ASSUME NEW n \in 0 .. (N - 1), n \in Typed
       PROVE  n + 1 \in Typed
  <2>1. n + 1 \in 1 .. N /\ n + 1 \in 0 .. N /\ (n + 1) - 1 = n
    BY <1>1
  <2>2. read[n + 1] = 10 * read[n] + (ds[n + 1] - 48)
    BY <1>8, <2>1
  <2>3. ds[n + 1] - 48 \in Nat
    BY <1>1, <2>1
  <2>4. QED
    BY <1>10, <2>1, <2>2, <2>3
<1>11. \A k \in 0 .. N : read[k] \in Nat
  <2> HIDE DEF Typed
  <2>1. \A k \in 0 .. N : k \in Typed
    BY <1>1, <1>9, <1>10, IntervalInduction
  <2>2. QED
    BY <2>1 DEF Typed
<1>12. read \in [0 .. N -> Nat]
  BY <1>7, <1>11
<1>13. QED
  BY <1>2, <1>8, <1>12 DEF N

\* The weights are multiplied by ten from place to place.
LEMMA WeightsAre ==
    ASSUME NEW m \in Nat
    PROVE  /\ \A n \in 0 .. m : Weights(m)[n] \in Nat
           /\ Weights(m)[0] = 1
           /\ \A n \in 1 .. m : Weights(m)[n] = 10 * Weights(m)[n - 1]
<1> DEFINE F == [n \in 1 .. m |-> [x \in Nat |-> 10 * x]]
           Def(f) == f = [n \in 0 .. m |-> IF n = 0 THEN 1 ELSE 10 * f[n - 1]]
           weight == CHOOSE f : Def(f)
<1>1. Weights(m) = weight
  BY DEF Weights
<1>2. Steps(m, Nat, 1, F)
  <2>1. [x \in Nat |-> 10 * x] \in [Nat -> Nat]
    OBVIOUS
  <2>2. QED
    BY <2>1 DEF Steps
<1>3. PICK f : Records(m, Nat, 1, F, f)
  <2> HIDE DEF F
  <2>1. QED
    BY <1>2, Iterates
<1>4. /\ f \in [0 .. m -> Nat] /\ f[0] = 1
      /\ \A n \in 1 .. m : f[n] = 10 * f[n - 1]
  <2>1. \A n \in 1 .. m : f[n - 1] \in Nat
    BY <1>3 DEF Records
  <2>2. QED
    BY <1>3, <2>1 DEF Records
<1> HIDE DEF F
<1>5. Def(f)
  <2>1. \A n \in 0 .. m : n = 0 \/ n \in 1 .. m
    OBVIOUS
  <2>2. f = [n \in 0 .. m |-> f[n]]
    BY <1>4
  <2>3. QED
    BY <1>4, <2>1, <2>2
<1>6. Def(weight)
  <2> HIDE DEF Def
  <2>1. QED
    BY <1>5
<1> HIDE DEF weight
<1>7. /\ weight[0] = 1
      /\ \A n \in 1 .. m : weight[n] = 10 * weight[n - 1]
  <2>1. \A n \in 1 .. m : n \in 0 .. m /\ n # 0
    OBVIOUS
  <2>2. 0 \in 0 .. m
    OBVIOUS
  <2>3. QED
    BY <1>6, <2>1, <2>2
<1> DEFINE Typed == {n \in 0 .. m : weight[n] \in Nat}
<1>8. 0 \in Typed
  BY <1>7
<1>9. ASSUME NEW n \in 0 .. (m - 1), n \in Typed
      PROVE  n + 1 \in Typed
  <2>1. n + 1 \in 1 .. m /\ n + 1 \in 0 .. m /\ (n + 1) - 1 = n
    OBVIOUS
  <2>2. QED
    BY <1>7, <1>9, <2>1
<1>10. \A n \in 0 .. m : weight[n] \in Nat
  <2> HIDE DEF Typed
  <2>1. \A n \in 0 .. m : n \in Typed
    BY <1>8, <1>9, IntervalInduction
  <2>2. QED
    BY <2>1 DEF Typed
<1>11. QED
  BY <1>1, <1>7, <1>10

\* The sum adds a digit with its weight at a time.
LEMMA SumIs ==
    ASSUME NEW ds \in Numerals
    PROVE  /\ Sum(ds)[0] = 0
           /\ \A k \in 1 .. Len(ds) :
                 Sum(ds)[k] = Sum(ds)[k - 1] + (ds[k] - 48) * Weights(Len(ds))[Len(ds) - k]
<1> DEFINE N == Len(ds)
           d == [k \in 1 .. N |-> (ds[k] - 48) * Weights(N)[N - k]]
           F == [k \in 1 .. N |-> [x \in Int |-> x + d[k]]]
           Def(f) == f = [k \in 0 .. N |->
                             IF k = 0 THEN 0 ELSE f[k - 1] + (ds[k] - 48) * Weights(N)[N - k]]
           sum == CHOOSE f : Def(f)
<1>1. N \in Nat /\ \A k \in 1 .. N : ds[k] - 48 \in Nat
  BY DEF Numerals, Digit
<1>2. Sum(ds) = sum
  BY DEF Sum
<1> HIDE DEF N
<1>3. \A k \in 1 .. N : d[k] \in Int
  <2> SUFFICES ASSUME NEW k \in 1 .. N PROVE d[k] \in Int
    OBVIOUS
  <2>1. N - k \in 0 .. N
    BY <1>1
  <2>2. Weights(N)[N - k] \in Nat
    BY <1>1, <2>1, WeightsAre
  <2>3. ds[k] - 48 \in Nat
    BY <1>1
  <2> DEFINE a == ds[k] - 48
             w == Weights(N)[N - k]
  <2>4. d[k] = a * w
    OBVIOUS
  <2> HIDE DEF a, w, d
  <2>5. a \in Nat /\ w \in Nat
    BY <2>2, <2>3 DEF a, w
  <2>6. a * w \in Int
    BY <2>5
  <2>7. QED
    BY <2>4, <2>6
<1> HIDE DEF d
<1>4. Steps(N, Int, 0, F)
  <2>1. \A k \in 1 .. N : [x \in Int |-> x + d[k]] \in [Int -> Int]
    BY <1>3
  <2>2. QED
    BY <1>1, <2>1 DEF Steps
<1>5. PICK f : Records(N, Int, 0, F, f)
  <2> HIDE DEF F
  <2>1. QED
    BY <1>4, Iterates
<1>6. f \in [0 .. N -> Int] /\ f[0] = 0 /\ \A k \in 1 .. N : f[k] = f[k - 1] + d[k]
  <2>1. \A k \in 1 .. N : f[k - 1] \in Int
    BY <1>1, <1>5 DEF Records
  <2>2. QED
    BY <1>5, <2>1 DEF Records
<1> HIDE DEF F
<1>7. \A k \in 1 .. N : d[k] = (ds[k] - 48) * Weights(N)[N - k]
  BY DEF d
<1>8. Def(f)
  <2>1. \A k \in 0 .. N : k = 0 \/ k \in 1 .. N
    BY <1>1
  <2>2. f = [k \in 0 .. N |-> f[k]]
    BY <1>6
  <2>3. QED
    BY <1>6, <1>7, <2>1, <2>2
<1>9. Def(sum)
  <2> HIDE DEF Def
  <2>1. QED
    BY <1>8
<1> HIDE DEF sum
<1>10. /\ sum[0] = 0
       /\ \A k \in 1 .. N : sum[k] = sum[k - 1] + (ds[k] - 48) * Weights(N)[N - k]
  <2>1. \A k \in 1 .. N : k \in 0 .. N /\ k # 0
    BY <1>1
  <2>2. 0 \in 0 .. N
    BY <1>1
  <2>3. QED
    BY <1>9, <2>1, <2>2
<1>11. QED
  BY <1>2, <1>10 DEF N

-----------------------------------------------------------------------------
(* Reading. *)

\* Digits read before the place k, and the digits from there on by weight.
LEMMA ReadingWeighs ==
    ASSUME NEW r \in Nat, NEW w \in Nat, NEW d \in Nat, NEW x \in Nat, x = 10 * w
    PROVE  r * x + d * w = (10 * r + d) * w
<1>1. r * (10 * w) = (10 * r) * w
  OBVIOUS
<1>2. (10 * r + d) * w = (10 * r) * w + d * w
  OBVIOUS
<1>3. QED
  BY <1>1, <1>2

\* What the digits make one after the other is the sum of their weights.
LEMMA ReadIsSum ==
    ASSUME NEW ds \in Numerals
    PROVE  Read(ds)[Len(ds)] = Sum(ds)[Len(ds)]
<1> DEFINE N == Len(ds)
           read == Read(ds)
           sum == Sum(ds)
           weight == Weights(N)
           Same == {k \in 0 .. N : sum[k] = read[k] * weight[N - k]}
<1>1. N \in Nat /\ \A k \in 1 .. N : ds[k] - 48 \in Nat
  BY DEF Numerals, Digit
<1>2. /\ \A k \in 0 .. N : read[k] \in Nat
      /\ read[0] = 0
      /\ \A k \in 1 .. N : read[k] = 10 * read[k - 1] + (ds[k] - 48)
  BY ReadIs
<1>3. /\ sum[0] = 0
      /\ \A k \in 1 .. N : sum[k] = sum[k - 1] + (ds[k] - 48) * weight[N - k]
  BY SumIs
<1> HIDE DEF N
<1>4. /\ \A n \in 0 .. N : weight[n] \in Nat
      /\ weight[0] = 1
      /\ \A n \in 1 .. N : weight[n] = 10 * weight[n - 1]
  BY <1>1, WeightsAre
<1> HIDE DEF read, sum, weight
<1>5. 0 \in Same
  <2>1. weight[N - 0] \in Nat /\ 0 \in 0 .. N
    BY <1>1, <1>4
  <2>2. 0 * weight[N - 0] = 0
    BY <2>1
  <2>3. QED
    BY <1>2, <1>3, <2>1, <2>2
<1>6. ASSUME NEW n \in 0 .. (N - 1), n \in Same
      PROVE  n + 1 \in Same
  <2> DEFINE r == read[n]
             w == weight[N - (n + 1)]
             x == weight[N - n]
             d == ds[n + 1] - 48
  <2>1. n + 1 \in 1 .. N /\ n + 1 \in 0 .. N /\ (n + 1) - 1 = n /\ n \in 0 .. N
        /\ N - n \in 1 .. N /\ (N - n) - 1 = N - (n + 1) /\ N - (n + 1) \in 0 .. N /\ N - n \in 0 .. N
    BY <1>1
  <2>2. sum[n + 1] = sum[n] + d * w
    BY <1>3, <2>1
  <2>3. read[n + 1] = 10 * r + d
    BY <1>2, <2>1
  <2>4. sum[n] = r * x
    BY <1>6
  <2>5. x = 10 * w
    BY <1>4, <2>1
  <2>6. r \in Nat /\ w \in Nat /\ d \in Nat /\ x \in Nat
    BY <1>1, <1>2, <1>4, <2>1
  <2> HIDE DEF r, w, d, x
  <2>7. r * x + d * w = (10 * r + d) * w
    BY <2>5, <2>6, ReadingWeighs
  <2>8. sum[n + 1] = read[n + 1] * w
    BY <2>2, <2>3, <2>4, <2>7
  <2>9. QED
    BY <2>1, <2>8 DEF w
<1>7. N \in Same
  <2> HIDE DEF Same
  <2>1. \A k \in 0 .. N : k \in Same
    BY <1>1, <1>5, <1>6, IntervalInduction
  <2>2. N \in 0 .. N
    BY <1>1
  <2>3. QED
    BY <2>1, <2>2
<1>8. sum[N] = read[N] * weight[N - N] /\ N - N = 0
  BY <1>1, <1>7
<1>9. read[N] \in Nat
  BY <1>1, <1>2
<1>10. sum[N] = read[N]
  BY <1>4, <1>8, <1>9
<1>11. QED
  BY <1>10 DEF N, read, sum

\* Reading one digit more.
LEMMA ReadAppends ==
    ASSUME NEW t \in Numerals, NEW c \in Digit
    PROVE  LET ds == Append(t, c)
           IN  Read(ds)[Len(ds)] = 10 * Read(t)[Len(t)] + (c - 48)
<1> DEFINE ds == Append(t, c)
           N == Len(t)
<1>1. /\ ds \in Numerals /\ N \in Nat /\ Len(ds) = N + 1 /\ ds[N + 1] = c
      /\ \A k \in 1 .. N : ds[k] = t[k]
  BY DEF Numerals
<1> DEFINE long == Read(ds)
           short == Read(t)
<1>2. /\ long[0] = 0
      /\ \A k \in 1 .. (N + 1) : long[k] = 10 * long[k - 1] + (ds[k] - 48)
  BY <1>1, ReadIs
<1>3. /\ short[0] = 0
      /\ \A k \in 1 .. N : short[k] = 10 * short[k - 1] + (t[k] - 48)
  BY ReadIs
<1> HIDE DEF ds, N, long, short
<1>4. 0 \in {k \in 0 .. N : long[k] = short[k]}
  BY <1>1, <1>2, <1>3
<1>5. ASSUME NEW n \in 0 .. (N - 1), n \in {k \in 0 .. N : long[k] = short[k]}
      PROVE  n + 1 \in {k \in 0 .. N : long[k] = short[k]}
  <2>1. n + 1 \in 1 .. N /\ n + 1 \in 1 .. (N + 1) /\ (n + 1) - 1 = n /\ n + 1 \in 0 .. N
    BY <1>1
  <2>2. long[n + 1] = 10 * long[n] + (ds[n + 1] - 48)
    BY <1>2, <2>1
  <2>3. short[n + 1] = 10 * short[n] + (t[n + 1] - 48)
    BY <1>3, <2>1
  <2>4. QED
    BY <1>1, <1>5, <2>1, <2>2, <2>3
<1>6. long[N] = short[N]
  <2> DEFINE S == {k \in 0 .. N : long[k] = short[k]}
  <2>1. 0 \in S /\ \A n \in 0 .. (N - 1) : n \in S => n + 1 \in S
    BY <1>4, <1>5
  <2> HIDE DEF S
  <2>2. \A k \in 0 .. N : k \in S
    BY <1>1, <2>1, IntervalInduction
  <2>3. N \in 0 .. N
    BY <1>1
  <2>4. QED
    BY <2>2, <2>3 DEF S
<1>7. long[N + 1] = 10 * long[N] + (c - 48)
  <2>1. N + 1 \in 1 .. (N + 1) /\ (N + 1) - 1 = N
    BY <1>1
  <2>2. QED
    BY <1>1, <1>2, <2>1
<1>8. QED
  BY <1>1, <1>6, <1>7 DEF ds, N, long, short

-----------------------------------------------------------------------------
(* Printing. *)

\* The last digit of a number, and the number before it.
LEMMA TenDivides ==
    ASSUME NEW m \in Nat
    PROVE  /\ m \div 10 \in Nat /\ m % 10 \in 0 .. 9
           /\ 10 * (m \div 10) + (m % 10) = m
           /\ m \div 10 <= m
           /\ m >= 10 => m \div 10 < m
  OBVIOUS

\* The digits of m, those of smaller numbers being known.
Prints(f, m) == IF m < 10 THEN <<48 + m>> ELSE Append(f[m \div 10], 48 + (m % 10))

\* Numbers are printed from their last digit to their first.
LEMMA UnsignedRecurs ==
    \A m \in 0 .. Modulus : Unsigned[m] = Prints(Unsigned, m)
<1> DEFINE N == Modulus + 1
           S == Numerals
           D == 1 .. N
           M == 0 .. Modulus
           step(i, g) == IF N - i < 10 THEN <<48 + (N - i)>>
                         ELSE Append(g[N - ((N - i) \div 10)], 48 + ((N - i) % 10))
           F == [i \in D |-> [g \in [D -> S] |-> step(i, g)]]
           Def(f) == f = [m \in M |-> IF m < 10 THEN <<48 + m>>
                                       ELSE Append(f[m \div 10], 48 + (m % 10))]
           digits == CHOOSE f : Def(f)
<1>1. Modulus \in Nat /\ N \in Nat /\ N = Modulus + 1 /\ <<>> \in S
  BY NumberAssumption DEF Numerals
<1>2. Unsigned = digits
  BY DEF Unsigned
<1> HIDE DEF N
<1>3. ASSUME NEW i \in D
      PROVE  /\ N - i \in Nat
             /\ N - i < 10 => 48 + (N - i) \in Digit
             /\ 48 + ((N - i) % 10) \in Digit
             /\ N - i >= 10 => N - ((N - i) \div 10) \in (i + 1) .. N
  <2> DEFINE m == N - i
  <2>1. m \in Nat /\ i \in Nat /\ i >= 1 /\ i <= N /\ N - m = i
    BY <1>1
  <2> HIDE DEF m
  <2>2. /\ m \div 10 \in Nat /\ m % 10 \in 0 .. 9
        /\ m >= 10 => m \div 10 < m
    BY <2>1, TenDivides
  <2>3. m < 10 => 48 + m \in Digit
    BY <2>1 DEF Digit
  <2>4. 48 + (m % 10) \in Digit
    BY <2>2 DEF Digit
  <2> DEFINE q == m \div 10
  <2>5. q \in Nat /\ (m >= 10 => q < m)
    BY <2>2
  <2> HIDE DEF q
  <2>6. m >= 10 => N - q \in (i + 1) .. N
    BY <1>1, <2>1, <2>5
  <2>7. QED
    BY <2>1, <2>3, <2>4, <2>6 DEF m, q
<1>4. ASSUME NEW i \in D, NEW g \in [D -> S]
      PROVE  step(i, g) \in S
  <2>1. CASE N - i < 10
    <3>1. <<48 + (N - i)>> \in Seq(Digit)
      BY <1>3, <2>1
    <3>2. QED
      BY <2>1, <3>1 DEF Numerals
  <2>2. CASE ~(N - i < 10)
    <3>1. N - i >= 10
      BY <1>3, <2>2
    <3>2. N - ((N - i) \div 10) \in D
      BY <1>1, <1>3, <3>1
    <3>3. g[N - ((N - i) \div 10)] \in Seq(Digit)
      BY <3>2 DEF Numerals
    <3>4. Append(g[N - ((N - i) \div 10)], 48 + ((N - i) % 10)) \in Seq(Digit)
      BY <1>3, <3>3, AppendProperties
    <3>5. QED
      BY <2>2, <3>4 DEF Numerals
  <2>3. QED
    BY <2>1, <2>2
<1>5. ASSUME NEW i \in D, NEW g \in [D -> S], NEW h \in [D -> S],
             \A j \in (i + 1) .. N : g[j] = h[j]
      PROVE  step(i, g) = step(i, h)
  <2>1. CASE N - i < 10
    BY <2>1
  <2>2. CASE ~(N - i < 10)
    <3>1. N - i >= 10
      BY <1>3, <2>2
    <3>2. g[N - ((N - i) \div 10)] = h[N - ((N - i) \div 10)]
      BY <1>3, <1>5, <3>1
    <3>3. QED
      BY <2>2, <3>2
  <2>3. QED
    BY <2>1, <2>2
<1>6. Descending(N, S, F)
  <2> HIDE DEF step, S
  <2>1. F \in [D -> [[D -> S] -> S]]
    BY <1>4
  <2>2. \A i \in D : \A g, h \in [D -> S] :
          (\A j \in (i + 1) .. N : g[j] = h[j]) => F[i][g] = F[i][h]
    BY <1>5
  <2>3. QED
    BY <1>1, <2>1, <2>2 DEF Descending
<1>7. PICK g \in [D -> S] : \A i \in D : g[i] = step(i, g)
  <2> HIDE DEF step, S
  <2>1. PICK g : Descended(N, S, F, g)
    <3> HIDE DEF F
    <3>1. QED
      BY <1>1, <1>6, Descends
  <2>2. QED
    BY <2>1 DEF Descended
<1> DEFINE f == [m \in M |-> g[N - m]]
<1>8. Def(f)
  <2>1. ASSUME NEW m \in M
        PROVE  f[m] = IF m < 10 THEN <<48 + m>> ELSE Append(f[m \div 10], 48 + (m % 10))
    <3>1. N - m \in D /\ N - (N - m) = m /\ m \in Nat
      BY <1>1
    <3>2. m \div 10 \in M
      <4> DEFINE q == m \div 10
      <4>1. q \in Nat /\ q <= m
        BY <3>1, TenDivides
      <4> HIDE DEF q
      <4>2. q \in M
        BY <1>1, <3>1, <4>1
      <4>3. QED
        BY <4>2 DEF q
    <3>3. g[N - m] = step(N - m, g)
      BY <1>7, <3>1
    <3>4. step(N - m, g) = IF m < 10 THEN <<48 + m>>
                           ELSE Append(g[N - (m \div 10)], 48 + (m % 10))
      BY <3>1
    <3>5. f[m \div 10] = g[N - (m \div 10)]
      BY <3>2
    <3>6. QED
      BY <3>3, <3>4, <3>5
  <2>2. f = [m \in M |-> f[m]]
    OBVIOUS
  <2> HIDE DEF f
  <2>3. QED
    BY <2>1, <2>2
<1>9. Def(digits)
  <2> HIDE DEF Def, f
  <2>1. QED
    BY <1>8
<1> HIDE DEF digits
<1>10. \A m \in M : digits[m] = IF m < 10 THEN <<48 + m>>
                                ELSE Append(digits[m \div 10], 48 + (m % 10))
  BY <1>9
<1>11. QED
  BY <1>2, <1>10 DEF Prints

\* What is printed are digits, and reading them gives the number.
LEMMA UnsignedReadsBack ==
    ASSUME NEW m \in 0 .. Modulus
    PROVE  /\ Unsigned[m] \in Numerals
           /\ Len(Unsigned[m]) >= 1
           /\ Read(Unsigned[m])[Len(Unsigned[m])] = m
<1> DEFINE Reads(k) == /\ Unsigned[k] \in Numerals
                       /\ Len(Unsigned[k]) >= 1
                       /\ Read(Unsigned[k])[Len(Unsigned[k])] = k
           Good == {n \in 0 .. Modulus : \A k \in 0 .. n : Reads(k)}
<1>1. Modulus \in Nat
  BY NumberAssumption
<1>2. ASSUME NEW k \in 0 .. Modulus, k < 10
      PROVE  Reads(k)
  <2>1. Unsigned[k] = <<48 + k>>
    BY <1>2, UnsignedRecurs DEF Prints
  <2> DEFINE ds == <<48 + k>>
  <2>2. 48 + k \in Digit
    BY <1>1, <1>2 DEF Digit
  <2>3. ds \in Numerals /\ Len(ds) = 1 /\ ds[1] = 48 + k
    BY <2>2 DEF Numerals
  <2> HIDE DEF ds
  <2>4. Read(ds)[0] = 0 /\ Read(ds)[1] = 10 * Read(ds)[1 - 1] + (ds[1] - 48)
    <3>1. 1 \in 1 .. Len(ds)
      BY <2>3
    <3>2. QED
      BY <2>3, <3>1, ReadIs
  <2>5. Read(ds)[1] = k
    BY <1>1, <2>3, <2>4
  <2>6. QED
    BY <2>1, <2>3, <2>5 DEF ds
<1>3. ASSUME NEW k \in 0 .. Modulus, ~(k < 10), Reads(k \div 10)
      PROVE  Reads(k)
  <2> DEFINE t == Unsigned[k \div 10]
             c == 48 + (k % 10)
             ds == Append(t, c)
  <2>1. Unsigned[k] = ds
    BY <1>3, UnsignedRecurs DEF Prints
  <2>2. k % 10 \in 0 .. 9 /\ 10 * (k \div 10) + (k % 10) = k
    BY <1>1, TenDivides
  <2>3. c \in Digit /\ c - 48 = k % 10
    BY <2>2 DEF Digit
  <2>4. t \in Numerals /\ Read(t)[Len(t)] = k \div 10
    BY <1>3
  <2> HIDE DEF t, c
  <2>5. Read(ds)[Len(ds)] = 10 * Read(t)[Len(t)] + (c - 48)
    BY <2>3, <2>4, ReadAppends
  <2>6. ds \in Numerals /\ Len(ds) >= 1
    BY <2>3, <2>4, AppendProperties DEF Numerals
  <2> HIDE DEF ds
  <2>7. Read(ds)[Len(ds)] = k
    BY <2>2, <2>3, <2>4, <2>5
  <2>8. QED
    BY <2>1, <2>6, <2>7
<1> HIDE DEF Reads
<1>4. 0 \in Good
  <2>1. \A k \in 0 .. 0 : k \in 0 .. Modulus /\ k < 10
    BY <1>1
  <2>2. QED
    BY <1>1, <1>2, <2>1
<1>5. ASSUME NEW n \in 0 .. (Modulus - 1), n \in Good
      PROVE  n + 1 \in Good
  <2>1. ASSUME NEW k \in 0 .. (n + 1)
        PROVE  Reads(k)
    <3>1. k \in 0 .. Modulus /\ k \in Nat /\ n \in Nat
      BY <1>1
    <3>2. CASE k < 10
      BY <1>2, <3>1, <3>2
    <3>3. CASE ~(k < 10)
      <4> DEFINE q == k \div 10
      <4>1. q \in Nat /\ q < k
        BY <3>1, <3>3, TenDivides
      <4> HIDE DEF q
      <4>2. q \in 0 .. n
        BY <3>1, <4>1
      <4>3. Reads(q)
        BY <1>5, <4>2
      <4>4. QED
        BY <1>3, <3>1, <3>3, <4>3 DEF q
    <3>4. QED
      BY <3>2, <3>3
  <2>2. n + 1 \in 0 .. Modulus
    BY <1>1
  <2>3. QED
    BY <2>1, <2>2
<1>6. m \in Good
  <2> HIDE DEF Good
  <2>1. \A n \in 0 .. Modulus : n \in Good
    BY <1>1, <1>4, <1>5, IntervalInduction
  <2>2. QED
    BY <2>1
<1>7. m \in 0 .. m
  BY <1>1
<1>8. Reads(m)
  BY <1>6, <1>7
<1>9. QED
  BY <1>8 DEF Reads

-----------------------------------------------------------------------------
(* Numerals. *)

\* Digits, one at least.
LEMMA DigitsAre ==
    ASSUME NEW s \in Seq(Nat)
    PROVE  /\ AreDigits(s) <=> Len(s) >= 1 /\ \A k \in 1 .. Len(s) : s[k] \in Digit
           /\ AreDigits(s) => s \in Numerals
<1>1. Len(s) \in Nat /\ (s # <<>> <=> Len(s) >= 1)
  BY EmptySeq
<1>2. s \in [1 .. Len(s) -> Nat]
  OBVIOUS
<1>3. (\A k \in 1 .. Len(s) : s[k] \in Digit) => s \in [1 .. Len(s) -> Digit]
  BY <1>2
<1>4. s \in [1 .. Len(s) -> Digit] => s \in Seq(Digit)
  BY <1>1
<1>5. QED
  BY <1>1, <1>3, <1>4 DEF AreDigits, Numerals

\* What to_numeric takes for a number is a numeral, and nothing else is.
LEMMA NumericIs ==
    ASSUME NEW s \in Seq(Nat), Len(s) >= 1
    PROVE  /\ IsNumeric(s) <=> Numeral(s)
           /\ IsNumeric(s) => Digits(s) \in Numerals
<1> DEFINE N == Len(s)
           t == Tail(s)
<1>1. N \in Nat /\ N >= 1 /\ MINUS \notin Digit
  BY DEF MINUS, Digit
<1>2. t \in Seq(Nat) /\ Len(t) = N - 1 /\ \A k \in 1 .. (N - 1) : t[k] = s[k + 1]
  OBVIOUS
<1>3. AreDigits(s) <=> \A k \in 1 .. N : s[k] \in Digit
  BY <1>1, DigitsAre
<1>4. AreDigits(t) <=> N > 1 /\ \A k \in 1 .. (N - 1) : t[k] \in Digit
  <2> HIDE DEF N, t
  <2>1. AreDigits(t) <=> Len(t) >= 1 /\ \A k \in 1 .. Len(t) : t[k] \in Digit
    BY <1>2, DigitsAre
  <2>2. N - 1 >= 1 <=> N > 1
    BY <1>1
  <2>3. QED
    BY <1>2, <2>1, <2>2
<1>5. AreDigits(s) => s \in Numerals
  BY DigitsAre
<1>6. AreDigits(t) => t \in Numerals
  <2> HIDE DEF t
  <2>1. QED
    BY <1>2, DigitsAre
<1> HIDE DEF N, t
<1>7. CASE s[1] = MINUS /\ N > 1
  <2>1. FirstDigit(s) = 2 /\ Digits(s) = t
    BY <1>7 DEF FirstDigit, Digits, N, t
  <2>2. IsNumeric(s) <=> \A k \in 2 .. N : s[k] \in Digit
    BY <2>1 DEF IsNumeric, N
  <2>3. (\A k \in 2 .. N : s[k] \in Digit) <=> \A k \in 1 .. (N - 1) : t[k] \in Digit
    <3>1. ASSUME \A k \in 2 .. N : s[k] \in Digit, NEW k \in 1 .. (N - 1)
          PROVE  t[k] \in Digit
      <4>1. k + 1 \in 2 .. N
        BY <1>1
      <4>2. QED
        BY <1>2, <3>1, <4>1
    <3>2. ASSUME \A k \in 1 .. (N - 1) : t[k] \in Digit, NEW k \in 2 .. N
          PROVE  s[k] \in Digit
      <4>1. k - 1 \in 1 .. (N - 1) /\ (k - 1) + 1 = k
        BY <1>1
      <4>2. t[k - 1] = s[k]
        BY <1>2, <4>1
      <4>3. QED
        BY <3>2, <4>1, <4>2
    <3>3. QED
      BY <3>1, <3>2
  <2>4. ~AreDigits(s)
    <3>1. 1 \in 1 .. N /\ s[1] \notin Digit
      BY <1>1, <1>7
    <3>2. QED
      BY <1>3, <3>1
  <2>5. Numeral(s) <=> AreDigits(t)
    BY <1>7, <2>4 DEF Numeral, t
  <2>6. QED
    BY <1>4, <1>6, <1>7, <2>1, <2>2, <2>3, <2>5
<1>8. CASE ~(s[1] = MINUS /\ N > 1)
  <2>1. FirstDigit(s) = 1
    BY <1>8 DEF FirstDigit, N
  <2>2. IsNumeric(s) <=> AreDigits(s)
    BY <1>3, <2>1 DEF IsNumeric, N
  <2>3. ~(s[1] = MINUS /\ AreDigits(t))
    BY <1>4, <1>8
  <2>4. Numeral(s) <=> AreDigits(s)
    BY <2>3 DEF Numeral, t
  <2>5. AreDigits(s) => s[1] # MINUS
    <3>1. 1 \in 1 .. N
      BY <1>1
    <3>2. QED
      BY <1>1, <1>3, <3>1
  <2>6. AreDigits(s) => Digits(s) = s /\ s \in Numerals
    BY <1>3, <1>5, <2>5 DEF Digits
  <2>7. QED
    BY <2>2, <2>4, <2>6
<1>9. QED
  BY <1>7, <1>8

\* A number that an int holds is read as what its numeral means.
LEMMA AtoiIs ==
    ASSUME NEW s, Digits(s) \in Numerals
    PROVE  atoi(s) = IF Meaning(s) \in Int32 THEN {Meaning(s)} ELSE Int32
<1>1. Read(Digits(s))[Len(Digits(s))] = Sum(Digits(s))[Len(Digits(s))]
  BY ReadIsSum
<1>2. QED
  BY <1>1 DEF atoi, Meaning

\* Half of a word and of an int.
LEMMA HalvesAre ==
    \E h \in Nat, g \in Nat :
        /\ Modulus = 2 * h /\ Modulus \div 2 = h
        /\ IntModulus = 2 * g /\ IntModulus \div 2 = g
        /\ 0 < g /\ g <= h
<1>1. /\ Modulus \in Nat /\ IntModulus \in Nat /\ 0 < IntModulus /\ IntModulus <= Modulus
      /\ Modulus % 2 = 0 /\ IntModulus % 2 = 0
  BY NumberAssumption
<1> DEFINE h == Modulus \div 2
           g == IntModulus \div 2
<1>2. h \in Nat /\ Modulus = 2 * h
  BY <1>1
<1>3. g \in Nat /\ IntModulus = 2 * g
  BY <1>1
<1> HIDE DEF h, g
<1>4. 0 < g /\ g <= h
  BY <1>1, <1>2, <1>3
<1>5. QED
  BY <1>2, <1>3, <1>4 DEF h, g

\* A remainder.
LEMMA WrapsUp ==
    ASSUME NEW m \in Nat, m > 0, NEW n \in Int
    PROVE  /\ n % m \in 0 .. (m - 1)
           /\ n \in 0 .. (m - 1) => n % m = n
           /\ n + m \in 0 .. (m - 1) => n % m = n + m
  OBVIOUS

\* A cell keeps the int that is put into it, and its sign.
LEMMA CellKeepsInt ==
    /\ Word \subseteq Nat
    /\ \A w \in Word : Signed(w) \in Int /\ CellOf(Signed(w)) = w
    /\ \A n \in Int32 : CellOf(n) \in Word /\ Signed(CellOf(n)) = n
    /\ \A n \in Int : n % Modulus \in Word
    /\ \A w \in Word : Signed(w) \in -Modulus .. Modulus
<1>1. PICK h \in Nat, g \in Nat :
         /\ Modulus = 2 * h /\ Modulus \div 2 = h
         /\ IntModulus = 2 * g /\ IntModulus \div 2 = g
         /\ 0 < g /\ g <= h
  BY HalvesAre
<1>2. Modulus \in Nat /\ Modulus > 0
  BY <1>1
<1>3. /\ Word = 0 .. (Modulus - 1)
      /\ \A w : Signed(w) = IF w < h THEN w ELSE w - Modulus
      /\ \A n : CellOf(n) = n % Modulus
      /\ Int32 = -g .. (g - 1)
  BY <1>1 DEF Word, Signed, CellOf, Int32
<1> DEFINE wrap(n) == n % Modulus
<1>4. \A n \in Int : /\ wrap(n) \in 0 .. (Modulus - 1)
                     /\ n \in 0 .. (Modulus - 1) => wrap(n) = n
                     /\ n + Modulus \in 0 .. (Modulus - 1) => wrap(n) = n + Modulus
  BY <1>2, WrapsUp
<1>5. \A n : CellOf(n) = wrap(n)
  BY <1>3
<1> HIDE DEF wrap
<1>6. ASSUME NEW w \in Word
      PROVE  /\ Signed(w) \in Int /\ CellOf(Signed(w)) = w
             /\ Signed(w) \in -Modulus .. Modulus
  <2>1. w \in Nat /\ w < Modulus
    BY <1>2, <1>3
  <2>2. CASE w < h
    <3>1. Signed(w) = w /\ w \in 0 .. (Modulus - 1)
      BY <1>2, <1>3, <2>1, <2>2
    <3>2. wrap(w) = w
      BY <1>4, <2>1, <3>1
    <3>3. QED
      BY <1>2, <1>5, <2>1, <3>1, <3>2
  <2>3. CASE ~(w < h)
    <3>1. Signed(w) = w - Modulus /\ (w - Modulus) + Modulus = w /\ w \in 0 .. (Modulus - 1)
          /\ w - Modulus \in Int
      BY <1>2, <1>3, <2>1, <2>3
    <3>2. wrap(w - Modulus) = w
      BY <1>4, <3>1
    <3>3. w - Modulus \in -Modulus .. Modulus
      BY <1>2, <2>1
    <3>4. QED
      BY <1>5, <3>1, <3>2, <3>3
  <2>4. QED
    BY <2>2, <2>3
<1>7. ASSUME NEW n \in Int32
      PROVE  CellOf(n) \in Word /\ Signed(CellOf(n)) = n
  <2>1. n \in Int /\ -g <= n /\ n <= g - 1
    BY <1>1, <1>3
  <2>2. CASE n >= 0
    <3>1. n \in 0 .. (Modulus - 1) /\ n < h
      BY <1>1, <1>2, <2>1, <2>2
    <3>2. CellOf(n) = n
      BY <1>4, <1>5, <2>1, <3>1
    <3>3. QED
      BY <1>3, <3>1, <3>2
  <2>3. CASE ~(n >= 0)
    <3>1. n + Modulus \in 0 .. (Modulus - 1) /\ ~(n + Modulus < h) /\ (n + Modulus) - Modulus = n
      BY <1>1, <1>2, <2>1, <2>3
    <3>2. CellOf(n) = n + Modulus
      BY <1>4, <1>5, <2>1, <3>1
    <3>3. QED
      BY <1>3, <3>1, <3>2
  <2>4. QED
    BY <2>2, <2>3
<1>8. \A n \in Int : n % Modulus \in Word
  BY <1>2, <1>3, WrapsUp
<1>9. Word \subseteq Nat
  BY <1>2, <1>3
<1>10. QED
  BY <1>6, <1>7, <1>8, <1>9

\* What . prints is a numeral, and means the number.
LEMMA DecimalIs ==
    ASSUME NEW n \in -Modulus .. Modulus
    PROVE  /\ Decimal(n) \in Seq(Chars) /\ Len(Decimal(n)) >= 1
           /\ IsNumeric(Decimal(n))
           /\ Meaning(Decimal(n)) = n
<1> DEFINE m == IF n < 0 THEN -n ELSE n
           ds == Unsigned[m]
           s == Decimal(n)
<1>1. m \in 0 .. Modulus
  BY NumberAssumption
<1>2. ds \in Numerals /\ Len(ds) >= 1 /\ Read(ds)[Len(ds)] = m
  BY <1>1, UnsignedReadsBack
<1>3. Sum(ds)[Len(ds)] = m
  BY <1>2, ReadIsSum
<1>4. s = IF n < 0 THEN <<MINUS>> \o ds ELSE ds
  BY DEF Decimal
<1>5. /\ Digit \subseteq Nat /\ Digit \subseteq Chars /\ MINUS \in Chars
      /\ MINUS \in Nat /\ MINUS \notin Digit
  BY NumberAssumption DEF Digit, MINUS
<1> HIDE DEF ds, s
<1>6. /\ ds \in Seq(Digit) /\ ds \in Seq(Nat) /\ ds \in Seq(Chars) /\ Len(ds) \in Nat
      /\ \A k \in 1 .. Len(ds) : ds[k] \in Digit
  <2>1. ds \in Seq(Digit) /\ Len(ds) \in Nat
    BY <1>2 DEF Numerals
  <2>2. ds \in [1 .. Len(ds) -> Digit]
    BY <2>1
  <2>3. ds \in [1 .. Len(ds) -> Nat] /\ ds \in [1 .. Len(ds) -> Chars]
    BY <1>5, <2>2
  <2>4. QED
    BY <2>1, <2>2, <2>3
<1>7. ds[1] # MINUS /\ 1 \in 1 .. Len(ds)
  BY <1>2, <1>5, <1>6
<1>8. AreDigits(ds)
  BY <1>2, <1>6, DigitsAre
<1>9. CASE n < 0
  <2> DEFINE t == <<MINUS>> \o ds
  <2>1. /\ t \in Seq(Nat) /\ t \in Seq(Chars) /\ Len(t) = Len(ds) + 1 /\ t[1] = MINUS
        /\ Tail(t) = ds
    <3>1. <<MINUS>> \in Seq(Nat) /\ <<MINUS>> \in Seq(Chars) /\ Len(<<MINUS>>) = 1
      BY <1>5
    <3>2. /\ t \in Seq(Nat) /\ t \in Seq(Chars) /\ Len(t) = Len(ds) + 1 /\ t[1] = MINUS
      BY <1>6, <3>1, ConcatProperties
    <3>3. \A k \in 1 .. Len(ds) : t[k + 1] = ds[k]
      BY <1>6, <3>1
    <3>4. /\ Tail(t) \in Seq(Nat) /\ Len(Tail(t)) = Len(ds)
          /\ \A k \in 1 .. Len(ds) : Tail(t)[k] = ds[k]
      <4> HIDE DEF t
      <4>1. t # <<>> /\ Len(Tail(t)) = Len(t) - 1 /\ Tail(t) \in Seq(Nat)
        BY <1>6, <3>2
      <4>2. \A k \in 1 .. Len(ds) : Tail(t)[k] = t[k + 1]
        BY <1>6, <3>2, <4>1
      <4>3. QED
        BY <1>6, <3>2, <3>3, <4>1, <4>2
    <3>5. QED
      <4> HIDE DEF t
      <4>1. Tail(t) = ds
        BY <1>6, <3>4, SeqEqual
      <4>2. QED
        BY <3>2, <4>1
  <2>2. s = t
    BY <1>4, <1>9
  <2> HIDE DEF t
  <2>3. Digits(t) = ds
    BY <2>1 DEF Digits
  <2>4. Numeral(t)
    BY <1>8, <2>1 DEF Numeral
  <2>5. Len(t) >= 1
    BY <1>2, <1>6, <2>1
  <2>6. IsNumeric(t)
    BY <2>1, <2>4, <2>5, NumericIs
  <2>7. Meaning(t) = -m
    BY <1>3, <2>1, <2>3 DEF Meaning
  <2>8. -m = n
    BY <1>9
  <2>9. QED
    BY <2>1, <2>2, <2>5, <2>6, <2>7, <2>8 DEF s
<1>10. CASE ~(n < 0)
  <2>1. s = ds /\ m = n
    BY <1>4, <1>10
  <2>2. Digits(ds) = ds
    BY <1>7 DEF Digits
  <2>3. Numeral(ds)
    BY <1>8 DEF Numeral
  <2>4. IsNumeric(ds)
    BY <1>2, <1>6, <2>3, NumericIs
  <2>5. Meaning(ds) = m
    BY <1>3, <1>7, <2>2 DEF Meaning
  <2>6. QED
    BY <1>2, <1>6, <2>1, <2>4, <2>5 DEF s
<1>11. QED
  BY <1>9, <1>10

-----------------------------------------------------------------------------
(* The invariant. *)

\* The token is taken for a number, and the cell compiled is what atoi made of it.
Compiled == IsNumeric(token) /\ \E n \in atoi(token) : cell = CellOf(n)

NumberInv ==
    /\ token \in Seq(Chars) /\ cell \in Word
    /\ phase \in {"typing", "compiled", "computed", "rejected"}
    /\ shown # NotShown =>
          shown \in Word /\ phase # "computed" /\ token = Decimal(Signed(shown))
    /\ phase = "compiled" => Len(token) >= 1 /\ Compiled
    /\ phase = "rejected" => Len(token) >= 1 /\ ~IsNumeric(token)

\* Tokens are sequences of numbers; one that is not empty has a first character.
LEMMA TokenIs ==
    ASSUME token \in Seq(Chars)
    PROVE  token \in Seq(Nat) /\ (token # <<>> => Len(token) >= 1)
<1>1. token \in [1 .. Len(token) -> Chars] /\ Len(token) \in Nat
  OBVIOUS
<1>2. token \in [1 .. Len(token) -> Nat]
  BY <1>1, NumberAssumption
<1>3. QED
  BY <1>1, <1>2, EmptySeq

LEMMA InitNumbers == Init => NumberInv
<1> SUFFICES ASSUME Init PROVE NumberInv
  OBVIOUS
<1>1. 0 \in Word
  BY NumberAssumption DEF Word
<1>2. <<>> \in Seq(Chars)
  OBVIOUS
<1>3. QED
  BY <1>1, <1>2 DEF Init, NumberInv

\* What atoi makes of a numeral is an int.
LEMMA AtoiMakesInts ==
    ASSUME NEW s \in Seq(Nat), Len(s) >= 1, IsNumeric(s)
    PROVE  /\ atoi(s) \subseteq Int32
           /\ Meaning(s) \in Int32 => atoi(s) = {Meaning(s)}
<1>1. Digits(s) \in Numerals
  BY NumericIs
<1>2. QED
  BY <1>1, AtoiIs

LEMMA CompileKeepsInv ==
    ASSUME NumberInv, CompileNumber
    PROVE  NumberInv'
<1>1. token \in Seq(Chars) /\ token \in Seq(Nat) /\ Len(token) >= 1
  BY TokenIs DEF NumberInv, CompileNumber
<1>2. PICK n \in atoi(token) : cell' = CellOf(n)
  BY DEF CompileNumber
<1>3. IsNumeric(token)
  BY DEF CompileNumber
<1>4. cell' \in Word
  BY <1>1, <1>2, <1>3, AtoiMakesInts, CellKeepsInt
<1>5. Compiled'
  BY <1>2, <1>3 DEF Compiled, CompileNumber
<1>6. QED
  BY <1>1, <1>4, <1>5 DEF NumberInv, CompileNumber

LEMMA RejectKeepsInv ==
    ASSUME NumberInv, RejectUnknown
    PROVE  NumberInv'
<1>1. Len(token) >= 1
  BY TokenIs DEF NumberInv, RejectUnknown
<1>2. QED
  BY <1>1 DEF NumberInv, RejectUnknown

LEMMA DotKeepsInv ==
    ASSUME NumberInv, forth_dot_handler
    PROVE  NumberInv'
<1>1. Signed(cell) \in -Modulus .. Modulus
  BY CellKeepsInt DEF NumberInv
<1>2. Decimal(Signed(cell)) \in Seq(Chars)
  BY <1>1, DecimalIs
<1>3. QED
  BY <1>2 DEF NumberInv, forth_dot_handler

LEMMA SquareKeepsInv ==
    ASSUME NumberInv, Square
    PROVE  NumberInv'
<1>1. cell \in Nat
  BY CellKeepsInt DEF NumberInv
<1>2. cell * cell \in Int
  BY <1>1
<1>3. (cell * cell) % Modulus \in Word
  BY <1>2, CellKeepsInt
<1>4. QED
  BY <1>3 DEF NumberInv, Square

LEMMA TypeKeepsInv ==
    ASSUME NumberInv, NEW c \in Chars, Type(c)
    PROVE  NumberInv'
<1>1. Append(token, c) \in Seq(Chars)
  BY AppendProperties DEF NumberInv
<1>2. QED
  BY <1>1 DEF NumberInv, Type

LEMMA NextKeepsNumbers == NumberInv /\ [Next]_numberVars => NumberInv'
<1> SUFFICES ASSUME NumberInv, [Next]_numberVars PROVE NumberInv'
  OBVIOUS
<1>1. CASE \E c \in Chars : Type(c)
  BY <1>1, TypeKeepsInv
<1>2. CASE CompileNumber
  BY <1>2, CompileKeepsInv
<1>3. CASE RejectUnknown
  BY <1>3, RejectKeepsInv
<1>4. CASE forth_dot_handler
  BY <1>4, DotKeepsInv
<1>5. CASE Square
  BY <1>5, SquareKeepsInv
<1>6. CASE Answered \/ UNCHANGED numberVars
  BY <1>6 DEF Answered, numberVars, NumberInv, Compiled
<1>7. QED
  BY <1>1, <1>2, <1>3, <1>4, <1>5, <1>6 DEF Next

-----------------------------------------------------------------------------
(* The theorems. *)

LEMMA InvReads == NumberInv => ReadsNumerals
<1> SUFFICES ASSUME NumberInv PROVE ReadsNumerals
  OBVIOUS
<1>1. token \in Seq(Nat)
  BY TokenIs DEF NumberInv
<1>2. phase = "compiled" => Numeral(token)
  BY <1>1, NumericIs DEF NumberInv, Compiled
<1>3. phase = "rejected" => ~Numeral(token)
  BY <1>1, NumericIs DEF NumberInv
<1>4. ASSUME phase = "compiled", Meaning(token) \in Int32
      PROVE  Signed(cell) = Meaning(token)
  <2>1. Len(token) >= 1 /\ IsNumeric(token)
    BY <1>4 DEF NumberInv, Compiled
  <2>2. atoi(token) = {Meaning(token)}
    BY <1>1, <1>4, <2>1, AtoiMakesInts
  <2>3. cell = CellOf(Meaning(token))
    BY <1>4, <2>2 DEF NumberInv, Compiled
  <2>4. QED
    BY <1>4, <2>3, CellKeepsInt
<1>5. QED
  BY <1>2, <1>3, <1>4 DEF ReadsNumerals

LEMMA InvReadsBack == NumberInv => ReadsBackPrinted
<1> SUFFICES ASSUME NumberInv, shown # NotShown
             PROVE  /\ phase # "rejected"
                    /\ phase = "compiled" /\ Signed(shown) \in Int32 => cell = shown
  BY DEF ReadsBackPrinted
<1>1. shown \in Word /\ token = Decimal(Signed(shown)) /\ token \in Seq(Nat)
  BY TokenIs DEF NumberInv
<1>2. Signed(shown) \in -Modulus .. Modulus /\ CellOf(Signed(shown)) = shown
  BY <1>1, CellKeepsInt
<1>3. IsNumeric(token) /\ Meaning(token) = Signed(shown) /\ Len(token) >= 1
  BY <1>1, <1>2, DecimalIs
<1>4. phase # "rejected"
  BY <1>3 DEF NumberInv
<1>5. ASSUME phase = "compiled", Signed(shown) \in Int32
      PROVE  cell = shown
  <2>1. atoi(token) = {Signed(shown)}
    BY <1>1, <1>3, <1>5, AtoiMakesInts
  <2>2. cell = CellOf(Signed(shown))
    BY <1>5, <2>1 DEF NumberInv, Compiled
  <2>3. QED
    BY <1>2, <2>2
<1>6. QED
  BY <1>4, <1>5

\* A token is compiled as a number exactly if it is a decimal numeral, and as the
\* number it stands for whenever an int holds that one: to_numeric, atoi and the
\* casts of forth_compile, for every width of cells and ints.
THEOREM NumeralsRead == Spec => []ReadsNumerals
<1>1. Spec => []NumberInv
  BY InitNumbers, NextKeepsNumbers, PTL DEF Spec
<1>2. QED
  BY <1>1, InvReads, PTL

\* What . prints of a cell is never unknown to the compiler, and is compiled to the
\* same cell if an int holds the number, for every width of cells and ints.
THEOREM PrintedReadsBack == Spec => []ReadsBackPrinted
<1>1. Spec => []NumberInv
  BY InitNumbers, NextKeepsNumbers, PTL DEF Spec
<1>2. QED
  BY <1>1, InvReadsBack, PTL
=============================================================================
