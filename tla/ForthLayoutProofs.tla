-------------------------- MODULE ForthLayoutProofs --------------------------
(***************************************************************************)
(* For every size of a cell, of the RAM and of names: the words of the     *)
(* dictionary lie one behind the other, each leads to the one before it,   *)
(* and what was written of them is never written again.                    *)
(*                                                                         *)
(* First what the operators of ForthLayout compute.  An aligned address is *)
(* the next multiple of a cell; a cell is read back as it was stored, and  *)
(* depends on its own bytes only; a header is read back as                 *)
(* forth_dict_add_header wrote it.  Then the invariant, step by step.      *)
(*                                                                         *)
(* Last what is read from the bytes.  The links lead through the words     *)
(* from the newest to the oldest; so a search finds the newest word with a *)
(* name, the words are the list of ForthWordList, which only grows at its  *)
(* head, and control that follows a word's code meets what was compiled.   *)
(***************************************************************************)
EXTENDS ForthLayout, SequenceTheorems, Iteration

-----------------------------------------------------------------------------
(* Alignment. *)

\* align_for moves up by less than a cell, to a multiple of a cell.
LEMMA AlignedIs ==
    ASSUME NEW a \in Nat
    PROVE  /\ Aligned(a) \in Nat /\ a <= Aligned(a) /\ Aligned(a) < a + CELL
           /\ Aligned(a) % CELL = 0
<1>1. CELL \in Nat \ {0}
  BY CellAssumption
<1> DEFINE q == (a + CELL - 1) \div CELL
<1>2. q \in Nat
  BY <1>1
<1>3. CELL * q <= a + CELL - 1 /\ a + CELL - 1 < CELL * q + CELL
  BY <1>1
<1>4. (CELL * q) % CELL = 0
  BY <1>1, <1>2
<1> HIDE DEF q
<1>5. Aligned(a) = CELL * q
  BY DEF Aligned, q
<1>6. CELL * q \in Nat
  BY <1>1, <1>2
<1>7. QED
  BY <1>1, <1>3, <1>4, <1>5, <1>6

\* A multiple of a cell and one cell more is a multiple of a cell.
LEMMA NextMultiple ==
    ASSUME NEW a \in Nat, a % CELL = 0
    PROVE  (a + CELL) % CELL = 0
<1>1. CELL \in Nat \ {0}
  BY CellAssumption
<1>2. PICK q \in Nat : a = CELL * q
  BY <1>1
<1>3. a + CELL = CELL * (q + 1)
  BY <1>1, <1>2
<1>4. (CELL * (q + 1)) % CELL = 0
  BY <1>1
<1>5. QED
  BY <1>3, <1>4

-----------------------------------------------------------------------------
(* The bytes of a number. *)

\* What Shifted computes, byte by byte.
LEMMA ShiftedIs ==
    ASSUME NEW w \in Nat
    PROVE  /\ Shifted(w) \in [0 .. CELL -> Nat]
           /\ Shifted(w)[0] = w
           /\ \A k \in 1 .. CELL : Shifted(w)[k] = Shifted(w)[k - 1] \div 256
<1>1. CELL \in Nat
  BY CellAssumption
<1> DEFINE Def(f) == [k \in 0 .. CELL |-> IF k = 0 THEN w ELSE f[k - 1] \div 256]
           F == [k \in 1 .. CELL |-> [v \in Nat |-> v \div 256]]
<1>2. Steps(CELL, Nat, w, F)
  BY <1>1 DEF Steps
<1>3. PICK f : Records(CELL, Nat, w, F, f)
  BY <1>2, Iterates
<1>4. f = Def(f)
  <2>1. \A k \in 1 .. CELL : k - 1 \in 0 .. CELL /\ f[k - 1] \in Nat
    BY <1>1, <1>3 DEF Records
  <2>2. \A k \in 1 .. CELL : f[k] = f[k - 1] \div 256
    BY <1>3, <2>1 DEF Records
  <2>3. QED
    BY <1>1, <1>3, <2>2 DEF Records
<1> DEFINE g == CHOOSE h : h = Def(h)
<1>5. g = Def(g)
  BY <1>4
<1>6. Shifted(w) = g
  BY DEF Shifted
<1> HIDE DEF g
<1>7. g[0] = w /\ \A k \in 1 .. CELL : g[k] = g[k - 1] \div 256
  <2>1. \A k \in 0 .. CELL : g[k] = IF k = 0 THEN w ELSE g[k - 1] \div 256
    BY <1>5
  <2>2. QED
    BY <1>1, <2>1
<1>8. \A k \in 0 .. CELL : k \in {n \in 0 .. CELL : g[n] \in Nat}
  <2> DEFINE S == {n \in 0 .. CELL : g[n] \in Nat}
  <2>1. 0 \in S
    BY <1>1, <1>7
  <2>2. ASSUME NEW n \in 0 .. (CELL - 1), n \in S
        PROVE  n + 1 \in S
    <3>1. n + 1 \in 1 .. CELL /\ (n + 1) - 1 = n
      BY <1>1
    <3>2. g[n + 1] = g[n] \div 256
      BY <1>7, <3>1
    <3>3. QED
      BY <2>2, <3>1, <3>2
  <2> HIDE DEF S
  <2>3. \A k \in 0 .. CELL : k \in S
    BY <1>1, <2>1, <2>2, IntervalInduction
  <2>4. QED
    BY <2>3 DEF S
<1>9. g \in [0 .. CELL -> Nat]
  BY <1>5, <1>8
<1>10. QED
  BY <1>6, <1>7, <1>9

\* A smaller number has smaller digits to its left, so that it fits too.
LEMMA SmallerFits ==
    ASSUME NEW w, FitsCell(w), NEW v \in 0 .. w
    PROVE  FitsCell(v)
<1> DEFINE p == Shifted(v)
           q == Shifted(w)
           S == {k \in 0 .. CELL : p[k] <= q[k]}
<1>1. CELL \in Nat /\ w \in Nat /\ v \in Nat /\ v <= w /\ q[CELL] = 0
  BY CellAssumption DEF FitsCell
<1>2. p \in [0 .. CELL -> Nat] /\ p[0] = v /\ \A k \in 1 .. CELL : p[k] = p[k - 1] \div 256
  <2>1. v \in Nat
    BY <1>1
  <2>2. QED
    BY <2>1, ShiftedIs
<1>3. q \in [0 .. CELL -> Nat] /\ q[0] = w /\ \A k \in 1 .. CELL : q[k] = q[k - 1] \div 256
  <2>1. w \in Nat
    BY <1>1
  <2>2. QED
    BY <2>1, ShiftedIs
<1> HIDE DEF p, q
<1>4. 0 \in S
  BY <1>1, <1>2, <1>3
<1>5. ASSUME NEW n \in 0 .. (CELL - 1), n \in S
      PROVE  n + 1 \in S
  <2>1. n + 1 \in 1 .. CELL /\ n + 1 \in 0 .. CELL /\ (n + 1) - 1 = n /\ n \in 0 .. CELL
    BY <1>1
  <2>2. p[n] \in Nat /\ q[n] \in Nat /\ p[n] <= q[n]
    BY <1>2, <1>3, <1>5, <2>1
  <2>3. p[n + 1] = p[n] \div 256 /\ q[n + 1] = q[n] \div 256
    BY <1>2, <1>3, <2>1
  <2>4. \A x, y \in Nat : x <= y => x \div 256 <= y \div 256
    OBVIOUS
  <2>5. QED
    BY <2>1, <2>2, <2>3, <2>4
<1> HIDE DEF S
<1>6. CELL \in S
  BY <1>1, <1>4, <1>5, IntervalInduction
<1>7. p[CELL] <= 0 /\ p[CELL] \in Nat
  BY <1>1, <1>2, <1>6 DEF S
<1>8. QED
  BY <1>1, <1>7 DEF FitsCell, p

\* An address fits in a cell.
LEMMA AddressFits ==
    ASSUME NEW a \in 0 .. RamEnd
    PROVE  FitsCell(a)
  BY CellAssumption, SmallerFits

-----------------------------------------------------------------------------
(* Cells. *)

\* f adds up the bytes of the cell at a, from the highest down.
Adds(b, a, f) ==
    /\ f \in [0 .. CELL -> Nat]
    /\ f[CELL] = 0
    /\ \A k \in 0 .. (CELL - 1) : f[k] = b[a + k] + 256 * f[k + 1]

\* There is one sum.
LEMMA CellIs ==
    ASSUME NEW b, NEW a, NEW f, Adds(b, a, f)
    PROVE  Cell(b, a) = f[0]
<1>1. CELL \in Nat
  BY CellAssumption
<1> DEFINE Def(h) == [k \in 0 .. CELL |-> IF k = CELL THEN 0 ELSE b[a + k] + 256 * h[k + 1]]
           g == CHOOSE h : h = Def(h)
<1>2. f = Def(f)
  BY <1>1 DEF Adds
<1>3. g = Def(g)
  BY <1>2
<1>4. Cell(b, a) = g[0]
  BY DEF Cell
<1> HIDE DEF g
<1> DEFINE S == {j \in 0 .. CELL : g[CELL - j] = f[CELL - j]}
<1>5. 0 \in S
  <2>1. g[CELL] = 0
    BY <1>1, <1>3
  <2>2. QED
    BY <1>1, <2>1 DEF Adds
<1>6. ASSUME NEW j \in 0 .. (CELL - 1), j \in S
      PROVE  j + 1 \in S
  <2> DEFINE k == CELL - (j + 1)
  <2>1. k \in 0 .. (CELL - 1) /\ k + 1 = CELL - j /\ j + 1 \in 0 .. CELL
    BY <1>1
  <2>2. g[k] = b[a + k] + 256 * g[k + 1]
    BY <1>1, <1>3, <2>1
  <2>3. f[k] = b[a + k] + 256 * f[k + 1]
    BY <2>1 DEF Adds
  <2>4. QED
    BY <1>6, <2>1, <2>2, <2>3
<1> HIDE DEF S
<1>7. CELL \in S
  BY <1>1, <1>5, <1>6, IntervalInduction
<1>8. QED
  BY <1>1, <1>4, <1>7 DEF S

\* Numbers can be added up.
LEMMA CellAdds ==
    ASSUME NEW b, NEW a, \A k \in 0 .. (CELL - 1) : b[a + k] \in Nat
    PROVE  \E f : Adds(b, a, f)
<1>1. CELL \in Nat
  BY CellAssumption
<1> DEFINE F == [j \in 1 .. CELL |-> [v \in Nat |-> b[a + (CELL - j)] + 256 * v]]
<1>2. Steps(CELL, Nat, 0, F)
  <2>1. \A j \in 1 .. CELL : CELL - j \in 0 .. (CELL - 1)
    BY <1>1
  <2>2. \A j \in 1 .. CELL : b[a + (CELL - j)] \in Nat
    BY <2>1
  <2>3. \A j \in 1 .. CELL : [v \in Nat |-> b[a + (CELL - j)] + 256 * v] \in [Nat -> Nat]
    BY <2>2
  <2>4. QED
    BY <1>1, <2>3 DEF Steps
<1>3. PICK h : Records(CELL, Nat, 0, F, h)
  BY <1>2, Iterates
<1>4. h \in [0 .. CELL -> Nat] /\ h[0] = 0 /\ \A j \in 1 .. CELL : h[j] = F[j][h[j - 1]]
  BY <1>3 DEF Records
<1> DEFINE f == [k \in 0 .. CELL |-> h[CELL - k]]
<1>5. f \in [0 .. CELL -> Nat] /\ f[CELL] = 0
  <2>1. \A k \in 0 .. CELL : CELL - k \in 0 .. CELL
    BY <1>1
  <2>2. CELL - CELL = 0 /\ CELL \in 0 .. CELL
    BY <1>1
  <2>3. QED
    BY <1>4, <2>1, <2>2
<1>6. ASSUME NEW k \in 0 .. (CELL - 1)
      PROVE  f[k] = b[a + k] + 256 * f[k + 1]
  <2> DEFINE j == CELL - k
  <2>1. j \in 1 .. CELL /\ CELL - j = k /\ j - 1 = CELL - (k + 1) /\ j - 1 \in 0 .. CELL
    BY <1>1
  <2>2. h[j] = F[j][h[j - 1]] /\ h[j - 1] \in Nat
    BY <1>4, <2>1
  <2>3. h[j] = b[a + k] + 256 * h[j - 1]
    BY <2>1, <2>2
  <2>4. k \in 0 .. CELL /\ k + 1 \in 0 .. CELL
    BY <1>1
  <2>5. QED
    BY <2>1, <2>3, <2>4
<1>7. Adds(b, a, f)
  BY <1>5, <1>6 DEF Adds
<1>8. QED
  BY <1>7

\* A cell is a number, and depends on its own bytes only.
LEMMA CellAgrees ==
    ASSUME NEW b, NEW c, NEW a,
           \A k \in 0 .. (CELL - 1) : b[a + k] \in Nat /\ c[a + k] = b[a + k]
    PROVE  Cell(b, a) \in Nat /\ Cell(c, a) = Cell(b, a)
<1>1. PICK f : Adds(b, a, f)
  BY CellAdds
<1>2. Adds(c, a, f)
  BY <1>1 DEF Adds
<1>3. f[0] \in Nat
  BY <1>1, CellAssumption DEF Adds
<1>4. QED
  BY <1>1, <1>2, <1>3, CellIs

\* The bytes of a number add up to it.
LEMMA CellReadsBack ==
    ASSUME NEW b, NEW a, NEW w, FitsCell(w),
           \A k \in 0 .. (CELL - 1) : b[a + k] = Shifted(w)[k] % 256
    PROVE  Cell(b, a) = w
<1> DEFINE f == Shifted(w)
<1>1. CELL \in Nat /\ w \in Nat
  BY CellAssumption DEF FitsCell
<1>2. f \in [0 .. CELL -> Nat] /\ f[0] = w /\ \A k \in 1 .. CELL : f[k] = f[k - 1] \div 256
  BY <1>1, ShiftedIs
<1>3. f[CELL] = 0
  BY DEF FitsCell
<1> HIDE DEF f
<1>4. ASSUME NEW k \in 0 .. (CELL - 1)
      PROVE  f[k] = b[a + k] + 256 * f[k + 1]
  <2>1. k + 1 \in 1 .. CELL /\ (k + 1) - 1 = k /\ k \in 0 .. CELL
    BY <1>1
  <2>2. f[k] \in Nat /\ f[k + 1] = f[k] \div 256
    BY <1>2, <2>1
  <2>3. b[a + k] = f[k] % 256
    BY DEF f
  <2>4. \A v \in Nat : v = (v % 256) + 256 * (v \div 256)
    OBVIOUS
  <2>5. QED
    BY <2>2, <2>3, <2>4
<1>5. Adds(b, a, f)
  BY <1>2, <1>3, <1>4 DEF Adds
<1>6. QED
  BY <1>2, <1>5, CellIs

-----------------------------------------------------------------------------
(* Writing to memory. *)

Memory == [Ram -> 0 .. 255]

\* Where the cells of a stretch lie, and which byte of which cell is where.
LEMMA CellPlaces ==
    ASSUME NEW n \in Nat, NEW a \in Nat
    PROVE  /\ \A x \in a .. (a + CELL * n - 1) :
                 /\ 1 + ((x - a) \div CELL) \in 1 .. n
                 /\ (x - a) % CELL \in 0 .. (CELL - 1)
           /\ \A j \in 1 .. n, k \in 0 .. (CELL - 1) :
                 LET x == a + CELL * (j - 1) + k
                 IN  /\ x \in a .. (a + CELL * n - 1)
                     /\ 1 + ((x - a) \div CELL) = j /\ (x - a) % CELL = k
<1>1. CELL \in Nat \ {0}
  BY CellAssumption
<1>2. ASSUME NEW x \in a .. (a + CELL * n - 1)
      PROVE  1 + ((x - a) \div CELL) \in 1 .. n /\ (x - a) % CELL \in 0 .. (CELL - 1)
  <2> DEFINE q == (x - a) \div CELL
  <2>1. q \in Nat /\ CELL * q <= x - a /\ x - a < CELL * n
    BY <1>1
  <2>2. (x - a) % CELL \in 0 .. (CELL - 1)
    BY <1>1
  <2> HIDE DEF q
  <2>3. q < n
    <3>1. q >= n => CELL * q >= CELL * n
      BY <1>1, <2>1
    <3>2. CELL * q \in Nat /\ CELL * n \in Nat
      BY <1>1, <2>1
    <3>3. QED
      BY <2>1, <3>1, <3>2
  <2>4. 1 + q \in 1 .. n
    BY <2>1, <2>3
  <2>5. QED
    BY <2>2, <2>4 DEF q
<1>3. ASSUME NEW j \in 1 .. n, NEW k \in 0 .. (CELL - 1)
      PROVE  LET x == a + CELL * (j - 1) + k
             IN  /\ x \in a .. (a + CELL * n - 1)
                 /\ 1 + ((x - a) \div CELL) = j /\ (x - a) % CELL = k
  <2>1. PICK m \in Nat : m = j - 1 /\ m < n
    OBVIOUS
  <2>2. CELL * m \in Nat /\ CELL * m + CELL <= CELL * n /\ CELL * n \in Nat
    <3>1. CELL * (m + 1) <= CELL * n
      BY <1>1, <2>1
    <3>2. CELL * (m + 1) = CELL * m + CELL
      BY <1>1
    <3>3. QED
      BY <1>1, <3>1, <3>2
  <2>3. (CELL * m + k) \div CELL = m /\ (CELL * m + k) % CELL = k
    BY <1>1
  <2>4. (a + CELL * m + k) - a = CELL * m + k
    BY <2>2
  <2>5. a + CELL * m + k \in a .. (a + CELL * n - 1)
    BY <1>1, <2>2
  <2>6. QED
    BY <2>1, <2>3, <2>4, <2>5
<1>4. QED
  BY <1>2, <1>3

\* The cells ws can be stored at a.
Storable(a, ws) ==
    /\ a \in Nat /\ ws \in Seq(Nat)
    /\ \A j \in 1 .. Len(ws) : FitsCell(ws[j])
    /\ a .. (a + CELL * Len(ws) - 1) \subseteq Ram

\* Cells stored in memory are read back, and nothing else is written.
LEMMA StoredIs ==
    ASSUME NEW b \in Memory, NEW a, NEW ws, Storable(a, ws)
    PROVE  /\ Stored(b, a, ws) \in Memory
           /\ \A x \in Ram : x \notin a .. (a + CELL * Len(ws) - 1) => Stored(b, a, ws)[x] = b[x]
           /\ \A j \in 1 .. Len(ws) : Cell(Stored(b, a, ws), a + CELL * (j - 1)) = ws[j]
<1> USE DEF Storable
<1> DEFINE n == Len(ws)
           c == Stored(b, a, ws)
<1>1. n \in Nat /\ CELL \in Nat \ {0}
  BY CellAssumption
<1>2. DOMAIN b = Ram
  BY DEF Memory
<1>3. \A x \in Ram : c[x] = IF x \in a .. (a + CELL * n - 1)
                           THEN Shifted(ws[1 + ((x - a) \div CELL)])[(x - a) % CELL] % 256
                           ELSE b[x]
  BY <1>2 DEF Stored
<1>4. c = [x \in Ram |-> c[x]]
  BY <1>2 DEF Stored
<1> HIDE DEF c, n
<1>5. ASSUME NEW x \in a .. (a + CELL * n - 1)
      PROVE  c[x] \in 0 .. 255
  <2> DEFINE j == 1 + ((x - a) \div CELL)
             k == (x - a) % CELL
  <2>1. j \in 1 .. n /\ k \in 0 .. CELL
    BY <1>1, CellPlaces
  <2>2. ws[j] \in Nat
    BY <2>1 DEF n
  <2>3. x \in Ram
    BY DEF n
  <2>4. c[x] = Shifted(ws[j])[k] % 256
    BY <1>3, <2>3
  <2> HIDE DEF j, k
  <2>5. Shifted(ws[j])[k] \in Nat
    BY <2>1, <2>2, ShiftedIs
  <2>6. \A v \in Nat : v % 256 \in 0 .. 255
    OBVIOUS
  <2>7. QED
    BY <2>4, <2>5, <2>6
<1>6. c \in Memory
  <2>1. \A x \in Ram : b[x] \in 0 .. 255
    BY DEF Memory
  <2>2. \A x \in Ram : c[x] \in 0 .. 255
    BY <1>3, <1>5, <2>1
  <2>3. QED
    BY <1>4, <2>2 DEF Memory
<1>7. ASSUME NEW j \in 1 .. n
      PROVE  Cell(c, a + CELL * (j - 1)) = ws[j]
  <2> DEFINE p == a + CELL * (j - 1)
  <2>1. ASSUME NEW k \in 0 .. (CELL - 1)
        PROVE  c[p + k] = Shifted(ws[j])[k] % 256
    <3> DEFINE x == p + k
    <3>1. x \in a .. (a + CELL * n - 1) /\ 1 + ((x - a) \div CELL) = j /\ (x - a) % CELL = k
      BY <1>1, CellPlaces
    <3>2. x \in Ram
      BY <3>1 DEF n
    <3> HIDE DEF x
    <3>3. c[x] = Shifted(ws[j])[k] % 256
      BY <1>3, <3>1, <3>2
    <3>4. QED
      BY <3>3 DEF x
  <2>2. FitsCell(ws[j])
    BY DEF n
  <2> HIDE DEF p
  <2>3. Cell(c, p) = ws[j]
    BY <2>1, <2>2, CellReadsBack
  <2>4. QED
    BY <2>3 DEF p
<1>8. QED
  BY <1>3, <1>6, <1>7 DEF c, n

\* The same for one cell.
LEMMA OneStored ==
    ASSUME NEW b \in Memory, NEW a \in Nat, NEW w, FitsCell(w),
           a .. (a + CELL - 1) \subseteq Ram
    PROVE  /\ Stored(b, a, <<w>>) \in Memory
           /\ \A x \in Ram : x \notin a .. (a + CELL - 1) => Stored(b, a, <<w>>)[x] = b[x]
           /\ Cell(Stored(b, a, <<w>>), a) = w
<1> DEFINE ws == <<w>>
<1>1. CELL \in Nat /\ w \in Nat
  BY CellAssumption DEF FitsCell
<1>2. ws \in Seq(Nat) /\ Len(ws) = 1 /\ ws[1] = w
  BY <1>1
<1> HIDE DEF ws
<1>3. CELL * Len(ws) = CELL /\ a + CELL * (1 - 1) = a /\ 1 \in 1 .. Len(ws)
  BY <1>1, <1>2
<1>4. \A j \in 1 .. Len(ws) : FitsCell(ws[j])
  BY <1>2
<1>5. a .. (a + CELL * Len(ws) - 1) = a .. (a + CELL - 1)
  BY <1>3
<1>6. a .. (a + CELL * Len(ws) - 1) \subseteq Ram
  BY <1>5
<1>7. Storable(a, ws)
  BY <1>2, <1>4, <1>6 DEF Storable
<1>8. /\ Stored(b, a, ws) \in Memory
      /\ \A x \in Ram : x \notin a .. (a + CELL * Len(ws) - 1) => Stored(b, a, ws)[x] = b[x]
      /\ \A j \in 1 .. Len(ws) : Cell(Stored(b, a, ws), a + CELL * (j - 1)) = ws[j]
  BY <1>7, StoredIs
<1>9. Cell(Stored(b, a, ws), a) = w
  BY <1>2, <1>3, <1>8
<1>10. QED
  BY <1>5, <1>8, <1>9 DEF ws

\* A string copied to memory stands there, and nothing else is written.
LEMMA CopiedIs ==
    ASSUME NEW b \in Memory, NEW a \in Nat, NEW s \in Seq(0 .. 255)
    PROVE  /\ Copied(b, a, s) \in Memory
           /\ \A x \in Ram : x \notin a .. (a + Len(s) - 1) => Copied(b, a, s)[x] = b[x]
           /\ \A k \in 1 .. Len(s) : a + k - 1 \in Ram => Copied(b, a, s)[a + k - 1] = s[k]
<1> DEFINE c == Copied(b, a, s)
<1>1. \A x \in a .. (a + Len(s) - 1) : x - a + 1 \in 1 .. Len(s)
  OBVIOUS
<1>2. \A x \in a .. (a + Len(s) - 1) : s[x - a + 1] \in 0 .. 255
  <2>1. \A k \in 1 .. Len(s) : s[k] \in 0 .. 255
    BY ElementOfSeq
  <2>2. QED
    BY <1>1, <2>1
<1>3. DOMAIN b = Ram /\ \A x \in Ram : b[x] \in 0 .. 255
  BY DEF Memory
<1>4. c = [x \in Ram |-> IF x \in a .. (a + Len(s) - 1) THEN s[x - a + 1] ELSE b[x]]
  BY <1>3 DEF Copied
<1> HIDE DEF c
<1>5. c \in Memory
  BY <1>2, <1>3, <1>4 DEF Memory
<1>6. \A k \in 1 .. Len(s) : a + k - 1 \in a .. (a + Len(s) - 1) /\ (a + k - 1) - a + 1 = k
  OBVIOUS
<1>7. \A k \in 1 .. Len(s) : a + k - 1 \in Ram => c[a + k - 1] = s[k]
  BY <1>4, <1>6
<1>8. \A x \in Ram : x \notin a .. (a + Len(s) - 1) => c[x] = b[x]
  BY <1>4
<1>9. QED
  BY <1>5, <1>7, <1>8 DEF c

-----------------------------------------------------------------------------
(* Places. *)

\* The link is a cell of its own, behind the name and its NUL.
LEMMA LinkPlaceIs ==
    ASSUME NEW h \in Nat, NEW name, Len(name) \in Nat
    PROVE  /\ LinkPlace(h, name) \in Nat
           /\ h + Len(name) + 2 <= LinkPlace(h, name)
           /\ LinkPlace(h, name) < h + Len(name) + 2 + CELL
           /\ LinkPlace(h, name) % CELL = 0
<1>1. h + 1 + Len(name) + 1 \in Nat
  OBVIOUS
<1>2. QED
  BY <1>1, AlignedIs, CellAssumption DEF LinkPlace

\* What is compared of a name is its beginning.
LEMMA ComparedIs ==
    ASSUME NEW name \in Seq(1 .. 255)
    PROVE  /\ Compared(name) \in Seq(1 .. 255)
           /\ Len(Compared(name)) = IF Len(name) < NameCap THEN Len(name) ELSE NameCap
           /\ \A k \in 1 .. Len(Compared(name)) : Compared(name)[k] = name[k]
<1> DEFINE n == IF Len(name) < NameCap THEN Len(name) ELSE NameCap
           c == Compared(name)
<1>1. n \in 0 .. Len(name) /\ NameCap \in Nat
  BY NameAssumption
<1>2. c = [k \in 1 .. n |-> name[k]]
  BY <1>1 DEF Compared
<1>3. \A k \in 1 .. n : name[k] \in 1 .. 255
  BY <1>1, ElementOfSeq
<1> HIDE DEF c, n
<1>4. n \in Nat
  BY <1>1
<1>5. c \in Seq(1 .. 255) /\ Len(c) = n
  BY <1>2, <1>3, <1>4, IsASeq
<1>6. QED
  BY <1>2, <1>5 DEF c, n

\* The names of the system are kept whole.
LEMMA SystemNames ==
    /\ FORTH \in Seq(1 .. 255) /\ Len(FORTH) = 5 /\ Compared(FORTH) = FORTH
    /\ HERE \in Seq(1 .. 255) /\ Len(HERE) = 4 /\ Compared(HERE) = HERE
<1>1. FORTH \in Seq(1 .. 255) /\ Len(FORTH) = 5
  BY DEF FORTH
<1>2. HERE \in Seq(1 .. 255) /\ Len(HERE) = 4
  BY DEF HERE
<1>3. NameCap \in Nat /\ NameCap >= 5
  BY <1>1, NameAssumption
<1>4. Compared(FORTH) = SubSeq(FORTH, 1, 5)
  BY <1>1, <1>3 DEF Compared
<1>5. Compared(HERE) = SubSeq(HERE, 1, 4)
  BY <1>2, <1>3 DEF Compared
<1>6. SubSeq(FORTH, 1, 5) = FORTH
  BY <1>1, SubSeqFull
<1>7. SubSeq(HERE, 1, 4) = HERE
  BY <1>2, SubSeqFull
<1>8. QED
  BY <1>1, <1>2, <1>4, <1>5, <1>6, <1>7

\* The two words of the system, in order, with their contents behind them.
LEMMA SystemPlaces ==
    /\ DictBase \in Nat \ {0} /\ RamEnd \in Nat /\ CELL \in Nat \ {0}
    /\ FirstHeader = DictBase
    /\ FirstText \in Nat /\ FirstText = LinkPlace(FirstHeader, FORTH) + CELL
    /\ FirstHeader + 7 + CELL <= FirstText
    /\ SecondHeader = FirstText + CELL /\ SecondHeader \in Nat
    /\ DictBase < FirstText /\ SecondHeader < SecondText
    /\ SecondText \in Nat /\ SecondText = LinkPlace(SecondHeader, HERE) + CELL
    /\ SecondHeader + 6 + CELL <= SecondText
    /\ SecondText + CELL <= RamEnd
    /\ SecondText % CELL = 0
<1>1. DictBase \in Nat \ {0} /\ RamEnd \in Nat /\ CELL \in Nat \ {0} /\ SecondText + CELL <= RamEnd
  BY RamAssumption, CellAssumption
<1>2. Len(FORTH) = 5 /\ Len(HERE) = 4 /\ FirstHeader \in Nat /\ FirstHeader = DictBase
  BY <1>1, SystemNames DEF FirstHeader
<1>3. LinkPlace(FirstHeader, FORTH) \in Nat /\ FirstHeader + 7 <= LinkPlace(FirstHeader, FORTH)
  <2>1. Len(FORTH) \in Nat
    BY <1>2
  <2>2. /\ LinkPlace(FirstHeader, FORTH) \in Nat
        /\ FirstHeader + Len(FORTH) + 2 <= LinkPlace(FirstHeader, FORTH)
    BY <1>2, <2>1, LinkPlaceIs
  <2>3. QED
    BY <1>2, <2>2
<1>4. FirstText \in Nat /\ FirstText = LinkPlace(FirstHeader, FORTH) + CELL
  BY <1>1, <1>3 DEF FirstText
<1>5. SecondHeader \in Nat /\ SecondHeader = FirstText + CELL
  BY <1>1, <1>4 DEF SecondHeader
<1>6. /\ LinkPlace(SecondHeader, HERE) \in Nat /\ SecondHeader + 6 <= LinkPlace(SecondHeader, HERE)
      /\ LinkPlace(SecondHeader, HERE) % CELL = 0
  <2>1. Len(HERE) \in Nat
    BY <1>2
  <2>2. /\ LinkPlace(SecondHeader, HERE) \in Nat
        /\ SecondHeader + Len(HERE) + 2 <= LinkPlace(SecondHeader, HERE)
        /\ LinkPlace(SecondHeader, HERE) % CELL = 0
    BY <1>5, <2>1, LinkPlaceIs
  <2>3. QED
    BY <1>2, <1>5, <2>2
<1>7. SecondText \in Nat /\ SecondText = LinkPlace(SecondHeader, HERE) + CELL
  BY <1>1, <1>6 DEF SecondText
<1>8. SecondText % CELL = 0
  BY <1>6, <1>7, NextMultiple
<1>9. QED
  BY <1>1, <1>2, <1>3, <1>4, <1>5, <1>6, <1>7, <1>8

-----------------------------------------------------------------------------
(* A header in memory. *)

\* What the name of the word d is in memory, and where d's contents begin.
Short(d) == Compared(d.name)
LinkOf(d) == LinkPlace(d.at, Short(d))
TextPlace(d) == LinkOf(d) + CELL

Kinds == {TEXT, VAR, CONST}

\* A word whose header fits into the RAM, and can be found again.
IsWord(d) ==
    /\ d.at \in Ram /\ d.kind \in Kinds
    /\ d.name \in Seq(1 .. 255)
    /\ TextPlace(d) <= RamEnd

\* The header of d is in memory b, and leads to l.
Laid(b, d, l) ==
    /\ b[d.at] \in {d.kind, d.kind + IMMEDIATE}
    /\ \A k \in 1 .. Len(Short(d)) : b[d.at + k] = Short(d)[k]
    /\ b[d.at + Len(Short(d)) + 1] = 0
    /\ Cell(b, LinkOf(d)) = l

\* The cells of a header, in order.
LEMMA WordPlaces ==
    ASSUME NEW d, IsWord(d)
    PROVE  /\ d.at \in Nat /\ DictBase <= d.at
           /\ Short(d) \in Seq(1 .. 255) /\ Len(Short(d)) \in Nat
           /\ LinkOf(d) \in Nat /\ d.at + Len(Short(d)) + 2 <= LinkOf(d)
           /\ TextPlace(d) \in Nat /\ TextPlace(d) = LinkOf(d) + CELL /\ TextPlace(d) <= RamEnd
           /\ TextPlace(d) % CELL = 0
<1>1. d.at \in Nat /\ DictBase <= d.at
  BY RamAssumption DEF IsWord, Ram
<1>2. Short(d) \in Seq(1 .. 255) /\ Len(Short(d)) \in Nat
  BY ComparedIs DEF IsWord, Short
<1>3. LinkOf(d) \in Nat /\ d.at + Len(Short(d)) + 2 <= LinkOf(d) /\ LinkOf(d) % CELL = 0
  BY <1>1, <1>2, LinkPlaceIs DEF LinkOf
<1>4. TextPlace(d) % CELL = 0
  BY <1>3, NextMultiple DEF TextPlace
<1>5. CELL \in Nat /\ TextPlace(d) = LinkOf(d) + CELL /\ TextPlace(d) <= RamEnd
  BY CellAssumption DEF TextPlace, IsWord
<1>6. QED
  BY <1>1, <1>2, <1>3, <1>4, <1>5

\* The name and the link of a header are read back.
LEMMA HeaderReadsBack ==
    ASSUME NEW b \in Memory, NEW d, NEW l, IsWord(d), Laid(b, d, l)
    PROVE  /\ NameAt(b, d.at) = Short(d)
           /\ LinkAt(b, d.at) = LinkOf(d)
           /\ TextAt(b, d.at) = TextPlace(d)
           /\ Link(b, d.at) = l
<1> DEFINE h == d.at
           n == Len(Short(d))
           e == h + n + 1
<1>1. h \in Nat /\ n \in Nat /\ e \in (h + 1) .. RamEnd /\ RamEnd \in Nat
  <2>1. /\ h \in Nat /\ n \in Nat /\ LinkOf(d) \in Nat /\ h + n + 2 <= LinkOf(d)
        /\ TextPlace(d) = LinkOf(d) + CELL /\ TextPlace(d) <= RamEnd
    BY WordPlaces
  <2>2. CELL \in Nat \ {0} /\ RamEnd \in Nat
    BY SystemPlaces
  <2> HIDE DEF n, h
  <2>3. QED
    BY <2>1, <2>2
<1>2. b[e] = 0
  BY DEF Laid
<1>3. \A x \in (h + 1) .. (e - 1) : b[x] # 0
  <2>1. ASSUME NEW x \in (h + 1) .. (e - 1)
        PROVE  b[x] # 0
    <3> DEFINE k == x - h
    <3>1. k \in 1 .. n /\ x = h + k
      BY <1>1
    <3> HIDE DEF k
    <3>2. b[h + k] = Short(d)[k]
      BY <3>1 DEF Laid
    <3>3. Short(d)[k] \in 1 .. 255
      <4>1. Short(d) \in Seq(1 .. 255)
        BY WordPlaces
      <4>2. QED
        BY <3>1, <4>1, ElementOfSeq
    <3>4. b[x] = Short(d)[k]
      BY <3>1, <3>2
    <3>5. b[x] \in 1 .. 255
      BY <3>3, <3>4
    <3>6. \A v \in 1 .. 255 : v # 0
      OBVIOUS
    <3> HIDE DEF h, e
    <3>7. QED
      BY <3>5, <3>6, Zenon
  <2>2. QED
    BY <2>1
<1>4. NameEnd(b, h) = e
  <2> DEFINE P(a) == (a = RamEnd \/ b[a] = 0) /\ \A x \in (h + 1) .. (a - 1) : b[x] # 0
  <2> HIDE DEF h, n, e
  <2>1. P(e)
    BY <1>2, <1>3
  <2>2. \A a \in (h + 1) .. RamEnd : P(a) => a = e
    BY <1>1, <1>2, <1>3
  <2> HIDE DEF P
  <2>3. (CHOOSE a \in (h + 1) .. RamEnd : P(a)) = e
    BY <1>1, <2>1, <2>2
  <2>4. QED
    BY <2>3 DEF NameEnd, P
<1>5. NameAt(b, h) = Short(d)
  <2>1. NameAt(b, h) = [k \in 1 .. n |-> b[h + k]]
    BY <1>1, <1>4 DEF NameAt
  <2>2. \A k \in 1 .. n : b[h + k] = Short(d)[k]
    BY DEF Laid
  <2>3. Short(d) = [k \in 1 .. n |-> Short(d)[k]]
    BY WordPlaces
  <2>4. QED
    BY <2>1, <2>2, <2>3
<1>6. LinkAt(b, h) = LinkOf(d)
  <2>1. NameEnd(b, h) + 1 = h + 1 + n + 1
    BY <1>1, <1>4
  <2>2. QED
    BY <2>1 DEF LinkAt, LinkOf, LinkPlace
<1>7. QED
  BY <1>5, <1>6 DEF TextAt, TextPlace, Link, Laid

\* A header is still there where nothing but its IMMEDIATE flag is written.
LEMMA LaidStays ==
    ASSUME NEW b \in Memory, NEW c, NEW d, NEW l, IsWord(d), Laid(b, d, l),
           c[d.at] \in {d.kind, d.kind + IMMEDIATE},
           \A x \in (d.at + 1) .. (TextPlace(d) - 1) : c[x] = b[x]
    PROVE  Laid(c, d, l)
<1> DEFINE h == d.at
           n == Len(Short(d))
<1>1. /\ h \in Nat /\ n \in Nat /\ LinkOf(d) \in Nat /\ h + n + 2 <= LinkOf(d)
      /\ TextPlace(d) = LinkOf(d) + CELL /\ CELL \in Nat \ {0}
      /\ TextPlace(d) <= RamEnd /\ DictBase <= h /\ DictBase \in Nat /\ RamEnd \in Nat
  BY WordPlaces, SystemPlaces
<1> HIDE DEF n
<1>2. \A k \in 1 .. (n + 1) : c[h + k] = b[h + k]
  BY <1>1
<1>3. Cell(c, LinkOf(d)) = Cell(b, LinkOf(d))
  <2>1. \A k \in 0 .. (CELL - 1) : LinkOf(d) + k \in (h + 1) .. (TextPlace(d) - 1)
    BY <1>1
  <2>2. \A x \in (h + 1) .. (TextPlace(d) - 1) : x \in Ram
    BY <1>1 DEF Ram
  <2>3. \A x \in Ram : b[x] \in Nat
    BY DEF Memory
  <2>4. \A k \in 0 .. (CELL - 1) : b[LinkOf(d) + k] \in Nat /\ c[LinkOf(d) + k] = b[LinkOf(d) + k]
    BY <2>1, <2>2, <2>3
  <2>5. QED
    BY <2>4, CellAgrees
<1>4. \A k \in 1 .. n : c[h + k] = Short(d)[k]
  BY <1>1, <1>2 DEF Laid, n
<1>5. c[h + n + 1] = 0
  <2>1. n + 1 \in 1 .. (n + 1) /\ h + (n + 1) = h + n + 1
    BY <1>1
  <2>2. c[h + (n + 1)] = b[h + (n + 1)]
    BY <1>2, <2>1
  <2>3. QED
    BY <2>1, <2>2 DEF Laid, n
<1>6. QED
  BY <1>3, <1>4, <1>5 DEF Laid, n
\* strncpy writes the characters that are kept, and NULs behind a shorter name.
LEMMA StrncpyIs ==
    ASSUME NEW b \in Memory, NEW a \in Nat, NEW s \in Seq(1 .. 255)
    PROVE  /\ Strncpy(b, a, s) \in Memory
           /\ \A x \in Ram : x < a => Strncpy(b, a, s)[x] = b[x]
           /\ \A k \in 1 .. Len(Compared(s)) : a + k - 1 \in Ram => Strncpy(b, a, s)[a + k - 1] = s[k]
           /\ \A x \in Ram : x >= a + Len(Compared(s)) => Strncpy(b, a, s)[x] \in {0, b[x]}
<1> DEFINE t == [k \in 1 .. NameCap |-> IF k <= Len(s) THEN s[k] ELSE 0]
           c == Strncpy(b, a, s)
           n == Len(Compared(s))
<1>1. NameCap \in Nat /\ Len(s) \in Nat /\ n = (IF Len(s) < NameCap THEN Len(s) ELSE NameCap)
  BY NameAssumption, ComparedIs
<1>2. \A k \in 1 .. NameCap : (IF k <= Len(s) THEN s[k] ELSE 0) \in 0 .. 255
  <2>1. \A k \in 1 .. Len(s) : s[k] \in 1 .. 255
    BY ElementOfSeq
  <2>2. QED
    BY <1>1, <2>1
<1>3. t \in Seq(0 .. 255) /\ Len(t) = NameCap
  BY <1>1, <1>2, IsASeq
<1>4. \A k \in 1 .. NameCap : t[k] = IF k <= Len(s) THEN s[k] ELSE 0
  OBVIOUS
<1>5. c = Copied(b, a, t)
  BY DEF Strncpy
<1> HIDE DEF t, c, n
<1>6. /\ c \in Memory
      /\ \A x \in Ram : x \notin a .. (a + NameCap - 1) => c[x] = b[x]
      /\ \A k \in 1 .. NameCap : a + k - 1 \in Ram => c[a + k - 1] = t[k]
  BY <1>3, <1>5, CopiedIs
<1>7. \A x \in Ram : x < a => c[x] = b[x]
  BY <1>1, <1>6
<1>8. \A k \in 1 .. n : a + k - 1 \in Ram => c[a + k - 1] = s[k]
  BY <1>1, <1>4, <1>6
<1>9. ASSUME NEW x \in Ram, x >= a + n
      PROVE  c[x] \in {0, b[x]}
  <2>1. x \in Int
    BY SystemPlaces DEF Ram
  <2>2. CASE x \in a .. (a + NameCap - 1)
    <3> DEFINE k == x - a + 1
    <3>1. k \in 1 .. NameCap /\ a + k - 1 = x /\ k > n
      BY <1>1, <1>9, <2>1, <2>2
    <3> HIDE DEF k
    <3>2. c[x] = t[k]
      BY <1>6, <3>1
    <3>3. ~(k <= Len(s))
      BY <1>1, <3>1
    <3>4. QED
      BY <1>4, <3>1, <3>2, <3>3
  <2>3. CASE x \notin a .. (a + NameCap - 1)
    BY <1>6, <2>3
  <2>4. QED
    BY <2>2, <2>3
<1>10. QED
  BY <1>6, <1>7, <1>8, <1>9 DEF c, n

\* A header added to memory that is zero from there on: it can be read back,
\* what is before it stays, and what is behind it is still zero.
LEMMA HeaderIs ==
    ASSUME NEW b \in Memory, NEW d, NEW l, IsWord(d), FitsCell(l),
           FoundAgain(d.at, d.name),
           \A x \in Ram : x >= d.at => b[x] = 0
    PROVE  LET c == forth_dict_add_header(b, d.at, d.kind, d.name, l)
           IN  /\ c \in Memory /\ Laid(c, d, l) /\ c[d.at] = d.kind
               /\ \A x \in Ram : x < d.at => c[x] = b[x]
               /\ \A x \in Ram : x >= TextPlace(d) => c[x] = 0
<1> DEFINE h == d.at
           n == Len(Short(d))
           p == LinkOf(d)
           b1 == [b EXCEPT ![h] = d.kind]
           b2 == Strncpy(b1, h + 1, d.name)
           c == Stored(b2, p, <<l>>)
<1>1. /\ h \in Nat /\ DictBase <= h /\ n \in Nat /\ p \in Nat /\ h + n + 2 <= p
      /\ TextPlace(d) = p + CELL /\ p + CELL <= RamEnd
      /\ Short(d) = Compared(d.name) /\ d.name \in Seq(1 .. 255) /\ d.kind \in Kinds
      /\ Short(d) \in Seq(1 .. 255)
  BY WordPlaces DEF IsWord, Short
<1>2. CELL \in Nat \ {0} /\ RamEnd \in Nat /\ DictBase \in Nat
  BY SystemPlaces
<1>3. forth_dict_add_header(b, h, d.kind, d.name, l) = c
  BY DEF forth_dict_add_header, FoundAgain, LinkOf, Short
<1> HIDE DEF h, n, p, c
<1>4. \A x : x \in Ram <=> x \in Int /\ DictBase <= x /\ x < RamEnd
  BY <1>2 DEF Ram
<1>5. h \in Ram
  BY <1>1, <1>2, <1>4
<1>6. /\ b1 \in Memory /\ b1[h] = d.kind
      /\ \A x \in Ram : x # h => b1[x] = b[x]
  <2>1. d.kind \in 0 .. 255
    BY <1>1 DEF Kinds, TEXT, VAR, CONST
  <2>2. QED
    BY <1>5, <2>1 DEF Memory
<1> HIDE DEF b1
<1>7. /\ b2 \in Memory
      /\ \A x \in Ram : x < h + 1 => b2[x] = b1[x]
      /\ \A k \in 1 .. n : h + 1 + k - 1 \in Ram => b2[h + 1 + k - 1] = d.name[k]
      /\ \A x \in Ram : x >= h + 1 + n => b2[x] \in {0, b1[x]}
  <2>1. h + 1 \in Nat /\ n = Len(Compared(d.name)) /\ d.name \in Seq(1 .. 255)
    BY <1>1 DEF n
  <2>2. b1 \in Memory
    BY <1>6
  <2>3. QED
    BY <2>1, <2>2, StrncpyIs
<1> HIDE DEF b2
<1>8. \A x \in Ram : x >= h + 1 + n => b2[x] = 0
  <2>1. \A x \in Ram : x >= h + 1 + n => x # h /\ x >= h
    BY <1>1, <1>4
  <2>2. \A x \in Ram : x >= h + 1 + n => b1[x] = 0
    BY <1>6, <2>1 DEF h
  <2>3. QED
    BY <1>7, <2>2
<1>9. /\ c \in Memory
      /\ \A x \in Ram : x \notin p .. (p + CELL - 1) => c[x] = b2[x]
      /\ Cell(c, p) = l
  <2>1. \A x \in p .. (p + CELL - 1) : x \in Ram
    BY <1>1, <1>2, <1>4
  <2>2. p .. (p + CELL - 1) \subseteq Ram
    BY <2>1
  <2>3. QED
    BY <1>1, <1>7, <2>2, OneStored DEF c
<1>10. \A x \in Ram : x < p => c[x] = b2[x]
  BY <1>1, <1>9
<1>11. \A x \in Ram : x >= TextPlace(d) => c[x] = 0
  <2>1. ASSUME NEW x \in Ram, x >= p + CELL
        PROVE  c[x] = 0
    <3>1. x \notin p .. (p + CELL - 1) /\ x >= h + 1 + n
      BY <1>1, <1>2, <1>4, <2>1
    <3>2. QED
      BY <1>8, <1>9, <3>1
  <2>2. QED
    BY <1>1, <2>1
<1>12. \A x \in Ram : x < h => c[x] = b[x]
  <2>1. ASSUME NEW x \in Ram, x < h
        PROVE  c[x] = b[x]
    <3>1. x < p /\ x < h + 1 /\ x # h
      BY <1>1, <1>2, <1>4, <2>1
    <3>2. QED
      BY <1>6, <1>7, <1>10, <3>1
  <2>2. QED
    BY <2>1
<1>13. Laid(c, d, l) /\ c[h] = d.kind
  <2>1. c[h] = d.kind
    BY <1>1, <1>5, <1>6, <1>7, <1>10
  <2>2. ASSUME NEW k \in 1 .. n
        PROVE  c[h + k] = Short(d)[k]
    <3>1. h + k \in Ram /\ h + 1 + k - 1 = h + k /\ h + k < p
      BY <1>1, <1>2, <1>4
    <3>2. b2[h + k] = d.name[k]
      BY <1>7, <3>1
    <3>3. Short(d)[k] = d.name[k]
      <4>1. \A i \in 1 .. Len(Compared(d.name)) : Compared(d.name)[i] = d.name[i]
        BY <1>1, ComparedIs
      <4>2. QED
        BY <1>1, <4>1 DEF n
    <3>4. QED
      BY <1>10, <3>1, <3>2, <3>3
  <2>3. c[h + n + 1] = 0
    <3>1. h + n + 1 \in Ram /\ h + n + 1 >= h + 1 + n /\ h + n + 1 < p
      BY <1>1, <1>2, <1>4
    <3>2. QED
      BY <1>8, <1>10, <3>1
  <2>4. QED
    BY <1>9, <2>1, <2>2, <2>3 DEF Laid, h, n, p
<1>14. QED
  BY <1>3, <1>9, <1>11, <1>12, <1>13 DEF h

-----------------------------------------------------------------------------
(* The inductive invariant. *)

Items == {<<w>> : w \in Codes} \cup {<<"text", t>> : t \in Texts}

Entries == [name : Seq(1 .. 255), at : Ram, kind : Kinds, items : Seq(Items)]

\* Where the link of the word k leads.
Before(ds, k) == IF k = 1 THEN 0 ELSE ds[k - 1].at

\* The words ds, FORTH and HERE first, lie one behind the other.
InOrder(ds) ==
    /\ ds \in Seq(Entries) /\ Len(ds) >= 2
    /\ ds[1].at = FirstHeader /\ ds[1].name = FORTH
    /\ ds[2].at = SecondHeader /\ ds[2].name = HERE
    /\ \A k \in 1 .. Len(ds) : IsWord(ds[k])
    /\ \A j, k \in 1 .. Len(ds) : j < k => TextPlace(ds[j]) <= ds[k].at
    /\ \A k \in 3 .. Len(ds) : SecondText + CELL <= ds[k].at

\* Their headers are in memory.
Chained(b, ds) == \A k \in 1 .. Len(ds) : Laid(b, ds[k], Before(ds, k))

\* Memory holds the words ds, and nothing behind HERE.
Holds(b, ds) ==
    /\ b \in Memory
    /\ LastUsed(b) \in SecondText .. (RamEnd - CELL)
    /\ \A x \in Ram : x >= LastUsed(b) + CELL => b[x] = 0
    /\ InOrder(ds)
    /\ Chained(b, ds)
    /\ \A k \in 1 .. Len(ds) : TextPlace(ds[k]) <= LastUsed(b) + CELL
    /\ Newest(b) = ds[Len(ds)].at

LayoutInv ==
    /\ Holds(bytes, defined)
    /\ compiling \in BOOLEAN
    /\ compiling => LastUsed(bytes) % CELL = 0

-----------------------------------------------------------------------------
(* What a step leaves alone. *)

FirstCell  == FirstText .. (FirstText + CELL - 1)
SecondCell == SecondText .. (SecondText + CELL - 1)

\* Up to the last cell in use only FORTH and HERE differ.
Keeps(b, c) ==
    \A x \in Ram : x < LastUsed(b) + CELL /\ x \notin FirstCell /\ x \notin SecondCell => c[x] = b[x]

\* The addresses of the RAM.
LEMMA RamIs == \A x : x \in Ram <=> x \in Int /\ DictBase <= x /\ x < RamEnd
  BY SystemPlaces DEF Ram

\* FORTH and HERE have cells of their own, in the RAM.
LEMMA SystemCells ==
    /\ FirstText \in Nat /\ FirstCell \subseteq Ram
    /\ SecondText \in Nat /\ SecondCell \subseteq Ram
    /\ \A x \in FirstCell : x \in Int /\ x < SecondHeader /\ x \notin SecondCell
    /\ \A x \in SecondCell : x \in Int /\ x > SecondHeader /\ x \notin FirstCell
<1>1. /\ DictBase \in Nat /\ RamEnd \in Nat /\ CELL \in Nat \ {0}
      /\ FirstText \in Nat /\ DictBase <= FirstText /\ SecondHeader = FirstText + CELL
      /\ SecondText \in Nat /\ SecondHeader < SecondText /\ SecondText + CELL <= RamEnd
  BY SystemPlaces
<1>2. \A x \in FirstCell : x \in Int /\ x < SecondHeader /\ DictBase <= x /\ x < RamEnd
  BY <1>1 DEF FirstCell
<1>3. \A x \in SecondCell : x \in Int /\ x > SecondHeader /\ DictBase <= x /\ x < RamEnd
  BY <1>1 DEF SecondCell
<1>4. \A x \in FirstCell : x \notin SecondCell
  BY <1>1, <1>2, <1>3
<1>5. QED
  BY <1>1, <1>2, <1>3, <1>4, RamIs

\* What lies behind HERE's own cell is not a cell of the system.
LEMMA BehindSystem ==
    ASSUME NEW x \in Ram, SecondText + CELL <= x
    PROVE  x \notin FirstCell /\ x \notin SecondCell
<1>1. /\ x \in Int /\ CELL \in Nat /\ FirstText \in Nat /\ SecondText \in Nat
      /\ SecondHeader = FirstText + CELL /\ SecondHeader < SecondText
  BY SystemPlaces, RamIs
<1>2. QED
  BY <1>1 DEF FirstCell, SecondCell

\* A cell of memory depends on its own bytes only.
LEMMA SameCell ==
    ASSUME NEW b \in Memory, NEW c, NEW a \in Nat,
           \A x \in a .. (a + CELL - 1) : x \in Ram /\ c[x] = b[x]
    PROVE  Cell(b, a) \in Nat /\ Cell(c, a) = Cell(b, a)
<1>1. CELL \in Nat
  BY CellAssumption
<1>2. \A k \in 0 .. (CELL - 1) : a + k \in a .. (a + CELL - 1)
  BY <1>1
<1>3. \A x \in Ram : b[x] \in Nat
  BY DEF Memory
<1>4. \A k \in 0 .. (CELL - 1) : b[a + k] \in Nat /\ c[a + k] = b[a + k]
  BY <1>2, <1>3
<1>5. QED
  BY <1>4, CellAgrees

\* Setting HERE changes nothing else.
LEMMA LastUsedIs ==
    ASSUME NEW b \in Memory, NEW a \in 0 .. RamEnd
    PROVE  /\ SetLastUsed(b, a) \in Memory
           /\ LastUsed(SetLastUsed(b, a)) = a
           /\ Newest(SetLastUsed(b, a)) = Newest(b)
           /\ \A x \in Ram : x \notin SecondCell => SetLastUsed(b, a)[x] = b[x]
<1> DEFINE c == SetLastUsed(b, a)
<1>1. FitsCell(a)
  BY AddressFits
<1>2. /\ c \in Memory /\ Cell(c, SecondText) = a
      /\ \A x \in Ram : x \notin SecondCell => c[x] = b[x]
  BY <1>1, SystemCells, OneStored DEF SetLastUsed, SecondCell
<1> HIDE DEF c
<1>3. \A x \in FirstCell : x \in Ram /\ c[x] = b[x]
  BY <1>2, SystemCells
<1>4. Cell(c, FirstText) = Cell(b, FirstText)
  BY <1>3, SystemCells, SameCell DEF FirstCell
<1>5. QED
  BY <1>2, <1>4 DEF c, LastUsed, Newest

\* Setting FORTH changes nothing else.
LEMMA NewestIs ==
    ASSUME NEW b \in Memory, NEW a \in 0 .. RamEnd
    PROVE  /\ SetNewest(b, a) \in Memory
           /\ Newest(SetNewest(b, a)) = a
           /\ LastUsed(SetNewest(b, a)) = LastUsed(b)
           /\ \A x \in Ram : x \notin FirstCell => SetNewest(b, a)[x] = b[x]
<1> DEFINE c == SetNewest(b, a)
<1>1. FitsCell(a)
  BY AddressFits
<1>2. /\ c \in Memory /\ Cell(c, FirstText) = a
      /\ \A x \in Ram : x \notin FirstCell => c[x] = b[x]
  BY <1>1, SystemCells, OneStored DEF SetNewest, FirstCell
<1> HIDE DEF c
<1>3. \A x \in SecondCell : x \in Ram /\ c[x] = b[x]
  BY <1>2, SystemCells
<1>4. Cell(c, SecondText) = Cell(b, SecondText)
  BY <1>3, SystemCells, SameCell DEF SecondCell
<1>5. QED
  BY <1>2, <1>4 DEF c, LastUsed, Newest

-----------------------------------------------------------------------------
(* Words stay where nothing is written. *)

\* No header has a byte in the cells of FORTH and HERE.
LEMMA HeadersApart ==
    ASSUME NEW ds, InOrder(ds), NEW k \in 1 .. Len(ds),
           NEW x \in ds[k].at .. (TextPlace(ds[k]) - 1)
    PROVE  x \in Ram /\ x \notin FirstCell /\ x \notin SecondCell
<1>1. /\ CELL \in Nat \ {0} /\ DictBase \in Nat /\ RamEnd \in Nat
      /\ FirstText \in Nat /\ SecondText \in Nat
      /\ FirstText = LinkPlace(FirstHeader, FORTH) + CELL
      /\ SecondText = LinkPlace(SecondHeader, HERE) + CELL
      /\ SecondHeader = FirstText + CELL /\ SecondText > SecondHeader
  BY SystemPlaces
<1>2. IsWord(ds[k])
  BY DEF InOrder
<1>3. ds[k].at \in Nat /\ DictBase <= ds[k].at /\ TextPlace(ds[k]) \in Nat /\ TextPlace(ds[k]) <= RamEnd
  BY <1>2, WordPlaces
<1>4. x \in Int /\ ds[k].at <= x /\ x < TextPlace(ds[k])
  BY <1>3
<1>5. x \in Ram
  BY <1>1, <1>3, <1>4, RamIs
<1>6. Len(ds) \in Nat
  BY DEF InOrder
<1>7. \/ TextPlace(ds[k]) <= FirstText
      \/ FirstText + CELL <= ds[k].at /\ TextPlace(ds[k]) <= SecondText
      \/ SecondText + CELL <= ds[k].at
  <2>1. CASE k = 1
    <3>1. ds[1].at = FirstHeader /\ Short(ds[1]) = FORTH
      BY SystemNames DEF InOrder, Short
    <3>2. TextPlace(ds[1]) = FirstText
      BY <1>1, <3>1 DEF TextPlace, LinkOf
    <3>3. QED
      BY <1>1, <2>1, <3>2
  <2>2. CASE k = 2
    <3>1. ds[2].at = SecondHeader /\ Short(ds[2]) = HERE
      BY SystemNames DEF InOrder, Short
    <3>2. TextPlace(ds[2]) = SecondText
      BY <1>1, <3>1 DEF TextPlace, LinkOf
    <3>3. QED
      BY <1>1, <2>2, <3>1, <3>2
  <2>3. CASE k \in 3 .. Len(ds)
    BY <2>3 DEF InOrder
  <2>4. QED
    BY <1>6, <2>1, <2>2, <2>3
<1>8. x \notin FirstCell /\ x \notin SecondCell
  <2>1. \A y \in FirstCell : FirstText <= y /\ y < FirstText + CELL
    BY <1>1 DEF FirstCell
  <2>2. \A y \in SecondCell : SecondText <= y /\ y < SecondText + CELL
    BY <1>1 DEF SecondCell
  <2>3. FirstText + CELL <= SecondText
    BY <1>1
  <2>4. QED
    BY <1>1, <1>3, <1>4, <1>7, <2>1, <2>2, <2>3
<1>9. QED
  BY <1>5, <1>8

\* What is written behind HERE, and to FORTH and HERE, leaves every header.
LEMMA ChainStays ==
    ASSUME NEW b, NEW ds, Holds(b, ds), NEW c \in Memory, Keeps(b, c)
    PROVE  Chained(c, ds)
<1>1. b \in Memory /\ InOrder(ds) /\ CELL \in Nat /\ LastUsed(b) \in Nat
  BY SystemPlaces DEF Holds
<1>2. ASSUME NEW k \in 1 .. Len(ds)
      PROVE  Laid(c, ds[k], Before(ds, k))
  <2>1. Laid(b, ds[k], Before(ds, k)) /\ IsWord(ds[k]) /\ TextPlace(ds[k]) <= LastUsed(b) + CELL
    BY DEF Holds, Chained, InOrder
  <2>2. ds[k].at \in Nat /\ TextPlace(ds[k]) \in Nat /\ ds[k].at < TextPlace(ds[k])
    BY <1>1, <2>1, WordPlaces
  <2>3. \A x \in ds[k].at .. (TextPlace(ds[k]) - 1) : x < LastUsed(b) + CELL
    BY <1>1, <2>1, <2>2
  <2>4. \A x \in ds[k].at .. (TextPlace(ds[k]) - 1) : c[x] = b[x]
    BY <1>1, <2>3, HeadersApart DEF Keeps
  <2>5. c[ds[k].at] = b[ds[k].at] /\ \A x \in (ds[k].at + 1) .. (TextPlace(ds[k]) - 1) : c[x] = b[x]
    BY <2>2, <2>4
  <2>6. c[ds[k].at] \in {ds[k].kind, ds[k].kind + IMMEDIATE}
    BY <2>1, <2>5 DEF Laid
  <2>7. QED
    BY <1>1, <2>1, <2>5, <2>6, LaidStays
<1>3. QED
  BY <1>2 DEF Chained

\* A step that writes there only, and moves HERE on, leaves memory in order.
LEMMA HoldsStays ==
    ASSUME NEW b, NEW ds, Holds(b, ds), NEW c \in Memory, Keeps(b, c),
           LastUsed(c) \in LastUsed(b) .. (RamEnd - CELL),
           Newest(c) = Newest(b),
           \A x \in Ram : x >= LastUsed(c) + CELL => c[x] = 0
    PROVE  Holds(c, ds)
<1>1. /\ b \in Memory /\ InOrder(ds) /\ CELL \in Nat /\ RamEnd \in Nat /\ SecondText \in Nat
      /\ LastUsed(b) \in SecondText .. (RamEnd - CELL)
      /\ \A k \in 1 .. Len(ds) : IsWord(ds[k])
  BY SystemPlaces DEF Holds, InOrder
<1>2. ASSUME NEW k \in 1 .. Len(ds)
      PROVE  TextPlace(ds[k]) <= LastUsed(c) + CELL
  <2>1. TextPlace(ds[k]) \in Nat /\ TextPlace(ds[k]) <= LastUsed(b) + CELL
    BY <1>1, WordPlaces DEF Holds
  <2>2. QED
    BY <1>1, <2>1
<1>3. LastUsed(c) \in SecondText .. (RamEnd - CELL)
  BY <1>1
<1>4. Newest(c) = ds[Len(ds)].at
  BY DEF Holds
<1>5. QED
  BY <1>1, <1>2, <1>3, <1>4, ChainStays DEF Holds

-----------------------------------------------------------------------------
(* A new header. *)

\* forth_dict_add_header, FORTH set to the header and HERE to its link.
HeaderOf(b, d) ==
    SetLastUsed(SetNewest(forth_dict_add_header(b, d.at, d.kind, d.name, Newest(b)), d.at),
                LinkPlace(d.at, d.name))

\* A word behind the last of the words in order.
LEMMA OneMoreInOrder ==
    ASSUME NEW ds, InOrder(ds), NEW d \in Entries, IsWord(d), SecondText + CELL <= d.at,
           \A k \in 1 .. Len(ds) : TextPlace(ds[k]) <= d.at
    PROVE  InOrder(Append(ds, d))
<1> DEFINE es == Append(ds, d)
           n == Len(ds)
<1>1. ds \in Seq(Entries) /\ n \in Nat /\ n >= 2
  BY DEF InOrder
<1>2. /\ es \in Seq(Entries) /\ Len(es) = n + 1 /\ es[n + 1] = d
      /\ \A k \in 1 .. n : es[k] = ds[k]
  BY <1>1
<1> HIDE DEF es, n
<1>3. \A k \in 1 .. (n + 1) : k \in 1 .. n \/ k = n + 1
  BY <1>1
<1>4. \A k \in 1 .. (n + 1) : IsWord(es[k])
  BY <1>2, <1>3 DEF InOrder, n
<1>5. ASSUME NEW j \in 1 .. (n + 1), NEW k \in 1 .. (n + 1), j < k
      PROVE  TextPlace(es[j]) <= es[k].at
  <2>1. j \in 1 .. n
    BY <1>1, <1>5
  <2>2. CASE k \in 1 .. n
    BY <1>2, <1>5, <2>1, <2>2 DEF InOrder, n
  <2>3. CASE k = n + 1
    BY <1>2, <2>1, <2>3 DEF n
  <2>4. QED
    BY <1>3, <2>2, <2>3
<1>6. ASSUME NEW k \in 3 .. (n + 1)
      PROVE  SecondText + CELL <= es[k].at
  <2>1. CASE k \in 1 .. n
    <3>1. k \in 3 .. n
      BY <1>1, <2>1
    <3>2. QED
      BY <1>2, <2>1, <3>1 DEF InOrder, n
  <2>2. CASE k = n + 1
    BY <1>2, <2>2
  <2>3. QED
    BY <1>1, <2>1, <2>2
<1>7. 1 \in 1 .. n /\ 2 \in 1 .. n /\ Len(es) >= 2
  BY <1>1, <1>2
<1>8. /\ es[1].at = FirstHeader /\ es[1].name = FORTH
      /\ es[2].at = SecondHeader /\ es[2].name = HERE
  BY <1>2, <1>7 DEF InOrder
<1>9. InOrder(es)
  BY <1>2, <1>4, <1>5, <1>6, <1>7, <1>8 DEF InOrder
<1>10. QED
  BY <1>9 DEF es

\* A header laid one cell behind the last one makes the word the newest.
LEMMA HeaderAdded ==
    ASSUME NEW b, NEW ds, Holds(b, ds), NEW d \in Entries, IsWord(d),
           d.at = HeaderPlace(b), FoundAgain(d.at, d.name)
    PROVE  /\ Holds(HeaderOf(b, d), Append(ds, d))
           /\ Keeps(b, HeaderOf(b, d))
           /\ LastUsed(HeaderOf(b, d)) = LinkOf(d)
           /\ HeaderOf(b, d)[d.at] = d.kind
<1> DEFINE h == d.at
           p == LinkOf(d)
           b1 == forth_dict_add_header(b, h, d.kind, d.name, Newest(b))
           b2 == SetNewest(b1, h)
           c == SetLastUsed(b2, p)
           n == Len(ds)
           es == Append(ds, d)
<1>1. /\ CELL \in Nat \ {0} /\ RamEnd \in Nat /\ SecondText \in Nat /\ DictBase \in Nat
      /\ SecondHeader < SecondText /\ FirstText + CELL = SecondHeader /\ FirstText \in Nat
  BY SystemPlaces
<1>2. /\ b \in Memory /\ InOrder(ds) /\ Chained(b, ds) /\ ds \in Seq(Entries)
      /\ LastUsed(b) \in SecondText .. (RamEnd - CELL)
      /\ \A x \in Ram : x >= LastUsed(b) + CELL => b[x] = 0
      /\ \A k \in 1 .. n : TextPlace(ds[k]) <= LastUsed(b) + CELL
      /\ Newest(b) = ds[n].at /\ n \in Nat /\ n >= 2
  BY DEF Holds, InOrder
<1>3. /\ h \in Nat /\ h = LastUsed(b) + CELL /\ p \in Nat /\ h < p
      /\ TextPlace(d) = p + CELL /\ p + CELL <= RamEnd
  <2>1. /\ h \in Nat /\ p \in Nat /\ h + Len(Short(d)) + 2 <= p /\ Len(Short(d)) \in Nat
        /\ TextPlace(d) = p + CELL /\ TextPlace(d) <= RamEnd
    BY WordPlaces
  <2>2. QED
    BY <2>1 DEF HeaderPlace
<1>4. p = LinkPlace(h, d.name)
  BY DEF FoundAgain, LinkOf, Short
<1>5. Newest(b) \in 0 .. RamEnd
  <2>1. IsWord(ds[n])
    BY <1>2 DEF InOrder
  <2>2. QED
    BY <1>1, <1>2, <2>1, RamIs DEF IsWord
<1> HIDE DEF n
<1>6. FitsCell(Newest(b))
  BY <1>5, AddressFits
<1>7. /\ b1 \in Memory /\ Laid(b1, d, Newest(b)) /\ b1[h] = d.kind
      /\ \A x \in Ram : x < h => b1[x] = b[x]
      /\ \A x \in Ram : x >= TextPlace(d) => b1[x] = 0
  <2>1. \A x \in Ram : x >= d.at => b[x] = 0
    BY <1>2, <1>3
  <2>2. QED
    BY <1>2, <1>6, <2>1, HeaderIs
<1>8. HeaderOf(b, d) = c
  BY <1>4 DEF HeaderOf
<1> HIDE DEF h, p, b1
<1>9. h \in 0 .. RamEnd /\ p \in 0 .. RamEnd
  BY <1>1, <1>3
<1>10. /\ b2 \in Memory /\ Newest(b2) = h
       /\ \A x \in Ram : x \notin FirstCell => b2[x] = b1[x]
  BY <1>7, <1>9, NewestIs
<1> HIDE DEF b2
<1>11. /\ c \in Memory /\ Newest(c) = h /\ LastUsed(c) = p
       /\ \A x \in Ram : x \notin SecondCell => c[x] = b2[x]
  BY <1>9, <1>10, LastUsedIs
<1> HIDE DEF c
<1>12. \A x \in Ram : x \notin FirstCell /\ x \notin SecondCell => c[x] = b1[x]
  BY <1>10, <1>11
<1>13. Keeps(b, c)
  BY <1>3, <1>7, <1>12 DEF Keeps
<1>14. \A x \in Ram : x >= h => x \notin FirstCell /\ x \notin SecondCell
  <2>1. \A x \in Ram : x >= h => SecondText + CELL <= x
    BY <1>1, <1>2, <1>3, RamIs
  <2>2. QED
    BY <2>1, BehindSystem
<1>15. \A x \in Ram : x >= h => c[x] = b1[x]
  BY <1>12, <1>14
<1>16. \A x \in Ram : x >= p + CELL => c[x] = 0
  BY <1>1, <1>3, <1>7, <1>15, RamIs
<1>17. Laid(c, d, Newest(b)) /\ c[h] = d.kind
  <2>1. h \in Ram
    BY DEF IsWord, h
  <2>2. c[h] = b1[h]
    BY <1>3, <1>15, <2>1
  <2>3. c[d.at] \in {d.kind, d.kind + IMMEDIATE}
    BY <1>7, <2>2 DEF Laid, h
  <2>4. \A x \in (h + 1) .. (TextPlace(d) - 1) : x \in Ram /\ x >= h
    BY <1>1, <1>3, <2>1, RamIs
  <2>5. \A x \in (d.at + 1) .. (TextPlace(d) - 1) : c[x] = b1[x]
    BY <1>15, <2>4 DEF h
  <2>6. QED
    BY <1>7, <2>2, <2>3, <2>5, LaidStays
<1>18. Chained(c, ds)
  BY <1>11, <1>13, ChainStays
<1>19. es \in Seq(Entries) /\ Len(es) = n + 1 /\ es[n + 1] = d /\ \A k \in 1 .. n : es[k] = ds[k]
  BY <1>2 DEF n
<1>20. InOrder(es)
  <2>1. SecondText + CELL <= d.at /\ \A k \in 1 .. Len(ds) : TextPlace(ds[k]) <= d.at
    BY <1>1, <1>2, <1>3 DEF h, n
  <2>2. QED
    BY <1>2, <2>1, OneMoreInOrder
<1> HIDE DEF es
<1>21. ASSUME NEW k \in 1 .. (n + 1)
       PROVE  Laid(c, es[k], Before(es, k)) /\ TextPlace(es[k]) <= p + CELL
  <2>1. CASE k \in 1 .. n
    <3>1. Before(es, k) = Before(ds, k)
      <4>1. k # 1 => k - 1 \in 1 .. n
        BY <1>2, <2>1
      <4>2. QED
        BY <1>19, <4>1 DEF Before
    <3>2. Laid(c, ds[k], Before(ds, k))
      BY <1>18, <2>1 DEF Chained, n
    <3>3. TextPlace(ds[k]) \in Nat
      BY <1>2, <2>1, WordPlaces DEF InOrder, n
    <3>4. TextPlace(ds[k]) <= h
      BY <1>2, <1>3, <2>1
    <3>5. TextPlace(ds[k]) <= p + CELL
      BY <1>1, <1>3, <3>3, <3>4
    <3>6. QED
      BY <1>19, <2>1, <3>1, <3>2, <3>5
  <2>2. CASE k = n + 1
    <3>1. k - 1 = n /\ k # 1 /\ n \in 1 .. n
      BY <1>2, <2>2
    <3>2. Before(es, k) = Newest(b)
      BY <1>2, <1>19, <3>1 DEF Before
    <3>3. QED
      BY <1>1, <1>3, <1>17, <1>19, <2>2, <3>2
  <2>3. QED
    BY <1>2, <2>1, <2>2
<1>22. LastUsed(c) \in SecondText .. (RamEnd - CELL)
  BY <1>1, <1>2, <1>3, <1>11
<1>23. Newest(c) = es[Len(es)].at
  BY <1>11, <1>19 DEF h
<1>24. Holds(c, es)
  BY <1>11, <1>16, <1>19, <1>20, <1>21, <1>22, <1>23 DEF Holds, Chained
<1>25. QED
  BY <1>8, <1>11, <1>13, <1>17, <1>24 DEF es, p, h

-----------------------------------------------------------------------------
(* HERE moves on. *)

\* A step that writes behind HERE only, and to HERE.
LEMMA HereMoved ==
    ASSUME NEW b, NEW ds, Holds(b, ds), NEW c \in Memory,
           \A x \in Ram : x < LastUsed(b) + CELL /\ x \notin SecondCell => c[x] = b[x],
           LastUsed(c) \in LastUsed(b) .. (RamEnd - CELL),
           \A x \in Ram : x >= LastUsed(c) + CELL => c[x] = 0
    PROVE  Holds(c, ds) /\ Keeps(b, c)
<1>1. Keeps(b, c)
  BY DEF Keeps
<1>2. /\ b \in Memory /\ CELL \in Nat /\ SecondText \in Nat /\ FirstText \in Nat
      /\ LastUsed(b) \in Nat /\ SecondText <= LastUsed(b) /\ SecondHeader < SecondText
      /\ SecondHeader \in Nat
  BY SystemPlaces DEF Holds
<1>3. \A x \in FirstCell : x \in Ram /\ x < LastUsed(b) + CELL /\ x \notin SecondCell
  BY <1>2, SystemCells
<1>4. \A x \in FirstCell : x \in Ram /\ c[x] = b[x]
  BY <1>3
<1>5. Newest(c) = Newest(b)
  BY <1>2, <1>4, SameCell DEF FirstCell, Newest
<1>6. QED
  BY <1>1, <1>5, HoldsStays

\* The same, of a step that writes and then sets HERE to a.
LEMMA HereSet ==
    ASSUME NEW b, NEW ds, Holds(b, ds), NEW c \in Memory,
           \A x \in Ram : x < LastUsed(b) + CELL => c[x] = b[x],
           NEW a \in LastUsed(b) .. (RamEnd - CELL),
           \A x \in Ram : x >= a + CELL => c[x] = 0
    PROVE  /\ Holds(SetLastUsed(c, a), ds) /\ Keeps(b, SetLastUsed(c, a))
           /\ LastUsed(SetLastUsed(c, a)) = a
           /\ \A x \in Ram : x >= LastUsed(b) + CELL => SetLastUsed(c, a)[x] = c[x]
<1> DEFINE e == SetLastUsed(c, a)
<1>1. /\ CELL \in Nat \ {0} /\ RamEnd \in Nat /\ SecondText \in Nat
      /\ LastUsed(b) \in Nat /\ SecondText <= LastUsed(b)
  BY SystemPlaces DEF Holds
<1>2. a \in 0 .. RamEnd
  BY <1>1
<1>3. /\ e \in Memory /\ LastUsed(e) = a
      /\ \A x \in Ram : x \notin SecondCell => e[x] = c[x]
  BY <1>2, LastUsedIs
<1> HIDE DEF e
<1>4. \A x \in Ram : x >= LastUsed(b) + CELL => x \notin SecondCell
  BY <1>1 DEF SecondCell
<1>5. \A x \in Ram : x >= LastUsed(b) + CELL => e[x] = c[x]
  BY <1>3, <1>4
<1>6. \A x \in Ram : x >= a + CELL => x >= LastUsed(b) + CELL
  BY <1>1, RamIs
<1>7. \A x \in Ram : x >= a + CELL => e[x] = 0
  BY <1>5, <1>6
<1>8. \A x \in Ram : x < LastUsed(b) + CELL /\ x \notin SecondCell => e[x] = b[x]
  BY <1>3
<1>9. Holds(e, ds) /\ Keeps(b, e)
  BY <1>3, <1>7, <1>8, HereMoved
<1>10. QED
  BY <1>3, <1>5, <1>9 DEF e

\* What was kept in two steps is kept.
LEMMA KeepsBoth ==
    ASSUME NEW b, NEW c, NEW e, Keeps(b, c), Keeps(c, e),
           LastUsed(b) \in Nat, LastUsed(c) \in Nat, LastUsed(b) <= LastUsed(c)
    PROVE  Keeps(b, e)
<1>1. \A x \in Ram : x < LastUsed(b) + CELL => x < LastUsed(c) + CELL
  BY RamIs, CellAssumption
<1>2. QED
  BY <1>1 DEF Keeps

\* A cell behind the last one, with its value, set after HERE.
LEMMA ValueAdded ==
    ASSUME NEW b, NEW ds, Holds(b, ds), NEW w, FitsCell(w),
           LastUsed(b) + 2 * CELL <= RamEnd
    PROVE  LET a == LastUsed(b) + CELL
               c == Stored(SetLastUsed(b, a), a, <<w>>)
           IN  Holds(c, ds) /\ Keeps(b, c) /\ LastUsed(c) = a
<1> DEFINE a == LastUsed(b) + CELL
           e == SetLastUsed(b, a)
           c == Stored(e, a, <<w>>)
<1>1. /\ CELL \in Nat \ {0} /\ RamEnd \in Nat /\ SecondText \in Nat /\ DictBase \in Nat
      /\ DictBase <= SecondText
      /\ LastUsed(b) \in Nat /\ SecondText <= LastUsed(b) /\ b \in Memory
      /\ \A x \in Ram : x >= LastUsed(b) + CELL => b[x] = 0
  <2>1. /\ CELL \in Nat \ {0} /\ RamEnd \in Nat /\ SecondText \in Nat /\ DictBase \in Nat
        /\ DictBase <= SecondText
    BY SystemPlaces
  <2>2. /\ LastUsed(b) \in SecondText .. (RamEnd - CELL) /\ b \in Memory
        /\ \A x \in Ram : x >= LastUsed(b) + CELL => b[x] = 0
    BY DEF Holds
  <2>3. LastUsed(b) \in Nat /\ SecondText <= LastUsed(b)
    BY <2>1, <2>2
  <2>4. QED
    BY <2>1, <2>2, <2>3
<1>2. /\ a \in Nat /\ a = LastUsed(b) + CELL /\ a \in LastUsed(b) .. (RamEnd - CELL)
      /\ a \in 0 .. RamEnd
  BY <1>1
<1> HIDE DEF a
<1>3. /\ e \in Memory /\ LastUsed(e) = a
      /\ \A x \in Ram : x \notin SecondCell => e[x] = b[x]
  BY <1>1, <1>2, LastUsedIs
<1>4. \A x \in a .. (a + CELL - 1) : x \in Ram
  BY <1>1, <1>2, RamIs
<1> HIDE DEF e
<1>5. /\ c \in Memory
      /\ \A x \in Ram : x \notin a .. (a + CELL - 1) => c[x] = e[x]
  <2>1. a .. (a + CELL - 1) \subseteq Ram
    BY <1>4
  <2>2. QED
    BY <1>2, <1>3, <2>1, OneStored
<1> HIDE DEF c
<1>6. \A x \in SecondCell : x \in Ram /\ x < a
  BY <1>1, <1>2, SystemCells DEF SecondCell
<1>7. \A x \in Ram : x < a => c[x] = e[x]
  BY <1>1, <1>2, <1>5
<1>8. LastUsed(c) = a
  <2>1. \A x \in SecondCell : x \in Ram /\ c[x] = e[x]
    BY <1>6, <1>7
  <2>2. QED
    BY <1>1, <1>3, <2>1, SameCell DEF SecondCell, LastUsed
<1>9. \A x \in Ram : x < a /\ x \notin SecondCell => c[x] = b[x]
  BY <1>3, <1>7
<1>10. ASSUME NEW x \in Ram, x >= a + CELL
       PROVE  c[x] = 0
  <2>1. x \notin a .. (a + CELL - 1) /\ x >= LastUsed(b) + CELL /\ x \in Int /\ x >= a
    BY <1>1, <1>2, <1>10, RamIs
  <2>2. x \notin SecondCell
    BY <1>1, <1>2, <1>6, <2>1
  <2>3. QED
    BY <1>1, <1>3, <1>5, <2>1, <2>2
<1>11. Holds(c, ds) /\ Keeps(b, c)
  BY <1>2, <1>5, <1>8, <1>9, <1>10, HereMoved
<1>12. QED
  BY <1>8, <1>11 DEF a, c, e

-----------------------------------------------------------------------------
(* What changes of a word. *)

\* More code is compiled into the last word.
Longer(ds, item) == [ds EXCEPT ![Len(ds)].items = Append(@, item)]

\* Compiling an item changes the items of the last word and nothing else.
LEMMA LongerIs ==
    ASSUME NEW ds, InOrder(ds), NEW item \in Items
    PROVE  /\ Longer(ds, item) \in Seq(Entries) /\ Len(Longer(ds, item)) = Len(ds)
           /\ \A k \in 1 .. Len(ds) :
                 LET d == Longer(ds, item)[k]
                 IN  /\ d.at = ds[k].at /\ d.name = ds[k].name /\ d.kind = ds[k].kind
                     /\ d.items = IF k = Len(ds) THEN Append(ds[k].items, item) ELSE ds[k].items
<1>1. ds \in Seq(Entries) /\ Len(ds) \in Nat /\ Len(ds) \in 1 .. Len(ds)
  BY DEF InOrder
<1>2. ds = [k \in 1 .. Len(ds) |-> ds[k]] /\ \A k \in 1 .. Len(ds) : ds[k] \in Entries
  BY <1>1, ElementOfSeq
<1> DEFINE d == [ds[Len(ds)] EXCEPT !.items = Append(@, item)]
           es == [k \in 1 .. Len(ds) |-> IF k = Len(ds) THEN d ELSE ds[k]]
<1>3. /\ d \in Entries /\ d.at = ds[Len(ds)].at /\ d.name = ds[Len(ds)].name
      /\ d.kind = ds[Len(ds)].kind /\ d.items = Append(ds[Len(ds)].items, item)
  <2> DEFINE o == ds[Len(ds)]
  <2>1. o \in Entries
    BY <1>1, <1>2
  <2> HIDE DEF o
  <2>2. o.items \in Seq(Items)
    BY <2>1 DEF Entries
  <2>3. Append(o.items, item) \in Seq(Items)
    BY <2>2
  <2>4. [o EXCEPT !.items = Append(@, item)] \in Entries
    BY <2>1, <2>3 DEF Entries
  <2>5. /\ [o EXCEPT !.items = Append(@, item)].at = o.at
        /\ [o EXCEPT !.items = Append(@, item)].name = o.name
        /\ [o EXCEPT !.items = Append(@, item)].kind = o.kind
        /\ [o EXCEPT !.items = Append(@, item)].items = Append(o.items, item)
    BY <2>1 DEF Entries
  <2>6. QED
    BY <2>4, <2>5 DEF o
<1>4. Longer(ds, item) = es
  BY <1>1, <1>2 DEF Longer
<1> HIDE DEF d
<1>5. \A k \in 1 .. Len(ds) : (IF k = Len(ds) THEN d ELSE ds[k]) \in Entries
  BY <1>2, <1>3
<1>6. es \in Seq(Entries) /\ Len(es) = Len(ds)
  BY <1>1, <1>5, IsASeq
<1>7. \A k \in 1 .. Len(ds) : es[k] = IF k = Len(ds) THEN d ELSE ds[k]
  OBVIOUS
<1> HIDE DEF es
<1>8. QED
  BY <1>3, <1>4, <1>6, <1>7

\* What was compiled is no part of the headers.
LEMMA LongerHolds ==
    ASSUME NEW b, NEW ds, Holds(b, ds), NEW item \in Items
    PROVE  Holds(b, Longer(ds, item))
<1> DEFINE es == Longer(ds, item)
<1>1. InOrder(ds) /\ Len(ds) \in Nat /\ Len(ds) >= 2
  BY DEF Holds, InOrder
<1>2. /\ es \in Seq(Entries) /\ Len(es) = Len(ds)
      /\ \A k \in 1 .. Len(ds) :
            es[k].at = ds[k].at /\ es[k].name = ds[k].name /\ es[k].kind = ds[k].kind
  BY <1>1, LongerIs
<1> HIDE DEF es
<1>3. \A k \in 1 .. Len(ds) : Short(es[k]) = Short(ds[k]) /\ TextPlace(es[k]) = TextPlace(ds[k])
                             /\ LinkOf(es[k]) = LinkOf(ds[k])
  BY <1>2 DEF Short, TextPlace, LinkOf
<1>4. \A k \in 1 .. Len(ds) : IsWord(es[k])
  BY <1>1, <1>2, <1>3 DEF InOrder, IsWord
<1>5. \A k \in 1 .. Len(ds) : Before(es, k) = Before(ds, k)
  BY <1>1, <1>2 DEF Before
<1>6. \A k \in 1 .. Len(ds) : Laid(b, es[k], Before(es, k))
  BY <1>2, <1>3, <1>5 DEF Holds, Chained, Laid
<1>7. InOrder(es)
  <2>1. 1 \in 1 .. Len(ds) /\ 2 \in 1 .. Len(ds) /\ \A k \in 3 .. Len(ds) : k \in 1 .. Len(ds)
    BY <1>1
  <2>2. \A j, k \in 1 .. Len(ds) : j < k => TextPlace(es[j]) <= es[k].at
    BY <1>1, <1>2, <1>3 DEF InOrder
  <2>3. \A k \in 3 .. Len(ds) : SecondText + CELL <= es[k].at
    BY <1>1, <1>2, <2>1 DEF InOrder
  <2>4. QED
    BY <1>1, <1>2, <1>4, <2>1, <2>2, <2>3 DEF InOrder
<1>8. Newest(b) = es[Len(es)].at
  BY <1>1, <1>2 DEF Holds
<1>9. QED
  BY <1>2, <1>3, <1>6, <1>7, <1>8 DEF Holds, Chained, es

\* The flags of the newest word.
LEMMA ImmediateHolds ==
    ASSUME NEW b, NEW ds, Holds(b, ds)
    PROVE  LET c == [b EXCEPT ![Newest(b)] = WithImmediate(@)]
           IN  /\ Holds(c, ds) /\ LastUsed(c) = LastUsed(b)
               /\ c[Newest(b)] = ds[Len(ds)].kind + IMMEDIATE
               /\ \A x \in Ram : x # Newest(b) => c[x] = b[x]
<1> DEFINE h == Newest(b)
           c == [b EXCEPT ![h] = WithImmediate(@)]
           n == Len(ds)
           d == ds[n]
<1>1. /\ CELL \in Nat \ {0} /\ RamEnd \in Nat /\ FirstText \in Nat /\ SecondText \in Nat
      /\ DictBase \in Nat
  BY SystemPlaces
<1>2. /\ b \in Memory /\ InOrder(ds) /\ Chained(b, ds)
      /\ LastUsed(b) \in SecondText .. (RamEnd - CELL)
      /\ \A x \in Ram : x >= LastUsed(b) + CELL => b[x] = 0
      /\ \A k \in 1 .. n : TextPlace(ds[k]) <= LastUsed(b) + CELL
      /\ h = d.at /\ n \in Nat /\ n >= 2 /\ n \in 1 .. n
  BY DEF Holds, InOrder
<1>3. IsWord(d) /\ Laid(b, d, Before(ds, n))
  BY <1>2 DEF InOrder, Chained
<1>4. h \in Ram /\ h \in Nat /\ TextPlace(d) \in Nat /\ h < TextPlace(d) /\ d.kind \in Kinds
  <2>1. /\ d.at \in Nat /\ LinkOf(d) \in Nat /\ Len(Short(d)) \in Nat
        /\ d.at + Len(Short(d)) + 2 <= LinkOf(d) /\ TextPlace(d) = LinkOf(d) + CELL
    BY <1>3, WordPlaces
  <2>2. d.at \in Ram /\ d.kind \in Kinds
    BY <1>3 DEF IsWord
  <2> HIDE DEF h, d
  <2>3. QED
    BY <1>1, <1>2, <2>1, <2>2
<1>5. h \notin FirstCell /\ h \notin SecondCell
  <2>1. d.at \in d.at .. (TextPlace(d) - 1)
    BY <1>2, <1>4
  <2>2. QED
    BY <1>2, <2>1, HeadersApart
<1> HIDE DEF h
<1>6. WithImmediate(b[h]) = d.kind + IMMEDIATE
  <2>1. b[h] \in {d.kind, d.kind + IMMEDIATE} /\ d.kind \in {0, 4, 8}
    BY <1>2, <1>3, <1>4 DEF Laid, Kinds, TEXT, VAR, CONST
  <2>2. /\ WithImmediate(0) = 2 /\ WithImmediate(4) = 6 /\ WithImmediate(8) = 10
        /\ WithImmediate(2) = 2 /\ WithImmediate(6) = 6 /\ WithImmediate(10) = 10
    BY DEF WithImmediate, IMMEDIATE
  <2>3. QED
    BY <2>1, <2>2 DEF IMMEDIATE
<1>7. /\ c \in Memory /\ c[h] = d.kind + IMMEDIATE
      /\ \A x \in Ram : x # h => c[x] = b[x]
  <2>1. d.kind + IMMEDIATE \in 0 .. 255
    <3>1. \A v \in Kinds : v + IMMEDIATE \in 0 .. 255
      BY DEF Kinds, TEXT, VAR, CONST, IMMEDIATE
    <3>2. QED
      BY <1>4, <3>1
  <2>2. c = [b EXCEPT ![h] = d.kind + IMMEDIATE]
    BY <1>6
  <2> HIDE DEF c, d
  <2>3. QED
    BY <1>2, <1>4, <2>1, <2>2 DEF Memory
<1> HIDE DEF c
<1>8. Newest(c) = h /\ LastUsed(c) = LastUsed(b)
  <2>1. \A x \in FirstCell : x \in Ram /\ c[x] = b[x]
    BY <1>5, <1>7, SystemCells
  <2>2. \A x \in SecondCell : x \in Ram /\ c[x] = b[x]
    BY <1>5, <1>7, SystemCells
  <2>3. Newest(c) = Newest(b)
    BY <1>1, <1>2, <2>1, SameCell DEF FirstCell, Newest
  <2>4. LastUsed(c) = LastUsed(b)
    BY <1>1, <1>2, <2>2, SameCell DEF SecondCell, LastUsed
  <2>5. QED
    BY <2>3, <2>4 DEF h
<1> HIDE DEF n
<1>9. ASSUME NEW k \in 1 .. n
      PROVE  Laid(c, ds[k], Before(ds, k))
  <2>1. IsWord(ds[k]) /\ Laid(b, ds[k], Before(ds, k))
    BY <1>2 DEF InOrder, Chained, n
  <2>2. ds[k].at \in Nat /\ DictBase <= ds[k].at /\ TextPlace(ds[k]) \in Nat /\ TextPlace(ds[k]) <= RamEnd
    BY <2>1, WordPlaces
  <2>3. ds[k].at \in Ram
    BY <2>1 DEF IsWord
  <2>4. CASE k = n
    <3>1. c[ds[k].at] = ds[k].kind + IMMEDIATE
      BY <1>2, <1>7, <2>4
    <3>2. \A x \in (ds[k].at + 1) .. (TextPlace(ds[k]) - 1) : x \in Ram /\ x # h
      BY <1>1, <1>2, <2>2, <2>3, <2>4, RamIs
    <3>3. \A x \in (ds[k].at + 1) .. (TextPlace(ds[k]) - 1) : c[x] = b[x]
      BY <1>7, <3>2
    <3>4. c[ds[k].at] \in {ds[k].kind, ds[k].kind + IMMEDIATE}
      BY <3>1
    <3>5. QED
      BY <1>2, <2>1, <3>3, <3>4, LaidStays
  <2>5. CASE k # n
    <3>1. TextPlace(ds[k]) <= h
      BY <1>2, <2>5 DEF InOrder, n
    <3>2. \A x \in ds[k].at .. (TextPlace(ds[k]) - 1) : x \in Ram /\ x # h
      BY <1>1, <1>4, <2>2, <2>3, <3>1, RamIs
    <3>3. \A x \in ds[k].at .. (TextPlace(ds[k]) - 1) : c[x] = b[x]
      BY <1>7, <3>2
    <3>4. ds[k].at < TextPlace(ds[k])
      <4>1. /\ LinkOf(ds[k]) \in Nat /\ Len(Short(ds[k])) \in Nat /\ CELL \in Nat
            /\ ds[k].at + Len(Short(ds[k])) + 2 <= LinkOf(ds[k]) /\ TextPlace(ds[k]) = LinkOf(ds[k]) + CELL
        BY <1>1, <2>1, WordPlaces
      <4>2. QED
        BY <2>2, <4>1
    <3>5. c[ds[k].at] = b[ds[k].at] /\ \A x \in (ds[k].at + 1) .. (TextPlace(ds[k]) - 1) : c[x] = b[x]
      BY <2>2, <3>3, <3>4
    <3>6. c[ds[k].at] \in {ds[k].kind, ds[k].kind + IMMEDIATE}
      BY <2>1, <3>5 DEF Laid
    <3>7. QED
      BY <1>2, <2>1, <3>5, <3>6, LaidStays
  <2>6. QED
    BY <2>4, <2>5
<1>10. \A x \in Ram : x >= LastUsed(c) + CELL => c[x] = 0
  <2>1. h < LastUsed(b) + CELL
    BY <1>1, <1>2, <1>4 DEF n
  <2>2. \A x \in Ram : x >= LastUsed(c) + CELL => x # h
    BY <1>1, <1>2, <1>4, <1>8, <2>1
  <2>3. QED
    BY <1>2, <1>7, <1>8, <2>2
<1>11. Holds(c, ds)
  BY <1>2, <1>7, <1>8, <1>9, <1>10 DEF Holds, Chained, n
<1>12. QED
  BY <1>7, <1>8, <1>11 DEF c, h, n

-----------------------------------------------------------------------------
(* Code. *)

\* A cell compiled behind the last one.
LEMMA CellCompiled ==
    ASSUME NEW b, NEW ds, Holds(b, ds), NEW w, FitsCell(w),
           LastUsed(b) + 2 * CELL <= RamEnd
    PROVE  LET a == LastUsed(b) + CELL
               c == SetLastUsed(Stored(b, a, <<w>>), a)
           IN  /\ Holds(c, ds) /\ Keeps(b, c) /\ LastUsed(c) = a
               /\ Cell(c, a) = w
<1> DEFINE a == LastUsed(b) + CELL
           e == Stored(b, a, <<w>>)
           c == SetLastUsed(e, a)
<1>1. /\ CELL \in Nat \ {0} /\ RamEnd \in Nat /\ SecondText \in Nat /\ DictBase \in Nat
      /\ DictBase <= SecondText
  BY SystemPlaces
<1>2. /\ LastUsed(b) \in SecondText .. (RamEnd - CELL) /\ b \in Memory
      /\ \A x \in Ram : x >= LastUsed(b) + CELL => b[x] = 0
  BY DEF Holds
<1>3. /\ a \in Nat /\ a = LastUsed(b) + CELL /\ a \in LastUsed(b) .. (RamEnd - CELL)
  BY <1>1, <1>2
<1> HIDE DEF a
<1>4. \A x \in a .. (a + CELL - 1) : x \in Ram
  BY <1>1, <1>2, <1>3, RamIs
<1>5. /\ e \in Memory /\ Cell(e, a) = w
      /\ \A x \in Ram : x \notin a .. (a + CELL - 1) => e[x] = b[x]
  <2>1. a .. (a + CELL - 1) \subseteq Ram
    BY <1>4
  <2>2. QED
    BY <1>2, <1>3, <2>1, OneStored
<1> HIDE DEF e
<1>6. \A x \in Ram : x < LastUsed(b) + CELL => e[x] = b[x]
  BY <1>3, <1>5
<1>7. \A x \in Ram : x >= a + CELL => e[x] = 0
  <2>1. \A x \in Ram : x >= a + CELL => x \notin a .. (a + CELL - 1) /\ x >= LastUsed(b) + CELL
    BY <1>1, <1>3, RamIs
  <2>2. QED
    BY <1>2, <1>5, <2>1
<1>8. /\ Holds(c, ds) /\ Keeps(b, c) /\ LastUsed(c) = a
      /\ \A x \in Ram : x >= LastUsed(b) + CELL => c[x] = e[x]
  BY <1>3, <1>5, <1>6, <1>7, HereSet
<1> HIDE DEF c
<1>9. Cell(c, a) = w
  <2>1. \A x \in a .. (a + CELL - 1) : x \in Ram /\ x >= LastUsed(b) + CELL
    BY <1>1, <1>3, <1>4
  <2>2. \A x \in a .. (a + CELL - 1) : x \in Ram /\ c[x] = e[x]
    BY <1>8, <2>1
  <2>3. QED
    BY <1>3, <1>5, <2>2, SameCell
<1>10. QED
  BY <1>8, <1>9 DEF a, c, e

\* The cells in front of a text.
LEMMA QuoteCodeIs ==
    ASSUME NEW n
    PROVE  /\ Len(QuoteCode(n)) = 15
           /\ \A j \in 1 .. 15 : QuoteCode(n)[j] \in {1, n, 10 * CELL}
           /\ QuoteCode(n)[2] = n /\ QuoteCode(n)[4] = n /\ QuoteCode(n)[8] = 10 * CELL
  BY DEF QuoteCode

\* A multiple of a cell is some cells.
LEMMA MultipleIs ==
    ASSUME NEW a \in Nat, a % CELL = 0
    PROVE  \E q \in Nat : a = CELL * q
<1>1. CELL \in Nat \ {0}
  BY CellAssumption
<1>2. QED
  BY <1>1

\* A number less than a cell is what is left of it and some cells.
LEMMA Remainder ==
    ASSUME NEW m \in Nat, NEW r \in 0 .. (CELL - 1)
    PROVE  (CELL * m + r) % CELL = r
<1>1. CELL \in Nat \ {0}
  BY CellAssumption
<1>2. QED
  BY <1>1

\* HERE is put on the cell with the last character of a text of n characters
\* at a, one cell before what the step over the text leads to.
LEMMA QuoteEndIs ==
    ASSUME NEW a \in Nat, NEW n \in Nat, a % CELL = 0, a > 0
    PROVE  /\ QuoteEnd(a, n) \in Int
           /\ QuoteEnd(a, n) % CELL = 0
           /\ a + n - CELL <= QuoteEnd(a, n) /\ QuoteEnd(a, n) <= a + n - 1
           /\ QuoteEnd(a, n) + CELL = a + CELL * QuoteSkip(n)
<1>1. CELL \in Nat \ {0}
  BY CellAssumption
<1>2. PICK j \in Nat : a = CELL * j
  BY <1>1
<1>3. PICK k \in Nat : /\ CELL * k <= n + CELL - 1 /\ n + CELL - 1 < CELL * k + CELL
                       /\ k = (n + CELL - 1) \div CELL
  BY <1>1
<1>4. CELL * k \in Nat /\ CELL * j \in Nat
  BY <1>1, <1>2, <1>3
<1>5. QuoteSkip(n) = k
  <2>1. Aligned(n) = CELL * k
    BY <1>3 DEF Aligned
  <2>2. (CELL * k) \div CELL = k
    BY <1>1, <1>3
  <2>3. QED
    BY <2>1, <2>2 DEF QuoteSkip
<1>6. j + k - 1 \in Nat
  <2>1. j # 0
    BY <1>1, <1>2
  <2>2. QED
    BY <1>2, <1>3, <2>1
<1>7. PICK m \in Nat : m = j + k - 1
  BY <1>6
<1>8. CELL * (m + 1) = CELL * (j + k) /\ CELL * (j + k) = CELL * j + CELL * k
      /\ CELL * (m + 1) = CELL * m + CELL /\ CELL * m \in Nat
  BY <1>1, <1>2, <1>3, <1>7
<1>9. PICK r \in Int : r = (a + n - 1) - CELL * m
  BY <1>1, <1>8
<1>10. r \in 0 .. (CELL - 1) /\ a + n - 1 = CELL * m + r
  BY <1>1, <1>2, <1>3, <1>4, <1>8, <1>9
<1>11. (CELL * m + r) % CELL = r
  BY <1>10, Remainder
<1>12. QuoteEnd(a, n) = CELL * m
  BY <1>8, <1>10, <1>11 DEF QuoteEnd
<1>13. (CELL * m) % CELL = 0
  BY <1>1, <1>7
<1>14. a + n - CELL <= CELL * m /\ CELL * m <= a + n - 1
  BY <1>1, <1>8, <1>10
<1>15. CELL * m + CELL = a + CELL * k
  BY <1>2, <1>8
<1>16. QED
  BY <1>5, <1>8, <1>12, <1>13, <1>14, <1>15

\* HERE is at a cell, and there is room for the text and its code.
QuoteRoom(b, text) ==
    /\ text \in Seq(1 .. 255)
    /\ (LastUsed(b) + CELL) % CELL = 0
    /\ Aligned(LastUsed(b) + CELL + CELL * 15 + Len(text)) + CELL <= RamEnd

\* A text compiled behind the last cell, with the code in front of it.
LEMMA QuoteCompiled ==
    ASSUME NEW b, NEW ds, Holds(b, ds), NEW text, QuoteRoom(b, text)
    PROVE  LET n == Len(text)
               code == LastUsed(b) + CELL
               a == code + CELL * 15
               c == SetLastUsed(Copied(Stored(b, code, QuoteCode(n)), a, text), QuoteEnd(a, n))
           IN  /\ Holds(c, ds) /\ Keeps(b, c) /\ LastUsed(c) = QuoteEnd(a, n)
               /\ LastUsed(c) % CELL = 0 /\ LastUsed(c) \in Nat /\ LastUsed(b) <= LastUsed(c)
               /\ LastUsed(c) + CELL = code + CELL * (15 + QuoteSkip(n))
               /\ Cell(c, code + CELL) = n /\ Cell(c, code + 3 * CELL) = n
               /\ Cell(c, code + 7 * CELL) = 10 * CELL
               /\ \A x \in 1 .. n : c[a + x - 1] = text[x]
<1> DEFINE n == Len(text)
           code == LastUsed(b) + CELL
           a == code + CELL * 15
           ws == QuoteCode(n)
           e == Stored(b, code, ws)
           f == Copied(e, a, text)
           q == QuoteEnd(a, n)
           c == SetLastUsed(f, q)
<1>1. /\ CELL \in Nat \ {0} /\ RamEnd \in Nat /\ SecondText \in Nat /\ DictBase \in Nat
      /\ DictBase <= SecondText /\ DictBase # 0
  BY SystemPlaces
<1>2. /\ LastUsed(b) \in SecondText .. (RamEnd - CELL) /\ b \in Memory
      /\ \A x \in Ram : x >= LastUsed(b) + CELL => b[x] = 0
  BY DEF Holds
<1>3. n \in Nat
  BY DEF QuoteRoom
<1>4. /\ code \in Nat /\ code = LastUsed(b) + CELL /\ DictBase <= code
      /\ a \in Nat /\ a = code + 15 * CELL /\ code + CELL <= a /\ a > 0
      /\ LastUsed(b) \in Nat
  <2>1. LastUsed(b) \in Nat /\ code \in Nat /\ code = LastUsed(b) + CELL /\ DictBase <= code
    BY <1>1, <1>2
  <2> HIDE DEF code
  <2>2. CELL * 15 = 15 * CELL /\ 15 * CELL \in Nat
    BY <1>1
  <2>3. QED
    BY <1>1, <2>1, <2>2
<1>5. a % CELL = 0
  <2>1. code % CELL = 0
    BY DEF QuoteRoom
  <2> HIDE DEF code, a
  <2>2. PICK i \in Nat : code = CELL * i
    BY <1>4, <2>1, MultipleIs
  <2>3. a = CELL * (i + 15) /\ i + 15 \in Nat
    BY <1>1, <1>4, <2>2
  <2>4. (CELL * (i + 15)) % CELL = 0
    BY <1>1, <2>3
  <2>5. QED
    BY <2>3, <2>4
<1>6. a + n + CELL <= RamEnd
  <2>1. a + n \in Nat
    BY <1>3, <1>4
  <2>2. Aligned(a + n) \in Nat /\ a + n <= Aligned(a + n)
    BY <2>1, AlignedIs
  <2>3. Aligned(a + n) + CELL <= RamEnd
    BY DEF QuoteRoom
  <2> HIDE DEF a, n
  <2>4. QED
    BY <1>1, <2>1, <2>2, <2>3
<1> HIDE DEF n, code, a
<1>7. q \in Int /\ a + n - CELL <= q /\ q <= a + n - 1
  BY <1>3, <1>4, <1>5, QuoteEndIs
<1>8. q % CELL = 0 /\ q + CELL = a + CELL * QuoteSkip(n)
  BY <1>3, <1>4, <1>5, QuoteEndIs
<1> HIDE DEF q
<1>9. q \in LastUsed(b) .. (RamEnd - CELL)
  BY <1>1, <1>2, <1>3, <1>4, <1>6, <1>7
<1>10. /\ Len(ws) = 15 /\ \A j \in 1 .. 15 : ws[j] \in {1, n, 10 * CELL}
      /\ ws[2] = n /\ ws[4] = n /\ ws[8] = 10 * CELL
  BY QuoteCodeIs
<1>11. Storable(code, ws)
  <2>1. {1, n, 10 * CELL} \subseteq 0 .. RamEnd
    BY <1>1, <1>3, <1>4, <1>6
  <2>2. \A j \in 1 .. 15 : ws[j] \in 0 .. RamEnd
    BY <1>10, <2>1
  <2>3. \A j \in 1 .. 15 : FitsCell(ws[j])
    BY <2>2, AddressFits
  <2>4. ws \in Seq(Nat)
    <3>1. {1, n, 10 * CELL} \subseteq Nat
      BY <1>1, <1>3
    <3>2. QED
      BY <3>1 DEF QuoteCode
  <2>5. \A x \in code .. (code + CELL * 15 - 1) : x \in Ram
    BY <1>1, <1>3, <1>4, <1>6, RamIs
  <2>6. code .. (code + CELL * 15 - 1) \subseteq Ram
    BY <2>5
  <2>7. QED
    BY <1>4, <1>10, <2>3, <2>4, <2>6 DEF Storable
<1>12. /\ e \in Memory
       /\ \A x \in Ram : x \notin code .. (a - 1) => e[x] = b[x]
       /\ \A j \in 1 .. 15 : Cell(e, code + CELL * (j - 1)) = ws[j]
  <2>1. /\ e \in Memory
        /\ \A x \in Ram : x \notin code .. (code + CELL * Len(ws) - 1) => e[x] = b[x]
        /\ \A j \in 1 .. Len(ws) : Cell(e, code + CELL * (j - 1)) = ws[j]
    BY <1>2, <1>11, StoredIs
  <2>2. code + CELL * Len(ws) - 1 = a - 1
    BY <1>1, <1>4, <1>10
  <2>3. QED
    BY <1>10, <2>1, <2>2
<1> HIDE DEF e
<1>13. /\ f \in Memory
       /\ \A x \in Ram : x \notin a .. (a + n - 1) => f[x] = e[x]
       /\ \A x \in 1 .. n : a + x - 1 \in Ram => f[a + x - 1] = text[x]
  <2>1. text \in Seq(0 .. 255)
    <3> USE DEF QuoteRoom
    <3>1. \A i \in 1 .. Len(text) : text[i] \in 0 .. 255
      <4>1. \A i \in 1 .. Len(text) : text[i] \in 1 .. 255
        BY ElementOfSeq
      <4>2. QED
        BY <4>1
    <3>2. text = [i \in 1 .. Len(text) |-> text[i]] /\ Len(text) \in Nat
      OBVIOUS
    <3>3. [i \in 1 .. Len(text) |-> text[i]] \in Seq(0 .. 255)
      BY <3>1, <3>2, IsASeq
    <3>4. QED
      BY <3>2, <3>3
  <2>2. QED
    BY <1>4, <1>12, <2>1, CopiedIs DEF n
<1> HIDE DEF f
<1>14. \A x \in Ram : x < LastUsed(b) + CELL => f[x] = b[x]
  <2>1. \A x \in Ram : x < LastUsed(b) + CELL => x \notin code .. (a - 1) /\ x \notin a .. (a + n - 1)
    BY <1>1, <1>3, <1>4, RamIs
  <2>2. QED
    BY <1>12, <1>13, <2>1
<1>15. \A x \in Ram : x >= q + CELL => f[x] = 0
  <2>1. \A x \in Ram : x >= q + CELL => /\ x \notin code .. (a - 1) /\ x \notin a .. (a + n - 1)
                                       /\ x >= LastUsed(b) + CELL
    BY <1>1, <1>2, <1>3, <1>4, <1>7, <1>9, RamIs
  <2>2. QED
    BY <1>2, <1>12, <1>13, <2>1
<1>16. /\ Holds(c, ds) /\ Keeps(b, c) /\ LastUsed(c) = q
       /\ \A x \in Ram : x >= LastUsed(b) + CELL => c[x] = f[x]
  BY <1>9, <1>13, <1>14, <1>15, HereSet
<1> HIDE DEF c
<1>17. ASSUME NEW j \in 1 .. 15
       PROVE  Cell(c, code + CELL * (j - 1)) = ws[j]
  <2>1. code + CELL * (j - 1) \in Nat /\ CELL * (j - 1) >= 0 /\ CELL * (j - 1) + CELL <= CELL * 15
    BY <1>1, <1>4
  <2> DEFINE p == code + CELL * (j - 1)
  <2>2. p \in Nat /\ code <= p /\ p + CELL <= a
    BY <1>1, <1>4, <2>1
  <2>3. Cell(e, p) = ws[j]
    BY <1>12
  <2> HIDE DEF p
  <2>4. \A x \in p .. (p + CELL - 1) : x \in Ram /\ x >= LastUsed(b) + CELL /\ x \notin a .. (a + n - 1)
    BY <1>1, <1>3, <1>4, <1>6, <2>2, RamIs
  <2>5. \A x \in p .. (p + CELL - 1) : x \in Ram /\ c[x] = e[x]
    BY <1>13, <1>16, <2>4
  <2>6. QED
    BY <1>12, <2>2, <2>3, <2>5, SameCell DEF p
<1>18. ASSUME NEW x \in 1 .. n
       PROVE  c[a + x - 1] = text[x]
  <2>1. a + x - 1 \in Ram /\ a + x - 1 >= LastUsed(b) + CELL
    BY <1>1, <1>3, <1>4, <1>6, RamIs
  <2>2. QED
    BY <1>13, <1>16, <2>1
<1>19. /\ Cell(c, code + CELL) = n /\ Cell(c, code + 3 * CELL) = n
       /\ Cell(c, code + 7 * CELL) = 10 * CELL
  <2>1. CELL * (2 - 1) = CELL /\ CELL * (4 - 1) = 3 * CELL /\ CELL * (8 - 1) = 7 * CELL
    BY <1>1
  <2>2. /\ Cell(c, code + CELL * (2 - 1)) = n /\ Cell(c, code + CELL * (4 - 1)) = n
        /\ Cell(c, code + CELL * (8 - 1)) = 10 * CELL
    BY <1>10, <1>17
  <2>3. QED
    BY <2>1, <2>2
<1>20. q + CELL = code + CELL * (15 + QuoteSkip(n)) /\ q \in Nat /\ LastUsed(b) <= q
  <2>1. QuoteSkip(n) \in Nat
    <3>1. Aligned(n) \in Nat
      BY <1>3, AlignedIs
    <3>2. QED
      BY <1>1, <3>1 DEF QuoteSkip
  <2>2. CELL * (15 + QuoteSkip(n)) = CELL * 15 + CELL * QuoteSkip(n) /\ CELL * QuoteSkip(n) \in Nat
    BY <1>1, <2>1
  <2>3. QED
    BY <1>1, <1>2, <1>4, <1>9, <1>8, <2>2
<1>21. QED
  BY <1>8, <1>16, <1>18, <1>19, <1>20 DEF a, c, e, f, q, code, n

-----------------------------------------------------------------------------
(* The specification. *)

\* The words that forth_dict_init lays.
System == <<[name |-> FORTH, at |-> FirstHeader, kind |-> VAR, items |-> <<>>],
            [name |-> HERE, at |-> SecondHeader, kind |-> VAR, items |-> <<>>]>>

\* FORTH and HERE, as forth_dict_init lays them.
LEMMA SystemIs ==
    /\ InOrder(System) /\ Len(System) = 2
    /\ System[1].at = FirstHeader /\ System[1].name = FORTH /\ System[1].kind = VAR
    /\ System[2].at = SecondHeader /\ System[2].name = HERE /\ System[2].kind = VAR
    /\ TextPlace(System[1]) = FirstText /\ TextPlace(System[2]) = SecondText
    /\ System[1].items = <<>> /\ System[2].items = <<>>
<1> DEFINE s == System[1]
           t == System[2]
<1>1. /\ Len(System) = 2 /\ System = <<s, t>>
      /\ s.at = FirstHeader /\ s.name = FORTH /\ s.kind = VAR /\ s.items = <<>>
      /\ t.at = SecondHeader /\ t.name = HERE /\ t.kind = VAR /\ t.items = <<>>
      /\ s = [name |-> FORTH, at |-> FirstHeader, kind |-> VAR, items |-> <<>>]
      /\ t = [name |-> HERE, at |-> SecondHeader, kind |-> VAR, items |-> <<>>]
  BY DEF System
<1> HIDE DEF s, t
<1>2. /\ CELL \in Nat \ {0} /\ RamEnd \in Nat /\ DictBase \in Nat /\ FirstHeader = DictBase
      /\ FirstText \in Nat /\ SecondText \in Nat /\ SecondHeader \in Nat
      /\ DictBase < FirstText /\ SecondHeader = FirstText + CELL /\ SecondHeader < SecondText
      /\ SecondText + CELL <= RamEnd
      /\ FirstText = LinkPlace(FirstHeader, FORTH) + CELL
      /\ SecondText = LinkPlace(SecondHeader, HERE) + CELL
  BY SystemPlaces
<1>3. TextPlace(s) = FirstText /\ TextPlace(t) = SecondText
  BY <1>1, <1>2, SystemNames DEF TextPlace, LinkOf, Short
<1>4. FirstHeader \in Ram /\ SecondHeader \in Ram
  BY <1>2, RamIs
<1>5. IsWord(s) /\ IsWord(t)
  <2>1. FirstText <= RamEnd /\ SecondText <= RamEnd
    BY <1>2
  <2>2. VAR \in Kinds
    BY DEF Kinds
  <2>3. QED
    BY <1>1, <1>3, <1>4, <2>1, <2>2, SystemNames DEF IsWord
<1>6. s \in Entries /\ t \in Entries
  <2>1. VAR \in Kinds /\ <<>> \in Seq(Items)
    BY DEF Kinds
  <2>2. QED
    BY <1>1, <1>4, <2>1, SystemNames DEF Entries
<1>7. System \in Seq(Entries)
  BY <1>1, <1>6
<1>8. \A k \in 1 .. 2 : k = 1 \/ k = 2
  OBVIOUS
<1>9. System[1] = s /\ System[2] = t
  BY DEF s, t
<1>10. \A j, k \in 1 .. 2 : j < k => TextPlace(System[j]) <= System[k].at
  <2>1. TextPlace(s) <= t.at
    BY <1>1, <1>2, <1>3
  <2>2. \A j, k \in 1 .. 2 : j < k => j = 1 /\ k = 2
    OBVIOUS
  <2>3. QED
    BY <1>9, <2>1, <2>2
<1>11. \A k \in 1 .. 2 : IsWord(System[k])
  BY <1>5, <1>8, <1>9
<1>12. InOrder(System)
  <2>1. \A k \in 3 .. Len(System) : SecondText + CELL <= System[k].at
    BY <1>1
  <2>2. QED
    BY <1>1, <1>7, <1>9, <1>10, <1>11, <2>1 DEF InOrder
<1>13. QED
  BY <1>1, <1>3, <1>9, <1>12

\* forth_dict_init leaves memory in order.
LEMMA InitHolds == Holds(forth_dict_init, System) /\ LastUsed(forth_dict_init) = SecondText
<1> DEFINE s == System[1]
           t == System[2]
           b1 == forth_dict_add_header(Zeros, FirstHeader, VAR, FORTH, 0)
           b2 == Stored(b1, FirstText, <<SecondHeader>>)
           b3 == forth_dict_add_header(b2, SecondHeader, VAR, HERE, FirstHeader)
           b4 == Stored(b3, SecondText, <<SecondText>>)
<1>1. /\ InOrder(System) /\ Len(System) = 2
      /\ s.at = FirstHeader /\ s.name = FORTH /\ s.kind = VAR
      /\ t.at = SecondHeader /\ t.name = HERE /\ t.kind = VAR
      /\ TextPlace(s) = FirstText /\ TextPlace(t) = SecondText
  BY SystemIs
<1>2. IsWord(s) /\ IsWord(t)
  BY <1>1 DEF InOrder
<1>3. forth_dict_init = b4
  BY DEF forth_dict_init
<1> HIDE DEF s, t, b1, b2, b3, b4
<1>4. /\ CELL \in Nat \ {0} /\ RamEnd \in Nat /\ DictBase \in Nat /\ FirstHeader = DictBase
      /\ FirstText \in Nat /\ SecondText \in Nat /\ SecondHeader \in Nat
      /\ DictBase < FirstText /\ SecondHeader = FirstText + CELL /\ SecondHeader < SecondText
      /\ SecondText + CELL <= RamEnd
  BY SystemPlaces
<1>5. /\ FitsCell(0) /\ FitsCell(SecondHeader) /\ FitsCell(FirstHeader) /\ FitsCell(SecondText)
  <2>1. 0 \in 0 .. RamEnd /\ SecondHeader \in 0 .. RamEnd /\ FirstHeader \in 0 .. RamEnd
        /\ SecondText \in 0 .. RamEnd
    BY <1>4
  <2>2. QED
    BY <2>1, AddressFits
<1>6. FoundAgain(FirstHeader, FORTH) /\ FoundAgain(SecondHeader, HERE)
  BY SystemNames DEF FoundAgain
<1>7. /\ b1 \in Memory /\ Laid(b1, s, 0)
      /\ \A x \in Ram : x >= FirstText => b1[x] = 0
  <2>1. Zeros \in Memory /\ \A x \in Ram : Zeros[x] = 0
    BY DEF Zeros, Memory
  <2>2. FoundAgain(s.at, s.name) /\ b1 = forth_dict_add_header(Zeros, s.at, s.kind, s.name, 0)
    BY <1>1, <1>6 DEF b1
  <2>3. QED
    BY <1>1, <1>2, <1>5, <2>1, <2>2, HeaderIs
<1>8. /\ b2 \in Memory /\ Cell(b2, FirstText) = SecondHeader
      /\ \A x \in Ram : x \notin FirstCell => b2[x] = b1[x]
  BY <1>4, <1>5, <1>7, SystemCells, OneStored DEF b2, FirstCell
<1>9. \A x \in Ram : x >= SecondHeader => b2[x] = 0
  <2>1. \A x \in Ram : x >= SecondHeader => x \notin FirstCell /\ x >= FirstText
    BY <1>4, RamIs, SystemCells
  <2>2. QED
    BY <1>7, <1>8, <2>1
<1>10. /\ b3 \in Memory /\ Laid(b3, t, FirstHeader)
       /\ \A x \in Ram : x < SecondHeader => b3[x] = b2[x]
       /\ \A x \in Ram : x >= SecondText => b3[x] = 0
  <2>1. FoundAgain(t.at, t.name) /\ b3 = forth_dict_add_header(b2, t.at, t.kind, t.name, FirstHeader)
    BY <1>1, <1>6 DEF b3
  <2>2. \A x \in Ram : x >= t.at => b2[x] = 0
    BY <1>1, <1>9
  <2>3. QED
    BY <1>1, <1>2, <1>5, <1>8, <2>1, <2>2, HeaderIs
<1>11. /\ b4 \in Memory /\ Cell(b4, SecondText) = SecondText
       /\ \A x \in Ram : x \notin SecondCell => b4[x] = b3[x]
  BY <1>4, <1>5, <1>10, SystemCells, OneStored DEF b4, SecondCell
<1>12. Newest(b4) = SecondHeader
  <2>1. \A x \in FirstCell : x \in Ram /\ x < SecondHeader /\ x \notin SecondCell
    BY SystemCells
  <2>2. \A x \in FirstCell : x \in Ram /\ b4[x] = b2[x]
    BY <1>10, <1>11, <2>1
  <2>3. QED
    BY <1>4, <1>8, <2>2, SameCell DEF FirstCell, Newest
<1>13. LastUsed(b4) = SecondText
  BY <1>11 DEF LastUsed
<1>14. \A x \in Ram : x < SecondText => x \notin SecondCell
  BY <1>4, RamIs DEF SecondCell
<1>15. Laid(b4, s, 0)
  <2>1. \A x \in FirstHeader .. (FirstText - 1) : x \in Ram /\ x < SecondText /\ x < SecondHeader
    BY <1>4, RamIs
  <2>2. \A x \in FirstHeader .. (FirstText - 1) : x \notin FirstCell
    BY <1>4 DEF FirstCell
  <2>3. \A x \in FirstHeader .. (FirstText - 1) : b4[x] = b1[x]
    BY <1>8, <1>10, <1>11, <1>14, <2>1, <2>2
  <2>4. b4[s.at] = b1[s.at] /\ \A x \in (s.at + 1) .. (TextPlace(s) - 1) : b4[x] = b1[x]
    BY <1>1, <1>4, <2>3
  <2>5. b4[s.at] \in {s.kind, s.kind + IMMEDIATE}
    BY <1>7, <2>4 DEF Laid
  <2>6. QED
    BY <1>2, <1>7, <2>4, <2>5, LaidStays
<1>16. Laid(b4, t, FirstHeader)
  <2>1. \A x \in SecondHeader .. (SecondText - 1) : x \in Ram /\ x < SecondText
    BY <1>4, RamIs
  <2>2. \A x \in SecondHeader .. (SecondText - 1) : b4[x] = b3[x]
    BY <1>11, <1>14, <2>1
  <2>3. b4[t.at] = b3[t.at] /\ \A x \in (t.at + 1) .. (TextPlace(t) - 1) : b4[x] = b3[x]
    BY <1>1, <1>4, <2>2
  <2>4. b4[t.at] \in {t.kind, t.kind + IMMEDIATE}
    BY <1>10, <2>3 DEF Laid
  <2>5. QED
    BY <1>2, <1>10, <2>3, <2>4, LaidStays
<1>17. \A x \in Ram : x >= SecondText + CELL => b4[x] = 0
  <2>1. \A x \in Ram : x >= SecondText + CELL => x \notin SecondCell /\ x >= SecondText
    BY <1>4, RamIs DEF SecondCell
  <2>2. QED
    BY <1>10, <1>11, <2>1
<1>18. Chained(b4, System)
  <2>1. \A k \in 1 .. 2 : k = 1 \/ k = 2
    OBVIOUS
  <2>2. Before(System, 1) = 0 /\ Before(System, 2) = FirstHeader
    BY <1>1 DEF Before, s
  <2>3. QED
    BY <1>1, <1>15, <1>16, <2>1, <2>2 DEF Chained, s, t
<1>19. \A k \in 1 .. Len(System) : TextPlace(System[k]) <= LastUsed(b4) + CELL
  <2>1. \A k \in 1 .. 2 : k = 1 \/ k = 2
    OBVIOUS
  <2>2. TextPlace(System[1]) = FirstText /\ TextPlace(System[2]) = SecondText
    BY <1>1 DEF s, t
  <2>3. FirstText <= LastUsed(b4) + CELL /\ SecondText <= LastUsed(b4) + CELL
    BY <1>4, <1>13
  <2>4. QED
    BY <1>1, <2>1, <2>2, <2>3
<1>20. LastUsed(b4) \in SecondText .. (RamEnd - CELL)
  BY <1>4, <1>13
<1>21. Newest(b4) = System[Len(System)].at
  BY <1>1, <1>12 DEF t
<1>22. QED
  BY <1>1, <1>3, <1>11, <1>13, <1>17, <1>18, <1>19, <1>20, <1>21 DEF Holds

\* What a defining word remembers is a word.
LEMMA NewWordIs ==
    ASSUME NEW b, NEW ds, Holds(b, ds), NEW name \in Names, NEW kind \in Kinds,
           FoundAgain(HeaderPlace(b), name),
           LinkPlace(HeaderPlace(b), name) + 2 * CELL <= RamEnd
    PROVE  LET d == [name |-> name, at |-> HeaderPlace(b), kind |-> kind, items |-> <<>>]
           IN  /\ d \in Entries /\ IsWord(d)
               /\ LinkOf(d) = LinkPlace(HeaderPlace(b), name) /\ LinkOf(d) \in Nat
               /\ LinkOf(d) % CELL = 0 /\ HeaderPlace(b) < LinkOf(d)
<1> DEFINE h == HeaderPlace(b)
           d == [name |-> name, at |-> h, kind |-> kind, items |-> <<>>]
<1>1. /\ CELL \in Nat \ {0} /\ RamEnd \in Nat /\ SecondText \in Nat /\ DictBase \in Nat
      /\ DictBase <= SecondText
  BY SystemPlaces
<1>2. LastUsed(b) \in SecondText .. (RamEnd - CELL)
  BY DEF Holds
<1>3. h \in Nat /\ DictBase <= h
  BY <1>1, <1>2 DEF HeaderPlace
<1>4. name \in Seq(1 .. 255)
  BY NameAssumption
<1>5. Len(name) \in Nat
  BY <1>4
<1> HIDE DEF h
<1>6. /\ LinkPlace(h, name) \in Nat /\ h + Len(name) + 2 <= LinkPlace(h, name)
      /\ LinkPlace(h, name) % CELL = 0
  BY <1>3, <1>5, LinkPlaceIs
<1>7. h < LinkPlace(h, name) /\ LinkPlace(h, name) + CELL <= RamEnd
  <2>1. LinkPlace(h, name) + 2 * CELL <= RamEnd
    BY DEF h
  <2>2. h < LinkPlace(h, name)
    BY <1>3, <1>5, <1>6
  <2>3. QED
    BY <1>1, <1>6, <2>1, <2>2
<1>8. h \in Ram
  BY <1>1, <1>3, <1>6, <1>7, RamIs
<1>9. d.name = name /\ d.at = h /\ d.kind = kind /\ d \in Entries
  <2>1. <<>> \in Seq(Items)
    OBVIOUS
  <2>2. QED
    BY <1>4, <1>8, <2>1 DEF Entries
<1> HIDE DEF d
<1>10. LinkOf(d) = LinkPlace(h, name)
  BY <1>9 DEF LinkOf, Short, FoundAgain, h
<1>11. IsWord(d)
  BY <1>4, <1>7, <1>8, <1>9, <1>10 DEF IsWord, TextPlace
<1>12. QED
  BY <1>6, <1>7, <1>9, <1>10, <1>11 DEF d, h

\* A word that is defined: its header, FORTH and HERE.
LEMMA WordAdded ==
    ASSUME NEW b, NEW ds, Holds(b, ds), NEW name \in Names, NEW kind \in Kinds,
           FoundAgain(HeaderPlace(b), name),
           LinkPlace(HeaderPlace(b), name) + 2 * CELL <= RamEnd
    PROVE  LET h == HeaderPlace(b)
               d == [name |-> name, at |-> h, kind |-> kind, items |-> <<>>]
               c == SetLastUsed(SetNewest(forth_dict_add_header(b, h, kind, name, Newest(b)), h),
                                LinkPlace(h, name))
           IN  /\ Holds(c, Append(ds, d)) /\ Keeps(b, c) /\ LastUsed(c) = LinkOf(d)
               /\ LastUsed(c) % CELL = 0 /\ LastUsed(c) \in Nat
               /\ LastUsed(b) \in Nat /\ LastUsed(b) <= LastUsed(c)
               /\ LastUsed(c) + 2 * CELL <= RamEnd /\ c[h] = kind
               /\ h \in Ram /\ SecondText + CELL <= h /\ h < LastUsed(c)
<1> DEFINE h == HeaderPlace(b)
           d == [name |-> name, at |-> h, kind |-> kind, items |-> <<>>]
<1>1. /\ d \in Entries /\ IsWord(d) /\ LinkOf(d) = LinkPlace(h, name) /\ LinkOf(d) \in Nat
      /\ LinkOf(d) % CELL = 0 /\ h < LinkOf(d)
  BY NewWordIs
<1>2. d.at = h /\ d.name = name /\ d.kind = kind
  OBVIOUS
<1> HIDE DEF d
<1>3. Holds(HeaderOf(b, d), Append(ds, d)) /\ Keeps(b, HeaderOf(b, d)) /\ LastUsed(HeaderOf(b, d)) = LinkOf(d)
      /\ HeaderOf(b, d)[h] = kind
  BY <1>1, <1>2, HeaderAdded
<1>4. HeaderOf(b, d) =
         SetLastUsed(SetNewest(forth_dict_add_header(b, h, kind, name, Newest(b)), h), LinkPlace(h, name))
  BY <1>2 DEF HeaderOf
<1>5. LastUsed(b) \in Nat /\ LastUsed(b) <= LinkOf(d) /\ SecondText + CELL <= h
  <2>1. LastUsed(b) \in SecondText .. (RamEnd - CELL)
    BY DEF Holds
  <2>2. h = LastUsed(b) + CELL
    BY DEF HeaderPlace
  <2> HIDE DEF h
  <2>3. QED
    BY <1>1, <2>1, <2>2, SystemPlaces
<1>6. h \in Ram /\ LastUsed(HeaderOf(b, d)) + 2 * CELL <= RamEnd
  BY <1>1, <1>2, <1>3 DEF IsWord
<1>7. QED
  BY <1>1, <1>3, <1>4, <1>5, <1>6 DEF d

\* The inductive invariant.
LEMMA LayoutInvInit == Init => LayoutInv
<1> SUFFICES ASSUME Init PROVE LayoutInv
  OBVIOUS
<1>1. bytes = forth_dict_init /\ compiling = FALSE /\ defined = System
  BY DEF Init, System
<1>2. QED
  BY <1>1, InitHolds DEF LayoutInv

\* The words a step may write to apart from what is behind HERE.
StepKeeps ==
    \A x \in Ram : x < LastUsed(bytes) + CELL =>
        bytes'[x] = bytes[x] \/ x \in FirstCell \/ x \in SecondCell \/ x = Newest(bytes)

\* : lays a header behind the last cell, and HERE on its link.
LEMMA ColonKeeps ==
    ASSUME LayoutInv, NEW name \in Names, colon_handler(name)
    PROVE  /\ LayoutInv' /\ Keeps(bytes, bytes') /\ bytes'[HeaderPlace(bytes)] = TEXT
           /\ LastUsed(bytes) <= LastUsed(bytes')
           /\ LastUsed(bytes') = LinkPlace(HeaderPlace(bytes), Compared(name))
<1> DEFINE h == HeaderPlace(bytes)
<1>1. Holds(bytes, defined) /\ FoundAgain(h, name) /\ LinkPlace(h, name) + 2 * CELL <= RamEnd
  BY DEF LayoutInv, colon_handler, RoomFor
<1>2. TEXT \in Kinds
  BY DEF Kinds
<1>3. bytes' = SetLastUsed(SetNewest(forth_dict_add_header(bytes, h, TEXT, name, Newest(bytes)), h),
                           LinkPlace(h, name))
  BY DEF colon_handler, AddedHeader
<1>4. defined' = Append(defined, [name |-> name, at |-> h, kind |-> TEXT, items |-> <<>>])
  BY DEF colon_handler, Remembered
<1> HIDE DEF h
<1>5. /\ Holds(bytes', defined') /\ Keeps(bytes, bytes') /\ LastUsed(bytes') % CELL = 0
      /\ bytes'[h] = TEXT /\ LastUsed(bytes) <= LastUsed(bytes')
      /\ LastUsed(bytes') = LinkPlace(h, Compared(name))
  <2> DEFINE d == [name |-> name, at |-> h, kind |-> TEXT, items |-> <<>>]
  <2>1. LinkOf(d) = LinkPlace(h, Compared(name))
    BY DEF LinkOf, Short
  <2>2. /\ Holds(bytes', defined') /\ Keeps(bytes, bytes') /\ LastUsed(bytes') % CELL = 0
        /\ bytes'[h] = TEXT /\ LastUsed(bytes) <= LastUsed(bytes') /\ LastUsed(bytes') = LinkOf(d)
    BY <1>1, <1>2, <1>3, <1>4, WordAdded DEF h
  <2>3. QED
    BY <2>1, <2>2
<1>6. compiling' = TRUE
  BY DEF colon_handler
<1>7. QED
  BY <1>5, <1>6 DEF LayoutInv, h

\* VARIABLE and CONSTANT lay a header and its value behind the last cell.
LEMMA AddValueKeeps ==
    ASSUME LayoutInv, NEW name \in Names, NEW value \in Codes, NEW kind \in Kinds,
           AddValue(kind, name, value)
    PROVE  /\ LayoutInv' /\ Keeps(bytes, bytes') /\ bytes'[HeaderPlace(bytes)] = kind
           /\ LastUsed(bytes) <= LastUsed(bytes')
<1> DEFINE h == HeaderPlace(bytes)
           b == AddedHeader(kind, name)
           a == LastUsed(b) + CELL
           d == [name |-> name, at |-> h, kind |-> kind, items |-> <<>>]
<1>1. Holds(bytes, defined) /\ FoundAgain(h, name) /\ LinkPlace(h, name) + 2 * CELL <= RamEnd
  BY DEF LayoutInv, AddValue, RoomFor
<1>2. b = SetLastUsed(SetNewest(forth_dict_add_header(bytes, h, kind, name, Newest(bytes)), h),
                      LinkPlace(h, name))
  BY DEF AddedHeader
<1>3. /\ bytes' = Stored(SetLastUsed(b, a), a, <<value>>)
      /\ defined' = Append(defined, d) /\ compiling = FALSE /\ compiling' = compiling
  BY DEF AddValue, Remembered, LayoutInv
<1> HIDE DEF h, b
<1>4. /\ Holds(b, Append(defined, d)) /\ Keeps(bytes, b) /\ LastUsed(b) \in Nat
      /\ LastUsed(bytes) \in Nat /\ LastUsed(bytes) <= LastUsed(b)
      /\ LastUsed(b) + 2 * CELL <= RamEnd /\ b[h] = kind
      /\ h \in Ram /\ SecondText + CELL <= h /\ h < LastUsed(b)
  BY <1>1, <1>2, WordAdded DEF h
<1>5. FitsCell(value)
  BY NameAssumption
<1> HIDE DEF d
<1>6. Holds(bytes', defined') /\ Keeps(b, bytes') /\ LastUsed(bytes') = a
  BY <1>3, <1>4, <1>5, ValueAdded
<1>7. Keeps(bytes, bytes')
  BY <1>4, <1>6, KeepsBoth
<1>8. bytes'[h] = kind
  <2>1. h \notin FirstCell /\ h \notin SecondCell
    BY <1>4, BehindSystem
  <2>2. h < LastUsed(b) + CELL
    BY <1>4, SystemPlaces, RamIs
  <2>3. QED
    BY <1>4, <1>6, <2>1, <2>2 DEF Keeps
<1>9. LastUsed(bytes) <= LastUsed(bytes')
  BY <1>4, <1>6, CellAssumption
<1>10. QED
  BY <1>3, <1>6, <1>7, <1>8, <1>9 DEF LayoutInv, h

\* ALLOT moves HERE on.
LEMMA AllotKeeps ==
    ASSUME LayoutInv, NEW n \in Nat, allot_handler(n)
    PROVE  LayoutInv' /\ Keeps(bytes, bytes') /\ LastUsed(bytes) <= LastUsed(bytes')
<1> DEFINE a == LastUsed(bytes) + n
<1>1. /\ Holds(bytes, defined) /\ bytes \in Memory /\ LastUsed(bytes) \in SecondText .. (RamEnd - CELL)
      /\ \A x \in Ram : x >= LastUsed(bytes) + CELL => bytes[x] = 0
  BY DEF LayoutInv, Holds
<1>2. /\ bytes' = SetLastUsed(bytes, a) /\ LastUsed(bytes) + n + CELL <= RamEnd
      /\ compiling = FALSE /\ compiling' = compiling /\ defined' = defined
  BY DEF allot_handler, LayoutInv
<1>3. CELL \in Nat /\ SecondText \in Nat /\ RamEnd \in Nat
  BY SystemPlaces
<1>4. a \in LastUsed(bytes) .. (RamEnd - CELL)
  BY <1>1, <1>2, <1>3
<1>5. \A x \in Ram : x >= a + CELL => bytes[x] = 0
  BY <1>1, <1>3, RamIs
<1> HIDE DEF a
<1>6. Holds(bytes', defined) /\ Keeps(bytes, bytes') /\ LastUsed(bytes') = a
  BY <1>1, <1>2, <1>4, <1>5, HereSet
<1>7. QED
  BY <1>2, <1>4, <1>6 DEF LayoutInv

\* ALIGN moves HERE on.
LEMMA AlignKeeps ==
    ASSUME LayoutInv, align_handler
    PROVE  LayoutInv' /\ Keeps(bytes, bytes') /\ LastUsed(bytes) <= LastUsed(bytes')
<1> DEFINE a == Aligned(LastUsed(bytes))
<1>1. /\ Holds(bytes, defined) /\ bytes \in Memory /\ LastUsed(bytes) \in SecondText .. (RamEnd - CELL)
      /\ \A x \in Ram : x >= LastUsed(bytes) + CELL => bytes[x] = 0
  BY DEF LayoutInv, Holds
<1>2. /\ bytes' = SetLastUsed(bytes, a) /\ a + CELL <= RamEnd
      /\ compiling = FALSE /\ compiling' = compiling /\ defined' = defined
  BY DEF align_handler, LayoutInv
<1>3. CELL \in Nat /\ SecondText \in Nat /\ RamEnd \in Nat
  BY SystemPlaces
<1>4. a \in Nat /\ LastUsed(bytes) <= a
  <2>1. LastUsed(bytes) \in Nat
    BY <1>1, <1>3
  <2>2. QED
    BY <2>1, AlignedIs
<1> HIDE DEF a
<1>5. a \in LastUsed(bytes) .. (RamEnd - CELL)
  BY <1>1, <1>2, <1>3, <1>4
<1>6. \A x \in Ram : x >= a + CELL => bytes[x] = 0
  BY <1>1, <1>3, <1>4, RamIs
<1>7. Holds(bytes', defined) /\ Keeps(bytes, bytes') /\ LastUsed(bytes') = a
  BY <1>1, <1>2, <1>5, <1>6, HereSet
<1>8. QED
  BY <1>2, <1>4, <1>7 DEF LayoutInv

\* The compiler and ; write one cell behind the last one.
LEMMA CompilesKeeps ==
    ASSUME LayoutInv, NEW w \in Codes, Compiles(w), compiling' \in BOOLEAN
    PROVE  /\ LayoutInv' /\ Keeps(bytes, bytes')
           /\ LastUsed(bytes') = LastUsed(bytes) + CELL /\ Cell(bytes', LastUsed(bytes) + CELL) = w
<1> DEFINE a == LastUsed(bytes) + CELL
<1>1. /\ Holds(bytes, defined) /\ LastUsed(bytes) \in SecondText .. (RamEnd - CELL)
      /\ LastUsed(bytes) % CELL = 0
  BY DEF LayoutInv, Holds, Compiles
<1>2. /\ bytes' = SetLastUsed(Stored(bytes, a, <<w>>), a)
      /\ defined' = Longer(defined, <<w>>)
      /\ a + CELL <= RamEnd
  BY DEF Compiles, Compiled, Longer
<1>3. CELL \in Nat /\ SecondText \in Nat /\ RamEnd \in Nat
  BY SystemPlaces
<1>4. LastUsed(bytes) \in Nat /\ LastUsed(bytes) + 2 * CELL <= RamEnd
  BY <1>1, <1>2, <1>3
<1>5. FitsCell(w) /\ <<w>> \in Items
  BY NameAssumption DEF Items
<1>6. /\ Holds(bytes', defined) /\ Keeps(bytes, bytes') /\ LastUsed(bytes') = a
      /\ Cell(bytes', a) = w
  BY <1>1, <1>2, <1>4, <1>5, CellCompiled
<1>7. Holds(bytes', defined')
  BY <1>2, <1>5, <1>6, LongerHolds
<1>8. LastUsed(bytes') % CELL = 0
  BY <1>1, <1>4, <1>6, NextMultiple
<1>9. QED
  BY <1>6, <1>7, <1>8 DEF LayoutInv

\* ." writes its cells and its text behind the last cell.
LEMMA QuoteKeeps ==
    ASSUME LayoutInv, NEW text \in Texts, dot_quote_immediate_handler(text)
    PROVE  LET n == Len(text)
               code == LastUsed(bytes) + CELL
               a == code + CELL * 15
           IN  /\ LayoutInv' /\ Keeps(bytes, bytes')
               /\ LastUsed(bytes) <= LastUsed(bytes')
               /\ LastUsed(bytes') + CELL = code + CELL * (15 + QuoteSkip(n))
               /\ Cell(bytes', code + CELL) = n /\ Cell(bytes', code + 3 * CELL) = n
               /\ Cell(bytes', code + 7 * CELL) = 10 * CELL
               /\ \A x \in 1 .. n : bytes'[a + x - 1] = text[x]
<1> DEFINE n == Len(text)
           code == LastUsed(bytes) + CELL
           a == code + CELL * 15
<1>1. /\ Holds(bytes, defined) /\ LastUsed(bytes) \in SecondText .. (RamEnd - CELL)
      /\ LastUsed(bytes) % CELL = 0
  BY DEF LayoutInv, Holds, dot_quote_immediate_handler
<1>2. Len(QuoteCode(n)) = 15
  BY QuoteCodeIs
<1>3. /\ bytes' = SetLastUsed(Copied(Stored(bytes, code, QuoteCode(n)), a, text), QuoteEnd(a, n))
      /\ defined' = Longer(defined, <<"text", text>>)
      /\ Aligned(a + n) + CELL <= RamEnd
      /\ compiling' = compiling
  BY <1>2 DEF dot_quote_immediate_handler, Compiled, Longer
<1>4. QuoteRoom(bytes, text)
  <2>1. LastUsed(bytes) \in Nat
    BY <1>1, SystemPlaces
  <2>2. (LastUsed(bytes) + CELL) % CELL = 0
    BY <1>1, <2>1, NextMultiple
  <2>3. text \in Seq(1 .. 255)
    BY NameAssumption
  <2>4. QED
    BY <1>3, <2>2, <2>3 DEF QuoteRoom
<1>5. /\ Holds(bytes', defined) /\ Keeps(bytes, bytes') /\ LastUsed(bytes') % CELL = 0
      /\ LastUsed(bytes) <= LastUsed(bytes')
      /\ LastUsed(bytes') + CELL = code + CELL * (15 + QuoteSkip(n))
      /\ Cell(bytes', code + CELL) = n /\ Cell(bytes', code + 3 * CELL) = n
      /\ Cell(bytes', code + 7 * CELL) = 10 * CELL
      /\ \A x \in 1 .. n : bytes'[a + x - 1] = text[x]
  BY <1>1, <1>3, <1>4, QuoteCompiled
<1>6. <<"text", text>> \in Items
  BY DEF Items
<1>7. Holds(bytes', defined')
  BY <1>3, <1>5, <1>6, LongerHolds
<1>8. QED
  BY <1>3, <1>5, <1>7 DEF LayoutInv

\* Every step leaves memory in order, and writes behind HERE.
LEMMA LayoutInvNext ==
    ASSUME LayoutInv, [Next]_layoutVars
    PROVE  LayoutInv' /\ StepKeeps
<1>1. Keeps(bytes, bytes') => StepKeeps
  BY DEF Keeps, StepKeeps
<1>2. ASSUME NEW name \in Names, NEW value \in Codes, AddValue(VAR, name, value) \/ AddValue(CONST, name, value)
      PROVE  LayoutInv' /\ StepKeeps
  <2>1. VAR \in Kinds /\ CONST \in Kinds
    BY DEF Kinds
  <2>2. QED
    BY <1>1, <1>2, <2>1, AddValueKeeps
<1>3. ASSUME NEW name \in Names, colon_handler(name)
      PROVE  LayoutInv' /\ StepKeeps
  BY <1>1, <1>3, ColonKeeps
<1>4. ASSUME NEW w \in Codes, Compile(w) \/ semicolon(w)
      PROVE  LayoutInv' /\ StepKeeps
  <2>1. Compiles(w) /\ compiling' \in BOOLEAN
    BY <1>4 DEF Compile, semicolon, LayoutInv
  <2>2. QED
    BY <1>1, <2>1, CompilesKeeps
<1>5. ASSUME NEW text \in Texts, dot_quote_immediate_handler(text)
      PROVE  LayoutInv' /\ StepKeeps
  BY <1>1, <1>5, QuoteKeeps
<1>6. ASSUME NEW n \in Lengths, allot_handler(n) \/ allot_handler(aligned_handler(n))
      PROVE  LayoutInv' /\ StepKeeps
  <2>1. n \in Nat
    BY NameAssumption
  <2>2. aligned_handler(n) \in Nat
    BY <2>1, AlignedIs DEF aligned_handler
  <2>3. QED
    BY <1>1, <1>6, <2>1, <2>2, AllotKeeps
<1>7. ASSUME align_handler
      PROVE  LayoutInv' /\ StepKeeps
  BY <1>1, <1>7, AlignKeeps
<1>8. ASSUME immediate_handler
      PROVE  LayoutInv' /\ StepKeeps
  <2>1. /\ bytes' = [bytes EXCEPT ![Newest(bytes)] = WithImmediate(@)]
        /\ compiling' = compiling /\ defined' = defined /\ Holds(bytes, defined)
    BY <1>8 DEF immediate_handler, LayoutInv
  <2>2. /\ Holds(bytes', defined') /\ LastUsed(bytes') = LastUsed(bytes)
        /\ \A x \in Ram : x # Newest(bytes) => bytes'[x] = bytes[x]
    BY <2>1, ImmediateHolds
  <2>3. QED
    BY <2>1, <2>2 DEF LayoutInv, StepKeeps
<1>9. ASSUME UNCHANGED layoutVars
      PROVE  LayoutInv' /\ StepKeeps
  BY <1>9 DEF layoutVars, LayoutInv, StepKeeps, Holds, LastUsed, Newest
<1>10. QED
  BY <1>2, <1>3, <1>4, <1>5, <1>6, <1>7, <1>8, <1>9 DEF Next

\* Memory is in order in every state.
THEOREM LayoutInOrder == Spec => []LayoutInv
<1>1. LayoutInv /\ [Next]_layoutVars => LayoutInv'
  BY LayoutInvNext
<1>2. QED
  BY <1>1, LayoutInvInit, PTL DEF Spec

\* The RAM holds bytes, HERE stays in it, and code is compiled into whole
\* cells, whatever was allotted and whatever texts are in it.
THEOREM LayoutTyped == Spec => []LayoutTypeOK
<1>1. LayoutInv => LayoutTypeOK
  BY DEF LayoutInv, Holds, LayoutTypeOK, Memory
<1>2. QED
  BY <1>1, LayoutInOrder, PTL

\* What a name of NameCap characters and strncpy rely on: behind HERE the RAM
\* was never written.
THEOREM FreshAbove == Spec => []FreshAboveHere
<1>1. LayoutInv => FreshAboveHere
  <2> SUFFICES ASSUME LayoutInv, NEW a \in (LastUsed(bytes) + CELL) .. (RamEnd - 1)
               PROVE  bytes[a] = 0
    BY DEF FreshAboveHere
  <2>1. /\ LastUsed(bytes) \in SecondText .. (RamEnd - CELL)
        /\ \A x \in Ram : x >= LastUsed(bytes) + CELL => bytes[x] = 0
    BY DEF LayoutInv, Holds
  <2>2. a \in Ram /\ a >= LastUsed(bytes) + CELL
    BY <2>1, SystemPlaces, RamIs
  <2>3. QED
    BY <2>1, <2>2
<1>2. QED
  BY <1>1, LayoutInOrder, PTL

\* No step reaches back into a word or into memory that was allotted.
THEOREM WritesBehind == Spec => WritesBehindHere
<1> DEFINE Behind == \A a \in DictBase .. (LastUsed(bytes) + CELL - 1) :
                        \/ bytes'[a] = bytes[a]
                        \/ a \in FirstText .. (FirstText + CELL - 1)
                        \/ a \in SecondText .. (SecondText + CELL - 1)
                        \/ a = Newest(bytes)
<1>1. LayoutInv /\ [Next]_layoutVars => [Behind]_layoutVars
  <2> SUFFICES ASSUME LayoutInv, [Next]_layoutVars, NEW a \in DictBase .. (LastUsed(bytes) + CELL - 1)
               PROVE  \/ bytes'[a] = bytes[a]
                      \/ a \in FirstCell \/ a \in SecondCell \/ a = Newest(bytes)
    BY DEF FirstCell, SecondCell
  <2>1. LastUsed(bytes) \in SecondText .. (RamEnd - CELL)
    BY DEF LayoutInv, Holds
  <2>2. a \in Ram /\ a < LastUsed(bytes) + CELL
    BY <2>1, SystemPlaces, RamIs
  <2>3. StepKeeps
    BY LayoutInvNext
  <2>4. QED
    BY <2>2, <2>3 DEF StepKeeps
<1>2. QED
  BY <1>1, LayoutInOrder, PTL DEF Spec, WritesBehindHere

-----------------------------------------------------------------------------
(* The links. *)

\* The word that n hops lead to.
WordAfter(ds, n) == ds[Len(ds) - n]

Way(ds) == [n \in 0 .. RamEnd |-> IF n < Len(ds) THEN WordAfter(ds, n).at ELSE 0]

\* Every word lies in the RAM, and not at 0.
LEMMA WordsIs ==
    ASSUME NEW ds, InOrder(ds)
    PROVE  /\ Len(ds) \in Nat /\ Len(ds) >= 2
           /\ \A k \in 1 .. Len(ds) : ds[k].at \in Ram /\ ds[k].at \in 1 .. RamEnd
<1>1. Len(ds) \in Nat /\ Len(ds) >= 2 /\ \A k \in 1 .. Len(ds) : ds[k].at \in Ram
  BY DEF InOrder, IsWord
<1>2. \A x \in Ram : x \in 1 .. RamEnd
  BY SystemPlaces, RamIs
<1>3. QED
  BY <1>1, <1>2

\* There are no more words than bytes: each has an address of its own.
LEMMA WordsFit ==
    ASSUME NEW ds, InOrder(ds)
    PROVE  Len(ds) \in 0 .. RamEnd
<1> DEFINE N == Len(ds)
           S == {k \in 0 .. N : k = 0 \/ k <= ds[k].at}
<1>1. /\ N \in Nat /\ N >= 2 /\ \A k \in 1 .. N : ds[k].at \in 1 .. RamEnd
      /\ RamEnd \in Nat
  BY WordsIs, SystemPlaces
<1>2. \A k \in 1 .. N : ds[k].at \in Nat /\ TextPlace(ds[k]) \in Nat /\ ds[k].at < TextPlace(ds[k])
  <2> SUFFICES ASSUME NEW k \in 1 .. N
               PROVE  ds[k].at \in Nat /\ TextPlace(ds[k]) \in Nat /\ ds[k].at < TextPlace(ds[k])
    OBVIOUS
  <2>1. IsWord(ds[k])
    BY DEF InOrder
  <2>2. /\ ds[k].at \in Nat /\ LinkOf(ds[k]) \in Nat /\ Len(Short(ds[k])) \in Nat /\ CELL \in Nat
        /\ ds[k].at + Len(Short(ds[k])) + 2 <= LinkOf(ds[k]) /\ TextPlace(ds[k]) = LinkOf(ds[k]) + CELL
    BY <2>1, WordPlaces, CellAssumption
  <2>3. QED
    BY <2>2
<1>3. \A j, k \in 1 .. N : j < k => TextPlace(ds[j]) <= ds[k].at
  BY DEF InOrder
<1> HIDE DEF N
<1>4. 0 \in S
  BY <1>1
<1>5. ASSUME NEW n \in 0 .. (N - 1), n \in S
      PROVE  n + 1 \in S
  <2>1. CASE n = 0
    BY <1>1, <2>1
  <2>2. CASE n # 0
    <3>1. n \in 1 .. N /\ n + 1 \in 1 .. N /\ n < n + 1
      BY <1>1, <2>2
    <3>2. n <= ds[n].at /\ TextPlace(ds[n]) <= ds[n + 1].at
      BY <1>3, <1>5, <2>2, <3>1
    <3>3. /\ ds[n].at \in Nat /\ TextPlace(ds[n]) \in Nat /\ ds[n].at < TextPlace(ds[n])
          /\ ds[n + 1].at \in Nat
      BY <1>2, <3>1
    <3>4. n + 1 <= ds[n + 1].at
      BY <3>1, <3>2, <3>3
    <3>5. QED
      BY <3>1, <3>4
  <2>3. QED
    BY <2>1, <2>2
<1> HIDE DEF S
<1>6. N \in S
  BY <1>1, <1>4, <1>5, IntervalInduction
<1>7. N <= ds[N].at /\ ds[N].at \in 1 .. RamEnd
  BY <1>1, <1>6 DEF S
<1>8. QED
  BY <1>1, <1>7 DEF N

\* The links lead from the newest word through all of them, and then to 0.
LEMMA HopsIs ==
    ASSUME NEW b, NEW ds, Holds(b, ds)
    PROVE  Hops(b, Newest(b)) = Way(ds)
<1> DEFINE N == Len(ds)
           h == Newest(b)
           next == [a \in 0 .. RamEnd |-> IF a = 0 THEN 0 ELSE Link(b, a)]
           Def(f) == [n \in 0 .. RamEnd |-> IF n = 0 THEN h ELSE next[f[n - 1]]]
           w == Way(ds)
<1>1. /\ b \in Memory /\ InOrder(ds) /\ Chained(b, ds) /\ h = ds[N].at
  BY DEF Holds
<1>2. /\ N \in Nat /\ N >= 2 /\ RamEnd \in Nat /\ N \in 0 .. RamEnd
      /\ \A k \in 1 .. N : ds[k].at \in 1 .. RamEnd
  BY <1>1, WordsIs, WordsFit, SystemPlaces
<1>3. \A k \in 1 .. N : next[ds[k].at] = Before(ds, k)
  <2> SUFFICES ASSUME NEW k \in 1 .. N PROVE next[ds[k].at] = Before(ds, k)
    OBVIOUS
  <2>1. IsWord(ds[k]) /\ Laid(b, ds[k], Before(ds, k))
    BY <1>1 DEF InOrder, Chained
  <2>2. Link(b, ds[k].at) = Before(ds, k)
    BY <1>1, <2>1, HeaderReadsBack
  <2>3. ds[k].at \in 0 .. RamEnd /\ ds[k].at # 0
    BY <1>2
  <2>4. QED
    BY <2>2, <2>3
<1>4. next[0] = 0
  BY <1>2
<1>5. \A n \in 0 .. RamEnd : w[n] = IF n < N THEN ds[N - n].at ELSE 0
  BY DEF Way, WordAfter
<1> HIDE DEF next, h, N
<1>6. w[0] = h
  <2>1. 0 \in 0 .. RamEnd /\ 0 < N /\ N - 0 = N
    BY <1>2
  <2>2. QED
    BY <1>1, <1>5, <2>1
<1> HIDE DEF w
<1>7. ASSUME NEW n \in 1 .. RamEnd
      PROVE  w[n] = next[w[n - 1]]
  <2>1. n - 1 \in 0 .. RamEnd /\ n \in 0 .. RamEnd
    BY <1>2
  <2>2. CASE n - 1 < N
    <3> DEFINE k == N - (n - 1)
    <3>1. k \in 1 .. N /\ (k = 1 <=> n = N) /\ (n < N => k - 1 = N - n)
      BY <1>2, <2>2
    <3>2. w[n - 1] = ds[k].at
      BY <1>5, <2>1, <2>2
    <3> HIDE DEF k
    <3>3. next[w[n - 1]] = Before(ds, k)
      BY <1>3, <3>1, <3>2
    <3>4. CASE n = N
      <4>1. k = 1 /\ ~(n < N)
        BY <1>2, <3>1, <3>4
      <4>2. w[n] = 0
        BY <1>5, <2>1, <4>1
      <4>3. QED
        BY <3>3, <4>1, <4>2 DEF Before
    <3>5. CASE n # N
      <4>1. n < N /\ k # 1 /\ k - 1 = N - n
        BY <1>2, <2>2, <3>1, <3>5
      <4>2. w[n] = ds[N - n].at
        BY <1>5, <2>1, <4>1
      <4>3. QED
        BY <3>3, <4>1, <4>2 DEF Before
    <3>6. QED
      BY <3>4, <3>5
  <2>3. CASE ~(n - 1 < N)
    <3>1. ~(n < N)
      BY <1>2, <2>3
    <3>2. w[n] = 0 /\ w[n - 1] = 0
      BY <1>5, <2>1, <2>3, <3>1
    <3>3. QED
      BY <1>4, <3>2
  <2>4. QED
    BY <2>2, <2>3
<1>8. w = Def(w)
  <2>1. \A n \in 0 .. RamEnd : n # 0 => n \in 1 .. RamEnd
    BY <1>2
  <2>2. \A n \in 0 .. RamEnd : w[n] = IF n = 0 THEN h ELSE next[w[n - 1]]
    BY <1>6, <1>7, <2>1
  <2>3. w = [n \in 0 .. RamEnd |-> w[n]]
    BY DEF w, Way
  <2>4. QED
    BY <2>2, <2>3
<1> DEFINE g == CHOOSE f : f = Def(f)
<1>9. g = Def(g)
  BY <1>8
<1>10. Hops(b, h) = g
  BY DEF Hops, next
<1> HIDE DEF g
<1>11. g[0] = h /\ \A n \in 1 .. RamEnd : g[n] = next[g[n - 1]]
  <2>1. 0 \in 0 .. RamEnd /\ \A n \in 1 .. RamEnd : n \in 0 .. RamEnd /\ n # 0
    BY <1>2
  <2>2. \A n \in 0 .. RamEnd : g[n] = IF n = 0 THEN h ELSE next[g[n - 1]]
    BY <1>9
  <2>3. QED
    BY <2>1, <2>2
<1> DEFINE S == {n \in 0 .. RamEnd : g[n] = w[n]}
<1>12. 0 \in S
  BY <1>2, <1>6, <1>11
<1>13. ASSUME NEW n \in 0 .. (RamEnd - 1), n \in S
       PROVE  n + 1 \in S
  <2>1. n + 1 \in 1 .. RamEnd /\ (n + 1) - 1 = n /\ n + 1 \in 0 .. RamEnd
    BY <1>2
  <2>2. g[n + 1] = next[g[n]] /\ w[n + 1] = next[w[n]]
    BY <1>7, <1>11, <2>1
  <2>3. QED
    BY <1>13, <2>1, <2>2
<1> HIDE DEF S
<1>14. \A n \in 0 .. RamEnd : n \in S
  BY <1>2, <1>12, <1>13, IntervalInduction
<1>15. g = w
  <2>1. \A n \in 0 .. RamEnd : g[n] = w[n]
    BY <1>14 DEF S
  <2>2. g = [n \in 0 .. RamEnd |-> g[n]]
    BY <1>9
  <2>3. w = [n \in 0 .. RamEnd |-> w[n]]
    BY DEF w, Way
  <2>4. QED
    BY <2>1, <2>2, <2>3
<1>16. QED
  BY <1>10, <1>15 DEF w, h

\* The same, hop by hop.
LEMMA HopIs ==
    ASSUME NEW b, NEW ds, Holds(b, ds), NEW n \in 0 .. RamEnd
    PROVE  /\ n < Len(ds) => /\ Len(ds) - n \in 1 .. Len(ds)
                            /\ Hops(b, Newest(b))[n] = ds[Len(ds) - n].at
                            /\ Hops(b, Newest(b))[n] # 0
           /\ ~(n < Len(ds)) => Hops(b, Newest(b))[n] = 0
<1>1. Len(ds) \in Nat /\ \A k \in 1 .. Len(ds) : ds[k].at \in 1 .. RamEnd
  BY WordsIs DEF Holds
<1>2. Hops(b, Newest(b))[n] = IF n < Len(ds) THEN ds[Len(ds) - n].at ELSE 0
  BY HopsIs DEF Way, WordAfter
<1>3. n < Len(ds) => Len(ds) - n \in 1 .. Len(ds)
  BY <1>1, SystemPlaces
<1>4. QED
  BY <1>1, <1>2, <1>3

\* The name of a word is read back.
LEMMA NameIs ==
    ASSUME NEW b, NEW ds, Holds(b, ds), NEW k \in 1 .. Len(ds)
    PROVE  /\ NameAt(b, ds[k].at) = Compared(ds[k].name)
           /\ Compared(NameAt(b, ds[k].at)) = Compared(ds[k].name)
           /\ TextAt(b, ds[k].at) = TextPlace(ds[k])
<1>1. b \in Memory /\ IsWord(ds[k]) /\ Laid(b, ds[k], Before(ds, k))
  BY DEF Holds, InOrder, Chained
<1>2. NameAt(b, ds[k].at) = Short(ds[k]) /\ TextAt(b, ds[k].at) = TextPlace(ds[k])
  BY <1>1, HeaderReadsBack
<1>3. Compared(Short(ds[k])) = Short(ds[k])
  <2> DEFINE s == Short(ds[k])
  <2>1. s = Compared(ds[k].name) /\ ds[k].name \in Seq(1 .. 255)
    BY <1>1 DEF IsWord, Short
  <2>2. s \in Seq(1 .. 255) /\ Len(s) <= NameCap
    BY <2>1, ComparedIs, NameAssumption
  <2> HIDE DEF s
  <2>3. (IF Len(s) < NameCap THEN Len(s) ELSE NameCap) = Len(s)
    BY <2>2, NameAssumption
  <2>4. Compared(s) = SubSeq(s, 1, Len(s))
    BY <2>3 DEF Compared
  <2>5. SubSeq(s, 1, Len(s)) = s
    BY <2>2, SubSeqFull
  <2>6. QED
    BY <2>4, <2>5 DEF s
<1>4. QED
  BY <1>2, <1>3 DEF Short

-----------------------------------------------------------------------------
(* The search. *)

\* The first turn where the loop stops is the one where it does and has not
\* before.
LEMMA FirstTurnIs ==
    ASSUME NEW stops, NEW n \in 0 .. RamEnd, stops[n], \A m \in 0 .. (n - 1) : ~stops[m]
    PROVE  FirstTurn(stops) = n
<1>1. \A k \in 0 .. RamEnd : stops[k] /\ (\A m \in 0 .. (k - 1) : ~stops[m]) => k = n
  <2> SUFFICES ASSUME NEW k \in 0 .. RamEnd, stops[k], \A m \in 0 .. (k - 1) : ~stops[m]
               PROVE  k = n
    OBVIOUS
  <2>1. n < k => n \in 0 .. (k - 1)
    OBVIOUS
  <2>2. k < n => k \in 0 .. (n - 1)
    OBVIOUS
  <2>3. ~(k < n) /\ ~(n < k)
    BY <2>1, <2>2, Zenon
  <2>4. QED
    BY <2>3
<1>2. QED
  BY <1>1, Zenon DEF FirstTurn

SameName(ds, name) == {k \in DOMAIN ds : Compared(ds[k].name) = Compared(name)}

\* From the newest word on, the first one with the name is the newest one.
LEMMA SearchIs ==
    ASSUME NEW b, NEW ds, Holds(b, ds), NEW name
    PROVE  forth_dict_search(b, Newest(b), name) =
              IF SameName(ds, name) = {} THEN 0
              ELSE ds[CHOOSE k \in SameName(ds, name) : \A l \in SameName(ds, name) : l <= k].at
<1> DEFINE N == Len(ds)
           hop == Hops(b, Newest(b))
           same == SameName(ds, name)
           stops == [n \in 0 .. RamEnd |->
                        hop[n] = 0 \/ Compared(NameAt(b, hop[n])) = Compared(name)]
<1>1. InOrder(ds)
  BY DEF Holds
<1>2. N \in Nat /\ N >= 2 /\ N \in 0 .. RamEnd /\ RamEnd \in Nat
  BY <1>1, WordsIs, WordsFit, SystemPlaces
<1>3. forth_dict_search(b, Newest(b), name) = hop[FirstTurn(stops)]
  BY DEF forth_dict_search
<1>4. DOMAIN ds = 1 .. N
  BY <1>1 DEF InOrder
<1>5. \A k \in 1 .. N : k \in same <=> Compared(ds[k].name) = Compared(name)
  BY <1>4 DEF SameName
<1>6. same \subseteq 1 .. N
  BY <1>4 DEF SameName
<1>7. ASSUME NEW n \in 0 .. RamEnd, n < N
      PROVE  N - n \in 1 .. N /\ hop[n] = ds[N - n].at /\ (stops[n] <=> N - n \in same)
  <2>1. N - n \in 1 .. N /\ hop[n] = ds[N - n].at /\ hop[n] # 0
    BY <1>7, HopIs
  <2>2. Compared(NameAt(b, ds[N - n].at)) = Compared(ds[N - n].name)
    BY <2>1, NameIs
  <2>3. stops[n] <=> Compared(ds[N - n].name) = Compared(name)
    BY <2>1, <2>2
  <2>4. QED
    BY <1>5, <2>1, <2>3
<1>8. hop[N] = 0 /\ stops[N]
  <2>1. hop[N] = 0
    BY <1>2, HopIs
  <2> HIDE DEF hop, N
  <2>2. stops[N] = (hop[N] = 0 \/ Compared(NameAt(b, hop[N])) = Compared(name))
    BY <1>2
  <2>3. QED
    BY <2>1, <2>2
<1> HIDE DEF N, hop, same, stops
<1>9. CASE same = {}
  <2>1. \A m \in 0 .. (N - 1) : m \in 0 .. RamEnd /\ m < N
    BY <1>2
  <2>2. \A m \in 0 .. (N - 1) : ~stops[m]
    BY <1>7, <1>9, <2>1
  <2>3. FirstTurn(stops) = N
    BY <1>2, <1>8, <2>2, FirstTurnIs
  <2>4. QED
    BY <1>3, <1>8, <1>9, <2>3 DEF same
<1>10. CASE same # {}
  <2> DEFINE Top(k) == \A l \in same : l <= k
  <2>1. \E k \in same : Top(k)
    <3> DEFINE R == {n \in 0 .. N : n < N /\ N - n \in same}
    <3> DEFINE Q == {n \in 0 .. N : \A m \in 0 .. n : m \notin R}
    <3>1. CASE \E n \in R : \A m \in 0 .. (n - 1) : m \notin R
      <4>1. PICK n \in R : \A m \in 0 .. (n - 1) : m \notin R
        BY <3>1
      <4>2. N - n \in same
        OBVIOUS
      <4>3. ASSUME NEW l \in same
            PROVE  l <= N - n
        <5>1. l \in 1 .. N
          BY <1>6
        <5>2. N - l \in 0 .. N /\ N - l < N /\ N - (N - l) = l
          BY <1>2, <5>1
        <5>3. N - l \in R
          BY <5>2
        <5>4. N - l \notin 0 .. (n - 1)
          BY <4>1, <5>3
        <5>5. QED
          BY <1>2, <5>1, <5>2, <5>4
      <4>4. QED
        BY <4>2, <4>3
    <3>2. CASE \A n \in R : \E m \in 0 .. (n - 1) : m \in R
      <4>1. 0 \in Q
        <5>1. 0 \notin R
          BY <3>2
        <5>2. QED
          BY <1>2, <5>1
      <4>2. ASSUME NEW n \in 0 .. (N - 1), n \in Q
            PROVE  n + 1 \in Q
        <5>1. n + 1 \in 0 .. N /\ (n + 1) - 1 = n
          BY <1>2
        <5>2. \A m \in 0 .. n : m \notin R
          BY <4>2
        <5>3. n + 1 \notin R
          BY <3>2, <5>1, <5>2
        <5>4. \A m \in 0 .. (n + 1) : m \in 0 .. n \/ m = n + 1
          OBVIOUS
        <5>5. QED
          BY <5>1, <5>2, <5>3, <5>4
      <4> HIDE DEF Q
      <4>3. N \in Q
        BY <1>2, <4>1, <4>2, IntervalInduction
      <4>4. PICK k \in same : k \in 1 .. N
        BY <1>6, <1>10
      <4>5. N - k \in 0 .. N /\ N - k < N /\ N - (N - k) = k
        BY <1>2, <4>4
      <4>6. QED
        BY <4>3, <4>4, <4>5 DEF Q
    <3>3. QED
      BY <3>1, <3>2
  <2> DEFINE k == CHOOSE i \in same : Top(i)
  <2>2. k \in same /\ Top(k)
    BY <2>1
  <2> HIDE DEF k
  <2>3. k \in 1 .. N /\ N - k \in 0 .. RamEnd /\ N - k < N /\ N - (N - k) = k
    BY <1>2, <1>6, <2>2
  <2>4. stops[N - k] /\ hop[N - k] = ds[k].at
    BY <1>7, <2>2, <2>3
  <2>5. ASSUME NEW m \in 0 .. (N - k - 1)
        PROVE  ~stops[m]
    <3>1. m \in 0 .. RamEnd /\ m < N /\ N - m > k /\ N - m \in Int
      BY <1>2, <2>3
    <3>2. N - m \notin same
      BY <2>2, <2>3, <3>1
    <3>3. QED
      BY <1>7, <3>1, <3>2
  <2>6. FirstTurn(stops) = N - k
    BY <2>3, <2>4, <2>5, FirstTurnIs
  <2>7. forth_dict_search(b, Newest(b), name) = ds[k].at
    BY <1>3, <2>4, <2>6
  <2>8. QED
    BY <1>10, <2>7 DEF same, k
<1>11. QED
  BY <1>9, <1>10

\* Whatever was defined, a search finds the newest word with the name, by the
\* characters that count, or nothing.
THEOREM SearchNewest == Spec => []SearchFindsNewest
<1>1. LayoutInv => SearchFindsNewest
  <2> SUFFICES ASSUME LayoutInv, NEW name \in Names \cup {FORTH, HERE}
               PROVE  LET same == {k \in DOMAIN defined : Compared(defined[k].name) = Compared(name)}
                      IN  forth_dict_search(bytes, Newest(bytes), name) =
                             IF same = {} THEN 0
                             ELSE defined[CHOOSE k \in same : \A l \in same : l <= k].at
    BY DEF SearchFindsNewest
  <2>1. Holds(bytes, defined)
    BY DEF LayoutInv
  <2>2. forth_dict_search(bytes, Newest(bytes), name) =
           IF SameName(defined, name) = {} THEN 0
           ELSE defined[CHOOSE k \in SameName(defined, name) :
                           \A l \in SameName(defined, name) : l <= k].at
    BY <2>1, SearchIs
  <2>3. QED
    BY <2>2 DEF SameName
<1>2. QED
  BY <1>1, LayoutInOrder, PTL
-----------------------------------------------------------------------------
(* The list of the words. *)

WordOf(b, d) ==
    [name |-> Short(d), kind |-> d.kind, immediate |-> b[d.at] = d.kind + IMMEDIATE]

\* The words ds, newest first.
WordList(b, ds) == [k \in 1 .. Len(ds) |-> WordOf(b, ds[Len(ds) + 1 - k])]

\* The flags of a header are a kind, and a bit of their own for IMMEDIATE.
LEMMA FlagsAre ==
    ASSUME NEW kind \in Kinds
    PROVE  /\ 4 * (kind \div 4) = kind /\ (kind \div IMMEDIATE) % 2 = 0
           /\ 4 * ((kind + IMMEDIATE) \div 4) = kind
           /\ ((kind + IMMEDIATE) \div IMMEDIATE) % 2 = 1
           /\ kind \in Nat /\ kind # kind + IMMEDIATE
  BY DEF Kinds, TEXT, VAR, CONST, IMMEDIATE

\* From the newest word on, the links lead behind the oldest one after all.
LEMMA WordsCounted ==
    ASSUME NEW b, NEW ds, Holds(b, ds)
    PROVE  FirstTurn([n \in 0 .. RamEnd |-> Hops(b, Newest(b))[n] = 0]) = Len(ds)
<1> DEFINE N == Len(ds)
           hop == Hops(b, Newest(b))
           atEnd == [n \in 0 .. RamEnd |-> hop[n] = 0]
<1>1. N \in Nat /\ N \in 0 .. RamEnd /\ RamEnd \in Nat
  BY WordsIs, WordsFit, SystemPlaces DEF Holds
<1>2. \A n \in 0 .. RamEnd : hop[n] = 0 <=> ~(n < N)
  BY HopIs
<1> HIDE DEF N, hop
<1>3. \A m \in 0 .. (N - 1) : m \in 0 .. RamEnd /\ m < N
  BY <1>1
<1>4. atEnd[N]
  <2>1. atEnd[N] = (hop[N] = 0)
    BY <1>1
  <2>2. hop[N] = 0
    BY <1>1, <1>2
  <2> HIDE DEF atEnd
  <2>3. QED
    BY <2>1, <2>2
<1>5. \A m \in 0 .. (N - 1) : ~atEnd[m]
  BY <1>2, <1>3
<1> HIDE DEF atEnd
<1>6. FirstTurn(atEnd) = N
  BY <1>1, <1>4, <1>5, FirstTurnIs
<1>7. QED
  BY <1>6 DEF atEnd, hop, N

\* The links lead through the words, newest first, each with its name, its
\* kind and its bit.
LEMMA ListedIs ==
    ASSUME NEW b, NEW ds, Holds(b, ds)
    PROVE  ListedWords(b) = WordList(b, ds)
<1> DEFINE N == Len(ds)
           hop == Hops(b, Newest(b))
           atEnd == [n \in 0 .. RamEnd |-> hop[n] = 0]
           word == [a \in Ram |-> [name |-> Compared(NameAt(b, a)),
                                   kind |-> 4 * (b[a] \div 4),
                                   immediate |-> (b[a] \div IMMEDIATE) % 2 = 1]]
<1>1. N \in Nat /\ N \in 0 .. RamEnd /\ \A k \in 1 .. N : ds[k].at \in Ram
  BY WordsIs, WordsFit DEF Holds
<1>2. FirstTurn(atEnd) = N
  BY WordsCounted
<1>3. \A k \in 1 .. N : word[ds[k].at] = WordOf(b, ds[k])
  <2> SUFFICES ASSUME NEW k \in 1 .. N PROVE word[ds[k].at] = WordOf(b, ds[k])
    OBVIOUS
  <2> DEFINE f == b[ds[k].at]
             kind == ds[k].kind
  <2>1. Compared(NameAt(b, ds[k].at)) = Short(ds[k])
    BY NameIs DEF Short
  <2>2. kind \in Kinds /\ f \in {kind, kind + IMMEDIATE}
    BY DEF Holds, InOrder, Chained, IsWord, Laid
  <2> HIDE DEF f, kind
  <2>3. 4 * (f \div 4) = kind /\ ((f \div IMMEDIATE) % 2 = 1 <=> f = kind + IMMEDIATE)
    <3>1. CASE f = kind
      BY <2>2, <3>1, FlagsAre
    <3>2. CASE f = kind + IMMEDIATE
      BY <2>2, <3>2, FlagsAre
    <3>3. QED
      BY <2>2, <3>1, <3>2
  <2>4. word[ds[k].at] = [name |-> Compared(NameAt(b, ds[k].at)), kind |-> 4 * (f \div 4),
                          immediate |-> (f \div IMMEDIATE) % 2 = 1]
    BY <1>1 DEF f
  <2>5. ((f \div IMMEDIATE) % 2 = 1) = (f = kind + IMMEDIATE)
    BY <2>3
  <2>6. QED
    BY <2>1, <2>3, <2>4, <2>5 DEF WordOf, f, kind
<1>4. \A k \in 1 .. N : word[hop[k - 1]] = WordOf(b, ds[N + 1 - k])
  <2> SUFFICES ASSUME NEW k \in 1 .. N PROVE word[hop[k - 1]] = WordOf(b, ds[N + 1 - k])
    OBVIOUS
  <2> HIDE DEF word, hop, N
  <2>1. k - 1 \in 0 .. RamEnd /\ k - 1 < N /\ N - (k - 1) = N + 1 - k
    BY <1>1, SystemPlaces
  <2>2. N - (k - 1) \in 1 .. N /\ hop[k - 1] = ds[N - (k - 1)].at
    BY <2>1, HopIs DEF N, hop
  <2>3. QED
    BY <1>3, <2>1, <2>2
<1>5. ListedWords(b) = [k \in 1 .. FirstTurn(atEnd) |-> word[hop[k - 1]]]
  BY DEF ListedWords
<1> HIDE DEF word, hop, atEnd
<1>6. QED
  BY <1>2, <1>4, <1>5 DEF WordList, N
\* The list is as long as the words, and its head is the newest one.
LEMMA WordListIs ==
    ASSUME NEW b, NEW ds, Holds(b, ds)
    PROVE  /\ Len(WordList(b, ds)) = Len(ds) /\ Len(ds) \in Nat /\ Len(ds) >= 2
           /\ \A k \in 1 .. Len(ds) : WordList(b, ds)[k] = WordOf(b, ds[Len(ds) + 1 - k])
           /\ WordList(b, ds)[1] = WordOf(b, ds[Len(ds)]) /\ WordList(b, ds) # <<>>
<1>1. Len(ds) \in Nat /\ Len(ds) >= 2
  BY WordsIs DEF Holds
<1>2. Len(WordList(b, ds)) = Len(ds)
  BY <1>1 DEF WordList
<1>3. 1 \in 1 .. Len(ds) /\ Len(ds) + 1 - 1 = Len(ds)
  BY <1>1
<1>4. \A k \in 1 .. Len(ds) : WordList(b, ds)[k] = WordOf(b, ds[Len(ds) + 1 - k])
  BY DEF WordList
<1>5. QED
  BY <1>1, <1>2, <1>3, <1>4

\* What was kept leaves every word in the list as it is.
LEMMA WordsKept ==
    ASSUME NEW b, NEW ds, Holds(b, ds), NEW c, Keeps(b, c), NEW k \in 1 .. Len(ds)
    PROVE  WordOf(c, ds[k]) = WordOf(b, ds[k])
<1> DEFINE h == ds[k].at
<1>1. InOrder(ds) /\ IsWord(ds[k]) /\ TextPlace(ds[k]) <= LastUsed(b) + CELL
      /\ LastUsed(b) \in SecondText .. (RamEnd - CELL)
  BY DEF Holds, InOrder
<1>2. h \in Nat /\ TextPlace(ds[k]) \in Nat /\ h < TextPlace(ds[k])
  <2>1. /\ h \in Nat /\ LinkOf(ds[k]) \in Nat /\ Len(Short(ds[k])) \in Nat /\ CELL \in Nat
        /\ h + Len(Short(ds[k])) + 2 <= LinkOf(ds[k]) /\ TextPlace(ds[k]) = LinkOf(ds[k]) + CELL
    BY <1>1, WordPlaces, CellAssumption
  <2> HIDE DEF h
  <2>2. QED
    BY <2>1
<1>3. h \in h .. (TextPlace(ds[k]) - 1)
  BY <1>2
<1>4. h \in Ram /\ h \notin FirstCell /\ h \notin SecondCell
  BY <1>1, <1>3, HeadersApart
<1>5. h < LastUsed(b) + CELL
  <2>1. LastUsed(b) + CELL \in Int
    BY <1>1, SystemPlaces
  <2> HIDE DEF h
  <2>2. QED
    BY <1>1, <1>2, <2>1
<1>6. c[h] = b[h]
  BY <1>4, <1>5 DEF Keeps
<1>7. QED
  BY <1>6 DEF WordOf

\* A step that defines nothing and keeps what is in use leaves the list alone.
LEMMA ListStays ==
    ASSUME NEW b, NEW ds, Holds(b, ds), NEW c, Keeps(b, c), NEW es,
           Len(es) = Len(ds),
           \A k \in 1 .. Len(ds) :
              es[k].at = ds[k].at /\ es[k].name = ds[k].name /\ es[k].kind = ds[k].kind
    PROVE  WordList(c, es) = WordList(b, ds)
<1>1. Len(ds) \in Nat
  BY WordsIs DEF Holds
<1>2. \A k \in 1 .. Len(ds) : WordOf(c, es[k]) = WordOf(b, ds[k])
  <2> SUFFICES ASSUME NEW k \in 1 .. Len(ds) PROVE WordOf(c, es[k]) = WordOf(b, ds[k])
    OBVIOUS
  <2>1. WordOf(c, es[k]) = WordOf(c, ds[k])
    BY DEF WordOf, Short
  <2>2. QED
    BY <2>1, WordsKept
<1>3. \A k \in 1 .. Len(ds) : Len(ds) + 1 - k \in 1 .. Len(ds)
  BY <1>1
<1>4. QED
  BY <1>2, <1>3 DEF WordList

\* A word that is defined becomes the head of the list.
LEMMA ListGrows ==
    ASSUME NEW b, NEW ds, Holds(b, ds), NEW c, Keeps(b, c), NEW d, Holds(c, Append(ds, d)),
           c[d.at] = d.kind, d.kind \in Kinds
    PROVE  /\ Len(WordList(c, Append(ds, d))) = Len(WordList(b, ds)) + 1
           /\ Head(WordList(c, Append(ds, d))) = [name |-> Short(d), kind |-> d.kind, immediate |-> FALSE]
           /\ Tail(WordList(c, Append(ds, d))) = WordList(b, ds)
<1> DEFINE es == Append(ds, d)
           N == Len(ds)
           ws == WordList(c, es)
<1>1. ds \in Seq(Entries) /\ N \in Nat
  BY DEF Holds, InOrder
<1>2. Len(es) = N + 1 /\ es[N + 1] = d /\ \A k \in 1 .. N : es[k] = ds[k]
  BY <1>1
<1> HIDE DEF es
<1>3. Len(ws) = N + 1 /\ ws[1] = WordOf(c, d) /\ ws # <<>>
  <2>1. Holds(c, es)
    BY DEF es
  <2>2. Len(ws) = Len(es) /\ ws[1] = WordOf(c, es[Len(es)]) /\ ws # <<>>
    BY <2>1, WordListIs
  <2>3. QED
    BY <1>2, <2>2
<1>4. \A k \in 1 .. N : ws[k + 1] = WordOf(b, ds[N + 1 - k])
  <2> SUFFICES ASSUME NEW k \in 1 .. N PROVE ws[k + 1] = WordOf(b, ds[N + 1 - k])
    OBVIOUS
  <2>1. k + 1 \in 1 .. (N + 1) /\ (N + 1) + 1 - (k + 1) = N + 1 - k /\ N + 1 - k \in 1 .. N
    BY <1>1
  <2>2. ws[k + 1] = WordOf(c, es[N + 1 - k])
    BY <1>2, <2>1 DEF WordList
  <2>3. es[N + 1 - k] = ds[N + 1 - k]
    BY <1>2, <2>1
  <2>4. QED
    BY <2>1, <2>2, <2>3, WordsKept
<1>5. Len(WordList(b, ds)) = N
  BY WordListIs
<1>6. ws = [k \in 1 .. (N + 1) |-> ws[k]]
  BY <1>2 DEF WordList
<1> HIDE DEF ws
<1>7. Head(ws) = ws[1] /\ Tail(ws) = [k \in 1 .. N |-> ws[k + 1]]
  BY <1>1, <1>3, <1>6
<1>8. Tail(ws) = WordList(b, ds)
  BY <1>4, <1>7 DEF WordList
<1>9. Head(ws) = [name |-> Short(d), kind |-> d.kind, immediate |-> FALSE]
  <2>1. ~(c[d.at] = d.kind + IMMEDIATE)
    BY FlagsAre
  <2>2. (c[d.at] = d.kind + IMMEDIATE) = FALSE
    BY <2>1
  <2>3. QED
    BY <1>3, <1>7, <2>2 DEF WordOf
<1>10. QED
  BY <1>3, <1>5, <1>8, <1>9 DEF ws, es

\* A word of the list with its bit set.
LEMMA BitSet ==
    ASSUME NEW s, NEW kind, NEW x
    PROVE  [[name |-> s, kind |-> kind, immediate |-> x] EXCEPT !.immediate = TRUE] =
              [name |-> s, kind |-> kind, immediate |-> TRUE]
<1>1. \A y : [[name |-> s, kind |-> kind, immediate |-> x] EXCEPT !.immediate = y] =
              [name |-> s, kind |-> kind, immediate |-> y]
  OBVIOUS
<1>2. QED
  BY <1>1, Zenon

\* The list with its head marked.
Marked(ws) == [ws EXCEPT ![1].immediate = TRUE]

\* IMMEDIATE sets the bit of the head, and nothing else.
LEMMA HeadImmediate ==
    ASSUME NEW b, NEW ds, Holds(b, ds), NEW c,
           c[Newest(b)] = ds[Len(ds)].kind + IMMEDIATE,
           \A x \in Ram : x # Newest(b) => c[x] = b[x]
    PROVE  WordList(c, ds) = Marked(WordList(b, ds))
<1> DEFINE N == Len(ds)
           ws == WordList(b, ds)
<1>1. N \in Nat /\ N >= 2 /\ InOrder(ds) /\ Newest(b) = ds[N].at
  BY WordsIs DEF Holds
<1>2. WordOf(c, ds[N]) = [WordOf(b, ds[N]) EXCEPT !.immediate = TRUE]
  <2> DEFINE x == b[ds[N].at] = ds[N].kind + IMMEDIATE
             s == Short(ds[N])
             kind == ds[N].kind
  <2>1. (c[ds[N].at] = ds[N].kind + IMMEDIATE) = TRUE
    BY <1>1
  <2>2. WordOf(c, ds[N]) = [name |-> s, kind |-> kind, immediate |-> TRUE]
    BY <2>1 DEF WordOf
  <2>3. WordOf(b, ds[N]) = [name |-> s, kind |-> kind, immediate |-> x]
    BY DEF WordOf
  <2> HIDE DEF x, s, kind
  <2>4. [WordOf(b, ds[N]) EXCEPT !.immediate = TRUE] = [name |-> s, kind |-> kind, immediate |-> TRUE]
    <3>1. [[name |-> s, kind |-> kind, immediate |-> x] EXCEPT !.immediate = TRUE] =
             [name |-> s, kind |-> kind, immediate |-> TRUE]
      BY BitSet, Zenon
    <3>2. QED
      BY <2>3, <3>1, Zenon
  <2>5. QED
    BY <2>2, <2>4
<1>3. ASSUME NEW k \in 1 .. (N - 1)
      PROVE  WordOf(c, ds[k]) = WordOf(b, ds[k])
  <2>1. k \in 1 .. N /\ N \in 1 .. N /\ k < N
    BY <1>1
  <2>2. TextPlace(ds[k]) <= ds[N].at
    BY <1>1, <2>1 DEF InOrder
  <2>3. IsWord(ds[k])
    BY <1>1, <2>1 DEF InOrder
  <2>4. ds[k].at \in Ram /\ ds[k].at # ds[N].at
    <3>1. /\ ds[k].at \in Nat /\ LinkOf(ds[k]) \in Nat /\ Len(Short(ds[k])) \in Nat /\ CELL \in Nat
          /\ ds[k].at + Len(Short(ds[k])) + 2 <= LinkOf(ds[k])
          /\ TextPlace(ds[k]) = LinkOf(ds[k]) + CELL /\ ds[N].at \in Ram
      BY <2>1, <2>3, WordPlaces, CellAssumption, WordsIs DEF Holds
    <3>2. ds[N].at \in Int
      BY <3>1, RamIs
    <3>3. QED
      BY <2>2, <2>3, <3>1, <3>2 DEF IsWord
  <2>5. c[ds[k].at] = b[ds[k].at]
    BY <1>1, <2>4
  <2>6. QED
    BY <2>5 DEF WordOf
<1>4. /\ ws = [k \in 1 .. N |-> WordOf(b, ds[N + 1 - k])]
      /\ WordList(c, ds) = [k \in 1 .. N |-> WordOf(c, ds[N + 1 - k])]
  BY DEF WordList
<1> HIDE DEF N, ws
<1>5. \A k \in 1 .. N : IF k = 1 THEN N + 1 - k = N ELSE N + 1 - k \in 1 .. (N - 1)
  BY <1>1
<1>6. ws[1] = WordOf(b, ds[N]) /\ 1 \in 1 .. N
  BY <1>1, <1>4, <1>5
<1>7. [ws EXCEPT ![1].immediate = TRUE] =
         [k \in 1 .. N |-> IF k = 1 THEN [ws[1] EXCEPT !.immediate = TRUE] ELSE ws[k]]
  BY <1>4
<1>8. \A k \in 1 .. N : WordOf(c, ds[N + 1 - k]) =
         IF k = 1 THEN [ws[1] EXCEPT !.immediate = TRUE] ELSE ws[k]
  <2> SUFFICES ASSUME NEW k \in 1 .. N
               PROVE  WordOf(c, ds[N + 1 - k]) =
                         IF k = 1 THEN [ws[1] EXCEPT !.immediate = TRUE] ELSE ws[k]
    OBVIOUS
  <2>1. CASE k = 1
    BY <1>2, <1>5, <1>6, <2>1
  <2>2. CASE k # 1
    BY <1>3, <1>4, <1>5, <2>2
  <2>3. QED
    BY <2>1, <2>2
<1>9. QED
  BY <1>4, <1>7, <1>8 DEF ws, Marked
-----------------------------------------------------------------------------
(* The refinement. *)

\* A step that defines a word.
LEMMA DefineRefines ==
    ASSUME LayoutInv, LayoutInv', Keeps(bytes, bytes'), NEW name \in Names, NEW kind \in Kinds,
           defined' = Remembered(name, HeaderPlace(bytes), kind),
           bytes'[HeaderPlace(bytes)] = kind
    PROVE  Listed!Define
<1> DEFINE h == HeaderPlace(bytes)
           d == [name |-> name, at |-> h, kind |-> kind, items |-> <<>>]
<1>1. Holds(bytes, defined) /\ Holds(bytes', defined')
  BY DEF LayoutInv
<1>2. defined' = Append(defined, d) /\ d.at = h /\ d.kind = kind /\ Short(d) = Compared(name)
  BY DEF Remembered, Short
<1>3. bytes'[d.at] = d.kind
  BY <1>2
<1> HIDE DEF d, h
<1>4. /\ Len(WordList(bytes', defined')) = Len(WordList(bytes, defined)) + 1
      /\ Head(WordList(bytes', defined')) = [name |-> Short(d), kind |-> d.kind, immediate |-> FALSE]
      /\ Tail(WordList(bytes', defined')) = WordList(bytes, defined)
  BY <1>1, <1>2, <1>3, ListGrows
<1>5. ListedWords(bytes) = WordList(bytes, defined) /\ ListedWords(bytes') = WordList(bytes', defined')
  BY <1>1, ListedIs
<1>6. [name |-> Compared(name), kind |-> kind, immediate |-> FALSE] \in Listed!NewWord
  BY DEF Listed!NewWord, Kinds
<1>7. QED
  BY <1>2, <1>4, <1>5, <1>6 DEF Listed!Define

\* A step that only moves HERE, or compiles.
LEMMA OtherRefines ==
    ASSUME LayoutInv, LayoutInv', Keeps(bytes, bytes'),
           Len(defined') = Len(defined),
           \A k \in 1 .. Len(defined) : /\ defined'[k].at = defined[k].at
                                        /\ defined'[k].name = defined[k].name
                                        /\ defined'[k].kind = defined[k].kind
    PROVE  ListedWords(bytes') = ListedWords(bytes)
<1>1. Holds(bytes, defined) /\ Holds(bytes', defined')
  BY DEF LayoutInv
<1>2. WordList(bytes', defined') = WordList(bytes, defined)
  BY <1>1, ListStays
<1>3. QED
  BY <1>1, <1>2, ListedIs

\* IMMEDIATE marks the head.
LEMMA ImmediateRefines ==
    ASSUME LayoutInv, immediate_handler
    PROVE  Listed!MakeImmediate
<1>1. /\ bytes' = [bytes EXCEPT ![Newest(bytes)] = WithImmediate(@)]
      /\ Holds(bytes, defined)
  BY DEF immediate_handler, LayoutInv
<1>2. /\ Holds(bytes', defined)
      /\ bytes'[Newest(bytes)] = defined[Len(defined)].kind + IMMEDIATE
      /\ \A x \in Ram : x # Newest(bytes) => bytes'[x] = bytes[x]
  BY <1>1, ImmediateHolds
<1>3. WordList(bytes', defined) = Marked(WordList(bytes, defined))
  BY <1>1, <1>2, HeadImmediate
<1>4. ListedWords(bytes) = WordList(bytes, defined) /\ ListedWords(bytes') = WordList(bytes', defined)
  BY <1>1, <1>2, ListedIs
<1>5. ListedWords(bytes) # <<>>
  BY <1>1, <1>4, WordListIs
<1>6. QED
  BY <1>3, <1>4, <1>5 DEF Listed!MakeImmediate, Marked

\* A step that compiles leaves the list alone.
LEMMA CompilesRefines ==
    ASSUME LayoutInv, LayoutInv', Keeps(bytes, bytes'), NEW item \in Items, defined' = Compiled(item)
    PROVE  ListedWords(bytes') = ListedWords(bytes)
<1>1. InOrder(defined) /\ defined' = Longer(defined, item)
  BY DEF LayoutInv, Holds, Compiled, Longer
<1>2. /\ Len(defined') = Len(defined)
      /\ \A k \in 1 .. Len(defined) : /\ defined'[k].at = defined[k].at
                                      /\ defined'[k].name = defined[k].name
                                      /\ defined'[k].kind = defined[k].kind
  BY <1>1, LongerIs
<1>3. QED
  BY <1>2, OtherRefines

\* Every step is a step of the list, or none.
LEMMA StepRefines ==
    ASSUME LayoutInv, [Next]_layoutVars
    PROVE  Listed!Next \/ ListedWords(bytes') = ListedWords(bytes)
<1>1. ASSUME NEW name \in Names, NEW value \in Codes, NEW kind \in Kinds, AddValue(kind, name, value)
      PROVE  Listed!Define
  <2>1. LayoutInv' /\ Keeps(bytes, bytes') /\ bytes'[HeaderPlace(bytes)] = kind
    BY <1>1, AddValueKeeps
  <2>2. defined' = Remembered(name, HeaderPlace(bytes), kind)
    BY <1>1 DEF AddValue
  <2>3. QED
    BY <2>1, <2>2, DefineRefines
<1>2. ASSUME NEW name \in Names, colon_handler(name)
      PROVE  Listed!Define
  <2>1. LayoutInv' /\ Keeps(bytes, bytes') /\ bytes'[HeaderPlace(bytes)] = TEXT
    BY <1>2, ColonKeeps
  <2>2. defined' = Remembered(name, HeaderPlace(bytes), TEXT)
    BY <1>2 DEF colon_handler
  <2>3. TEXT \in Kinds
    BY DEF Kinds
  <2>4. QED
    BY <2>1, <2>2, <2>3, DefineRefines
<1>3. ASSUME NEW w \in Codes, Compile(w) \/ semicolon(w)
      PROVE  ListedWords(bytes') = ListedWords(bytes)
  <2>1. Compiles(w) /\ compiling' \in BOOLEAN
    BY <1>3 DEF Compile, semicolon, LayoutInv
  <2>2. LayoutInv' /\ Keeps(bytes, bytes')
    BY <2>1, CompilesKeeps
  <2>3. defined' = Compiled(<<w>>) /\ <<w>> \in Items
    BY <2>1 DEF Compiles, Items
  <2>4. QED
    BY <2>2, <2>3, CompilesRefines
<1>4. ASSUME NEW text \in Texts, dot_quote_immediate_handler(text)
      PROVE  ListedWords(bytes') = ListedWords(bytes)
  <2>1. LayoutInv' /\ Keeps(bytes, bytes')
    BY <1>4, QuoteKeeps
  <2>2. defined' = Compiled(<<"text", text>>) /\ <<"text", text>> \in Items
    BY <1>4 DEF dot_quote_immediate_handler, Items
  <2>3. QED
    BY <2>1, <2>2, CompilesRefines
<1>5. ASSUME NEW n \in Nat, allot_handler(n)
      PROVE  ListedWords(bytes') = ListedWords(bytes)
  <2>1. LayoutInv' /\ Keeps(bytes, bytes') /\ defined' = defined
    BY <1>5, AllotKeeps DEF allot_handler
  <2>2. QED
    BY <2>1, OtherRefines
<1>6. ASSUME align_handler
      PROVE  ListedWords(bytes') = ListedWords(bytes)
  <2>1. LayoutInv' /\ Keeps(bytes, bytes') /\ defined' = defined
    BY <1>6, AlignKeeps DEF align_handler
  <2>2. QED
    BY <2>1, OtherRefines
<1>7. ASSUME NEW n \in Lengths
      PROVE  n \in Nat /\ aligned_handler(n) \in Nat
  <2>1. n \in Nat
    BY NameAssumption
  <2>2. QED
    BY <2>1, AlignedIs DEF aligned_handler
<1>8. VAR \in Kinds /\ CONST \in Kinds
  BY DEF Kinds
<1>9. CASE immediate_handler
  BY <1>9, ImmediateRefines DEF Listed!Next
<1>10. CASE UNCHANGED layoutVars
  BY <1>10 DEF layoutVars
<1>11. CASE Next
  BY <1>1, <1>2, <1>3, <1>4, <1>5, <1>6, <1>7, <1>8, <1>9, <1>11 DEF Next, Listed!Next
<1>12. QED
  BY <1>10, <1>11

\* Read through its bytes the dictionary is a list of words that only grows at
\* its head: no step loses a word, changes an older one or its place, and the
\* newest one is all IMMEDIATE ever marks.
THEOREM LayoutListsWords == Spec => ListsWords
<1>1. Init => Listed!Init
  BY DEF Init, Listed!Init
<1>2. LayoutInv /\ [Next]_layoutVars => [Listed!Next]_(ListedWords(bytes))
  BY StepRefines
<1>3. Spec => Listed!Init /\ [][Listed!Next]_(ListedWords(bytes))
  BY <1>1, <1>2, LayoutInOrder, PTL DEF Spec
<1>4. QED
  BY <1>3 DEF ListsWords, Listed!Spec
-----------------------------------------------------------------------------
(* Code. *)

\* The bytes that an item of code takes.
Size(item) == IF Len(item) = 1 THEN CELL ELSE CELL * (15 + QuoteSkip(Len(item[2])))

\* The item lies at a: a cell, or a text behind the cells that print it and
\* step over it.
ItemAt(b, a, item) ==
    IF Len(item) = 1 THEN Cell(b, a) = item[1]
    ELSE LET n == Len(item[2])
         IN  /\ Cell(b, a + CELL) = n /\ Cell(b, a + 3 * CELL) = n
             /\ Cell(b, a + 7 * CELL) = 10 * CELL
             /\ \A x \in 1 .. n : b[a + 15 * CELL + x - 1] = item[2][x]

\* The items of d lie from its header to e without a gap, the item j at at[j].
Placed(b, d, e, at) ==
    /\ at \in [1 .. (Len(d.items) + 1) -> Nat]
    /\ at[1] = TextPlace(d) /\ at[Len(d.items) + 1] = e
    /\ \A j \in 1 .. Len(d.items) :
          /\ at[j + 1] = at[j] + Size(d.items[j])
          /\ TextPlace(d) <= at[j] /\ at[j + 1] <= e
          /\ ItemAt(b, at[j], d.items[j])

Code(b, d, e) == e \in Nat /\ TextPlace(d) <= e /\ \E at : Placed(b, d, e, at)

\* The code of every word is in memory and ends before the next word; that of
\* the word that is compiled, if open, ends at HERE.
CodeIn(b, ds, open) ==
    /\ ds[1].items = <<>> /\ ds[2].items = <<>>
    /\ open => Len(ds) >= 3
    /\ \A k \in 1 .. Len(ds) : \E e \in Nat :
          /\ Code(b, ds[k], e)
          /\ e <= LastUsed(b) + CELL
          /\ \A j \in 1 .. Len(ds) : k < j => e <= ds[j].at
          /\ open /\ k = Len(ds) => e = LastUsed(b) + CELL

CodeInv == CodeIn(bytes, defined, compiling)

\* The step over a text of n characters goes behind its last one.
LEMMA SkipIs ==
    ASSUME NEW n \in Nat
    PROVE  /\ QuoteSkip(n) \in Nat /\ CELL * QuoteSkip(n) \in Nat /\ n <= CELL * QuoteSkip(n)
           /\ CELL * (15 + QuoteSkip(n)) = 15 * CELL + CELL * QuoteSkip(n)
<1>1. CELL \in Nat \ {0}
  BY CellAssumption
<1>2. PICK k \in Nat : CELL * k <= n + CELL - 1 /\ n + CELL - 1 < CELL * k + CELL
                       /\ k = (n + CELL - 1) \div CELL
  BY <1>1
<1>3. QuoteSkip(n) = k
  <2>1. Aligned(n) = CELL * k
    BY <1>2 DEF Aligned
  <2>2. (CELL * k) \div CELL = k
    BY <1>1, <1>2
  <2>3. QED
    BY <2>1, <2>2 DEF QuoteSkip
<1>4. CELL * k \in Nat /\ n <= CELL * k
  BY <1>1, <1>2
<1>5. CELL * (15 + k) = 15 * CELL + CELL * k
  BY <1>1
<1>6. QED
  BY <1>3, <1>4, <1>5

\* An item is a cell or a text.
LEMMA ItemIs ==
    ASSUME NEW item \in Items
    PROVE  \/ Len(item) = 1 /\ Size(item) = CELL
           \/ /\ Len(item) # 1 /\ item[2] \in Seq(1 .. 255) /\ Len(item[2]) \in Nat
              /\ QuoteSkip(Len(item[2])) \in Nat
              /\ Size(item) = CELL * (15 + QuoteSkip(Len(item[2])))
<1>1. CASE \E w \in Codes : item = <<w>>
  BY <1>1 DEF Size
<1>2. CASE \E t \in Texts : item = <<"text", t>>
  <2>1. PICK t \in Texts : item = <<"text", t>>
    BY <1>2
  <2>2. Len(item) = 2 /\ item[2] = t
    BY <2>1
  <2>3. t \in Seq(1 .. 255)
    BY NameAssumption
  <2>4. Len(t) \in Nat
    BY <2>3
  <2>5. QuoteSkip(Len(t)) \in Nat
    BY <2>4, SkipIs
  <2>6. QED
    BY <2>2, <2>3, <2>4, <2>5 DEF Size
<1>3. QED
  BY <1>1, <1>2 DEF Items

\* An item takes a cell at least.
LEMMA SizeIs ==
    ASSUME NEW item \in Items
    PROVE  Size(item) \in Nat /\ Size(item) >= CELL
<1>1. CELL \in Nat
  BY CellAssumption
<1>2. CASE Len(item) = 1
  BY <1>1, <1>2 DEF Size
<1>3. CASE Len(item) # 1
  <2> DEFINE n == Len(item[2])
             K == CELL * QuoteSkip(n)
  <2>1. n \in Nat
    BY <1>3, ItemIs
  <2> HIDE DEF n
  <2>2. K \in Nat /\ CELL * (15 + QuoteSkip(n)) = 15 * CELL + K
    BY <2>1, SkipIs
  <2> HIDE DEF K
  <2>3. Size(item) = 15 * CELL + K
    BY <1>3, <2>2 DEF Size, n
  <2>4. QED
    BY <1>1, <2>2, <2>3
<1>4. QED
  BY <1>2, <1>3

\* An item depends on its own bytes only.
LEMMA ItemStays ==
    ASSUME NEW b \in Memory, NEW c, NEW item \in Items, NEW a \in Nat, ItemAt(b, a, item),
           \A x \in a .. (a + Size(item) - 1) : x \in Ram /\ c[x] = b[x]
    PROVE  ItemAt(c, a, item)
<1>1. CELL \in Nat
  BY CellAssumption
<1>2. CASE Len(item) = 1
  <2>1. Size(item) = CELL
    BY <1>2 DEF Size
  <2>2. Cell(c, a) = Cell(b, a)
    BY <2>1, SameCell
  <2>3. QED
    BY <1>2, <2>2 DEF ItemAt
<1>3. CASE Len(item) # 1
  <2> DEFINE t == item[2]
             n == Len(t)
             K == CELL * QuoteSkip(n)
  <2>1. n \in Nat
    BY <1>3, ItemIs
  <2> HIDE DEF n
  <2>2. K \in Nat /\ n <= K /\ CELL * (15 + QuoteSkip(n)) = 15 * CELL + K
    BY <2>1, SkipIs
  <2> HIDE DEF K
  <2>3. Size(item) = 15 * CELL + K
    BY <1>3, <2>2 DEF Size, n
  <2>4. \A x \in a .. (a + 15 * CELL + K - 1) : x \in Ram /\ c[x] = b[x]
    BY <1>1, <2>2, <2>3
  <2>5. ASSUME NEW p \in {CELL, 3 * CELL, 7 * CELL}
        PROVE  Cell(c, a + p) = Cell(b, a + p)
    <3>1. /\ a + p \in Nat
          /\ \A x \in (a + p) .. (a + p + CELL - 1) : x \in a .. (a + 15 * CELL + K - 1)
      BY <1>1, <2>2
    <3>2. \A x \in (a + p) .. (a + p + CELL - 1) : x \in Ram /\ c[x] = b[x]
      BY <2>4, <3>1
    <3>3. QED
      BY <3>1, <3>2, SameCell
  <2>6. \A x \in 1 .. n : a + 15 * CELL + x - 1 \in a .. (a + 15 * CELL + K - 1)
    BY <1>1, <2>1, <2>2
  <2>7. \A x \in 1 .. n : c[a + 15 * CELL + x - 1] = b[a + 15 * CELL + x - 1]
    BY <2>4, <2>6
  <2>8. QED
    BY <1>3, <2>5, <2>7 DEF ItemAt, n
<1>4. QED
  BY <1>2, <1>3

\* So does the code of a word.
LEMMA CodeStays ==
    ASSUME NEW b \in Memory, NEW c, NEW d, d.items \in Seq(Items), TextPlace(d) \in Nat,
           NEW e, Code(b, d, e),
           \A x \in TextPlace(d) .. (e - 1) : x \in Ram /\ c[x] = b[x]
    PROVE  Code(c, d, e)
<1> DEFINE N == Len(d.items)
<1>1. PICK at : Placed(b, d, e, at)
  BY DEF Code
<1>2. N \in Nat /\ e \in Nat /\ \A j \in 1 .. N : d.items[j] \in Items
  BY ElementOfSeq DEF Code
<1> HIDE DEF N
<1>3. ASSUME NEW j \in 1 .. N
      PROVE  ItemAt(c, at[j], d.items[j])
  <2>1. j \in 1 .. (N + 1) /\ j + 1 \in 1 .. (N + 1)
    BY <1>2
  <2>2. at[j] \in Nat /\ at[j + 1] \in Nat
    BY <1>1, <2>1 DEF Placed, N
  <2>3. /\ at[j + 1] = at[j] + Size(d.items[j]) /\ TextPlace(d) <= at[j] /\ at[j + 1] <= e
        /\ ItemAt(b, at[j], d.items[j])
    BY <1>1 DEF Placed, N
  <2>4. d.items[j] \in Items
    BY <1>2
  <2>5. Size(d.items[j]) \in Nat
    BY <2>4, SizeIs
  <2>6. \A x \in at[j] .. (at[j] + Size(d.items[j]) - 1) : x \in TextPlace(d) .. (e - 1)
    BY <1>2, <2>2, <2>3, <2>5
  <2>7. QED
    BY <2>2, <2>3, <2>4, <2>6, ItemStays
<1>4. Placed(c, d, e, at)
  BY <1>1, <1>3 DEF Placed, N
<1>5. QED
  BY <1>4 DEF Code

\* One more item behind the code of a word.
LEMMA CodeGrows ==
    ASSUME NEW b, NEW d, NEW f, NEW e, NEW item \in Items, Code(b, d, e),
           d.items \in Seq(Items), TextPlace(d) \in Nat, TextPlace(f) = TextPlace(d),
           f.items = Append(d.items, item), ItemAt(b, e, item)
    PROVE  Code(b, f, e + Size(item))
<1> DEFINE N == Len(d.items)
           s == Size(item)
<1>1. PICK at : Placed(b, d, e, at)
  BY DEF Code
<1>2. /\ N \in Nat /\ e \in Nat /\ TextPlace(d) <= e
      /\ Len(f.items) = N + 1 /\ f.items[N + 1] = item
      /\ \A j \in 1 .. N : f.items[j] = d.items[j]
  BY DEF Code
<1>3. s \in Nat
  BY SizeIs
<1> HIDE DEF N, s
<1> DEFINE to == [j \in 1 .. (N + 2) |-> IF j = N + 2 THEN e + s ELSE at[j]]
<1>4. \A j \in 1 .. (N + 1) : to[j] = at[j] /\ at[j] \in Nat
  BY <1>1, <1>2 DEF Placed, N
<1>5. to[N + 2] = e + s /\ to[N + 1] = e /\ to[1] = TextPlace(d)
  <2>1. N + 2 \in 1 .. (N + 2) /\ N + 1 \in 1 .. (N + 1) /\ 1 \in 1 .. (N + 1)
    BY <1>2
  <2>2. at[N + 1] = e /\ at[1] = TextPlace(d)
    BY <1>1 DEF Placed, N
  <2>3. QED
    BY <1>4, <2>1, <2>2
<1>6. to \in [1 .. (N + 2) -> Nat]
  <2>1. \A j \in 1 .. (N + 2) : j # N + 2 => j \in 1 .. (N + 1)
    BY <1>2
  <2>2. e + s \in Nat
    BY <1>2, <1>3
  <2>3. \A j \in 1 .. (N + 2) : (IF j = N + 2 THEN e + s ELSE at[j]) \in Nat
    BY <1>4, <2>1, <2>2
  <2>4. QED
    BY <2>3
<1> HIDE DEF to
<1>7. ASSUME NEW j \in 1 .. (N + 1)
      PROVE  /\ to[j + 1] = to[j] + Size(f.items[j])
             /\ TextPlace(d) <= to[j] /\ to[j + 1] <= e + s
             /\ ItemAt(b, to[j], f.items[j])
  <2>1. CASE j = N + 1
    <3>1. j + 1 = N + 2
      BY <1>2, <2>1
    <3>2. to[j] = e /\ to[j + 1] = e + s /\ f.items[j] = item
      BY <1>2, <1>5, <2>1, <3>1
    <3>3. QED
      BY <1>2, <1>3, <3>2 DEF s
  <2>2. CASE j # N + 1
    <3>1. j \in 1 .. N /\ j \in 1 .. (N + 1) /\ j + 1 \in 1 .. (N + 1)
      BY <1>2, <2>2
    <3>2. /\ at[j + 1] = at[j] + Size(d.items[j])
          /\ TextPlace(d) <= at[j] /\ at[j + 1] <= e
          /\ ItemAt(b, at[j], d.items[j])
      BY <1>1, <3>1 DEF Placed, N
    <3>3. to[j] = at[j] /\ to[j + 1] = at[j + 1] /\ f.items[j] = d.items[j] /\ at[j + 1] \in Nat
      BY <1>2, <1>4, <3>1
    <3>4. at[j + 1] <= e + s
      BY <1>2, <1>3, <3>2, <3>3
    <3>5. QED
      BY <3>2, <3>3, <3>4
  <2>3. QED
    BY <2>1, <2>2
<1>8. N + 2 = (N + 1) + 1
  BY <1>2
<1>9. Placed(b, f, e + s, to)
  BY <1>2, <1>5, <1>6, <1>7, <1>8 DEF Placed
<1>10. e + s \in Nat /\ TextPlace(f) <= e + s
  BY <1>2, <1>3
<1>11. QED
  BY <1>9, <1>10 DEF Code, s
\* Where the memory in use ends.
LEMMA InUse ==
    ASSUME NEW b, NEW ds, Holds(b, ds)
    PROVE  /\ LastUsed(b) \in Nat /\ LastUsed(b) + CELL <= RamEnd /\ SecondText <= LastUsed(b)
           /\ CELL \in Nat /\ RamEnd \in Nat /\ DictBase \in Nat /\ SecondText \in Nat
<1>1. LastUsed(b) \in SecondText .. (RamEnd - CELL)
  BY DEF Holds
<1>2. CELL \in Nat /\ RamEnd \in Nat /\ DictBase \in Nat /\ SecondText \in Nat
  BY SystemPlaces
<1>3. QED
  BY <1>1, <1>2

\* The words of the system have no code; the code of the others lies in the RAM
\* in use, and not in the cells of FORTH and HERE.
LEMMA CodeApart ==
    ASSUME NEW b, NEW ds, Holds(b, ds), ds[1].items = <<>>, ds[2].items = <<>>,
           NEW k \in 1 .. Len(ds), NEW e \in Nat, Code(b, ds[k], e), e <= LastUsed(b) + CELL
    PROVE  /\ ds[k].items \in Seq(Items) /\ TextPlace(ds[k]) \in Nat
           /\ ds[k].at \in Nat /\ ds[k].at < TextPlace(ds[k])
           /\ \A x \in TextPlace(ds[k]) .. (e - 1) :
                 x \in Ram /\ x < LastUsed(b) + CELL /\ x \notin FirstCell /\ x \notin SecondCell
<1> DEFINE d == ds[k]
           T == TextPlace(d)
<1>1. /\ InOrder(ds) /\ IsWord(d) /\ ds \in Seq(Entries) /\ Len(ds) \in Nat
      /\ LastUsed(b) \in SecondText .. (RamEnd - CELL)
  BY DEF Holds, InOrder
<1>2. d.items \in Seq(Items)
  <2>1. d \in Entries
    BY <1>1, ElementOfSeq
  <2> HIDE DEF d
  <2>2. QED
    BY <2>1 DEF Entries
<1>3. /\ T \in Nat /\ d.at \in Nat /\ d.at < T /\ DictBase <= d.at
  <2>1. /\ d.at \in Nat /\ LinkOf(d) \in Nat /\ Len(Short(d)) \in Nat /\ CELL \in Nat
        /\ d.at + Len(Short(d)) + 2 <= LinkOf(d) /\ T = LinkOf(d) + CELL /\ DictBase <= d.at
    BY <1>1, WordPlaces, CellAssumption
  <2> HIDE DEF d, T
  <2>2. QED
    BY <2>1
<1> HIDE DEF T
<1>4. ASSUME NEW x \in T .. (e - 1)
      PROVE  x \in Ram /\ x < LastUsed(b) + CELL /\ x \notin FirstCell /\ x \notin SecondCell
  <2>1. LastUsed(b) \in Nat /\ LastUsed(b) + CELL <= RamEnd /\ RamEnd \in Nat /\ DictBase \in Nat
        /\ CELL \in Nat /\ SecondText \in Nat
    BY InUse
  <2> HIDE DEF d
  <2>2. x \in Int /\ DictBase <= x /\ x < e /\ d.at < x
    BY <1>3, <2>1
  <2>3. x \in Ram /\ x < LastUsed(b) + CELL
    BY <2>1, <2>2, RamIs
  <2>4. k \in 3 .. Len(ds)
    <3>1. ASSUME d.items = <<>> PROVE FALSE
      <4>1. PICK at : Placed(b, d, e, at)
        BY DEF Code, d
      <4>2. Len(d.items) + 1 = 1
        BY <3>1
      <4>3. T = e
        BY <4>1, <4>2 DEF Placed, T
      <4>4. QED
        BY <1>3, <4>3
    <3>2. k # 1 /\ k # 2
      BY <3>1 DEF d
    <3>3. QED
      BY <1>1, <3>2
  <2>5. SecondText + CELL <= d.at
    BY <1>1, <2>4 DEF InOrder, d
  <2>6. SecondText + CELL <= x
    BY <1>3, <2>1, <2>2, <2>5
  <2>7. QED
    BY <2>3, <2>6, BehindSystem
<1>5. QED
  BY <1>2, <1>3, <1>4 DEF T

\* What was kept leaves the code of every word as it is.
LEMMA CodeKept ==
    ASSUME NEW b, NEW ds, Holds(b, ds), ds[1].items = <<>>, ds[2].items = <<>>,
           NEW k \in 1 .. Len(ds), NEW e \in Nat, Code(b, ds[k], e), e <= LastUsed(b) + CELL,
           NEW c, Keeps(b, c)
    PROVE  Code(c, ds[k], e)
<1>1. /\ ds[k].items \in Seq(Items) /\ TextPlace(ds[k]) \in Nat
      /\ \A x \in TextPlace(ds[k]) .. (e - 1) :
            x \in Ram /\ x < LastUsed(b) + CELL /\ x \notin FirstCell /\ x \notin SecondCell
  BY CodeApart
<1>2. b \in Memory
  BY DEF Holds
<1>3. \A x \in TextPlace(ds[k]) .. (e - 1) : x \in Ram /\ c[x] = b[x]
  BY <1>1 DEF Keeps
<1>4. QED
  BY <1>1, <1>2, <1>3, CodeStays

\* A step that only moves HERE, outside of a definition.
LEMMA CodeMoved ==
    ASSUME NEW b, NEW ds, Holds(b, ds), NEW open, CodeIn(b, ds, open), ~open,
           NEW c, Holds(c, ds), Keeps(b, c), LastUsed(b) <= LastUsed(c)
    PROVE  CodeIn(c, ds, open)
<1>1. \A e \in Nat : e <= LastUsed(b) + CELL => e <= LastUsed(c) + CELL
  <2>1. LastUsed(b) \in Nat /\ LastUsed(c) \in Nat /\ CELL \in Nat
    BY InUse
  <2>2. QED
    BY <2>1
<1>2. QED
  BY <1>1, CodeKept DEF CodeIn

\* IMMEDIATE leaves all code alone.
LEMMA CodeMarked ==
    ASSUME NEW b, NEW ds, Holds(b, ds), NEW open, CodeIn(b, ds, open),
           NEW c, LastUsed(c) = LastUsed(b), \A x \in Ram : x # Newest(b) => c[x] = b[x]
    PROVE  CodeIn(c, ds, open)
<1>1. b \in Memory /\ Newest(b) = ds[Len(ds)].at /\ Len(ds) \in Nat /\ Len(ds) >= 2
  BY DEF Holds, InOrder
<1>2. ds[Len(ds)].at \in Nat
  <2>1. Len(ds) \in 1 .. Len(ds)
    BY <1>1
  <2>2. QED
    BY <2>1, WordsIs DEF Holds
<1>3. ASSUME NEW k \in 1 .. Len(ds), NEW e \in Nat, Code(b, ds[k], e), e <= LastUsed(b) + CELL,
             \A j \in 1 .. Len(ds) : k < j => e <= ds[j].at
      PROVE  Code(c, ds[k], e)
  <2>1. /\ ds[k].items \in Seq(Items) /\ TextPlace(ds[k]) \in Nat
        /\ ds[k].at \in Nat /\ ds[k].at < TextPlace(ds[k])
        /\ \A x \in TextPlace(ds[k]) .. (e - 1) : x \in Ram
    BY <1>3, CodeApart DEF CodeIn
  <2>2. ASSUME NEW x \in TextPlace(ds[k]) .. (e - 1)
        PROVE  x # ds[Len(ds)].at
    <3>1. CASE k = Len(ds)
      BY <2>1, <3>1
    <3>2. CASE k # Len(ds)
      <4>1. k < Len(ds) /\ Len(ds) \in 1 .. Len(ds)
        BY <1>1, <3>2
      <4>2. e <= ds[Len(ds)].at
        BY <1>3, <4>1
      <4>3. QED
        BY <1>2, <2>1, <4>2
    <3>3. QED
      BY <3>1, <3>2
  <2>3. \A x \in TextPlace(ds[k]) .. (e - 1) : x \in Ram /\ c[x] = b[x]
    BY <1>1, <2>1, <2>2
  <2>4. QED
    BY <1>1, <1>3, <2>1, <2>3, CodeStays
<1>4. QED
  BY <1>3 DEF CodeIn

\* A word that is defined has no code, and lies behind that of the others.
LEMMA CodeDefined ==
    ASSUME NEW b, NEW ds, Holds(b, ds), CodeIn(b, ds, FALSE),
           NEW c, NEW d, Holds(c, Append(ds, d)), Keeps(b, c), LastUsed(b) <= LastUsed(c),
           d.items = <<>>, d.at = LastUsed(b) + CELL,
           NEW open \in BOOLEAN, open => TextPlace(d) = LastUsed(c) + CELL
    PROVE  CodeIn(c, Append(ds, d), open)
<1> DEFINE es == Append(ds, d)
           N == Len(ds)
<1>1. ds \in Seq(Entries) /\ N \in Nat /\ N >= 2
  BY DEF Holds, InOrder
<1>2. Len(es) = N + 1 /\ es[N + 1] = d /\ \A k \in 1 .. N : es[k] = ds[k]
  BY <1>1
<1>3. LastUsed(b) \in Nat /\ LastUsed(c) \in Nat /\ CELL \in Nat
  BY InUse
<1>4. /\ TextPlace(d) <= LastUsed(c) + CELL /\ TextPlace(d) \in Nat
  <2>1. N + 1 \in 1 .. Len(es)
    BY <1>1, <1>2
  <2>2. TextPlace(es[N + 1]) <= LastUsed(c) + CELL /\ IsWord(es[N + 1])
    BY <2>1 DEF Holds, InOrder
  <2>3. QED
    BY <1>2, <2>2, WordPlaces
<1> HIDE DEF es, N
<1>5. es[1].items = <<>> /\ es[2].items = <<>> /\ Len(es) >= 3
  <2>1. 1 \in 1 .. N /\ 2 \in 1 .. N /\ N + 1 >= 3
    BY <1>1
  <2>2. QED
    BY <1>2, <2>1 DEF CodeIn
<1> DEFINE Ended(k, e) == /\ Code(c, es[k], e)
                          /\ e <= LastUsed(c) + CELL
                          /\ \A j \in 1 .. Len(es) : k < j => e <= es[j].at
                          /\ open /\ k = Len(es) => e = LastUsed(c) + CELL
<1>6. ASSUME NEW k \in 1 .. N
      PROVE  \E e \in Nat : Ended(k, e)
  <2>1. PICK e \in Nat : /\ Code(b, ds[k], e) /\ e <= LastUsed(b) + CELL
                         /\ \A j \in 1 .. N : k < j => e <= ds[j].at
    BY DEF CodeIn, N
  <2>2. Code(c, es[k], e)
    <3>1. Code(c, ds[k], e)
      BY <2>1, CodeKept DEF CodeIn, N
    <3>2. QED
      BY <1>2, <3>1
  <2>3. e <= LastUsed(c) + CELL /\ e <= d.at
    BY <1>3, <2>1
  <2>4. \A j \in 1 .. (N + 1) : k < j => e <= es[j].at
    <3>1. \A j \in 1 .. (N + 1) : j \in 1 .. N \/ j = N + 1
      BY <1>1
    <3>2. QED
      BY <1>2, <2>1, <2>3, <3>1
  <2>5. k # Len(es)
    BY <1>1, <1>2
  <2>6. QED
    BY <1>2, <2>2, <2>3, <2>4, <2>5
<1>7. Ended(N + 1, TextPlace(d))
  <2> DEFINE at == [j \in 1 .. 1 |-> TextPlace(d)]
  <2>1. Len(d.items) = 0
    OBVIOUS
  <2>2. Placed(c, d, TextPlace(d), at)
    BY <1>4, <2>1 DEF Placed
  <2>3. Code(c, d, TextPlace(d))
    BY <1>4, <2>2 DEF Code
  <2>4. \A j \in 1 .. (N + 1) : ~(N + 1 < j)
    BY <1>1
  <2>5. QED
    BY <1>2, <1>4, <2>3, <2>4
<1> HIDE DEF Ended
<1>8. \A k \in 1 .. Len(es) : \E e \in Nat : Ended(k, e)
  <2>1. \A k \in 1 .. Len(es) : k \in 1 .. N \/ k = N + 1
    BY <1>1, <1>2
  <2>2. QED
    BY <1>4, <1>6, <1>7, <2>1
<1>9. QED
  BY <1>5, <1>8 DEF CodeIn, Ended, es

\* An item that is compiled behind HERE is the next one of the word.
LEMMA CodeLonger ==
    ASSUME NEW b, NEW ds, Holds(b, ds), CodeIn(b, ds, TRUE), NEW item \in Items,
           NEW c, Holds(c, Longer(ds, item)), Keeps(b, c),
           ItemAt(c, LastUsed(b) + CELL, item),
           LastUsed(c) + CELL = LastUsed(b) + CELL + Size(item),
           NEW open \in BOOLEAN
    PROVE  CodeIn(c, Longer(ds, item), open)
<1> DEFINE es == Longer(ds, item)
           N == Len(ds)
<1>1. InOrder(ds) /\ N \in Nat /\ N >= 3
  BY DEF Holds, InOrder, CodeIn
<1>2. /\ Len(es) = N
      /\ \A k \in 1 .. N :
            /\ es[k].at = ds[k].at /\ es[k].name = ds[k].name /\ es[k].kind = ds[k].kind
            /\ es[k].items = IF k = N THEN Append(ds[k].items, item) ELSE ds[k].items
  BY <1>1, LongerIs
<1>3. LastUsed(b) \in Nat /\ LastUsed(c) \in Nat /\ CELL \in Nat /\ Size(item) \in Nat
  BY InUse, SizeIs
<1> HIDE DEF es, N
<1>4. es[1].items = <<>> /\ es[2].items = <<>>
  <2>1. 1 \in 1 .. N /\ 2 \in 1 .. N /\ 1 # N /\ 2 # N
    BY <1>1
  <2>2. QED
    BY <1>2, <2>1 DEF CodeIn
<1>5. \A k \in 1 .. N : TextPlace(es[k]) = TextPlace(ds[k])
  BY <1>2 DEF TextPlace, LinkOf, Short
<1> DEFINE Ended(k, e) == /\ Code(c, es[k], e)
                          /\ e <= LastUsed(c) + CELL
                          /\ \A j \in 1 .. N : k < j => e <= es[j].at
                          /\ open /\ k = N => e = LastUsed(c) + CELL
<1>6. ASSUME NEW k \in 1 .. N
      PROVE  \E e \in Nat : Ended(k, e)
  <2>1. PICK e \in Nat : /\ Code(b, ds[k], e) /\ e <= LastUsed(b) + CELL
                         /\ \A j \in 1 .. N : k < j => e <= ds[j].at
                         /\ k = N => e = LastUsed(b) + CELL
    BY DEF CodeIn, N
  <2>2. Code(c, ds[k], e)
    BY <2>1, CodeKept DEF CodeIn, N
  <2>3. CASE k # N
    <3>1. es[k].items = ds[k].items
      BY <1>2, <2>3
    <3>2. Code(c, es[k], e)
      BY <1>5, <2>2, <3>1 DEF Code, Placed
    <3>3. e <= LastUsed(c) + CELL
      BY <1>3, <2>1
    <3>4. \A j \in 1 .. N : k < j => e <= es[j].at
      BY <1>2, <2>1
    <3>5. QED
      BY <2>3, <3>2, <3>3, <3>4
  <2>4. CASE k = N
    <3>1. e = LastUsed(b) + CELL
      BY <2>1, <2>4
    <3>2. /\ ds[k].items \in Seq(Items) /\ TextPlace(ds[k]) \in Nat
      BY <2>1, CodeApart DEF CodeIn, N
    <3>3. es[k].items = Append(ds[k].items, item)
      BY <1>2, <2>4
    <3>4. ItemAt(c, e, item)
      BY <3>1
    <3>5. Code(c, es[k], e + Size(item))
      BY <1>5, <2>2, <3>2, <3>3, <3>4, CodeGrows
    <3>6. e + Size(item) \in Nat /\ e + Size(item) = LastUsed(c) + CELL
      BY <1>3, <3>1
    <3>7. \A j \in 1 .. N : ~(k < j)
      BY <1>1, <2>4
    <3>8. Ended(k, e + Size(item))
      BY <1>3, <3>5, <3>6, <3>7
    <3>9. QED
      BY <3>6, <3>8
  <2>5. QED
    BY <2>3, <2>4
<1>7. QED
  BY <1>1, <1>2, <1>4, <1>6 DEF CodeIn, es
\* The words of the system have no code.
LEMMA CodeInvInit == Init => CodeInv
<1> SUFFICES ASSUME Init PROVE CodeInv
  OBVIOUS
<1>1. bytes = forth_dict_init /\ compiling = FALSE /\ defined = System
  BY DEF Init, System
<1>2. Holds(bytes, System) /\ LastUsed(bytes) = SecondText
  BY <1>1, InitHolds
<1>3. /\ Len(System) = 2 /\ System[1].items = <<>> /\ System[2].items = <<>>
      /\ TextPlace(System[1]) = FirstText /\ TextPlace(System[2]) = SecondText
      /\ System[2].at = SecondHeader
  BY SystemIs
<1>4. /\ FirstText \in Nat /\ SecondText \in Nat /\ CELL \in Nat
      /\ SecondHeader = FirstText + CELL /\ SecondHeader < SecondText
  BY SystemPlaces
<1>5. ASSUME NEW k \in 1 .. 2
      PROVE  Code(bytes, System[k], TextPlace(System[k]))
  <2> DEFINE d == System[k]
             at == [j \in 1 .. 1 |-> TextPlace(d)]
  <2>1. TextPlace(d) \in Nat /\ Len(d.items) = 0
    BY <1>3, <1>4
  <2> HIDE DEF d
  <2>2. Placed(bytes, d, TextPlace(d), at)
    BY <2>1 DEF Placed
  <2>3. QED
    BY <2>1, <2>2 DEF Code, d
<1>6. ASSUME NEW k \in 1 .. 2
      PROVE  /\ TextPlace(System[k]) \in Nat /\ TextPlace(System[k]) <= LastUsed(bytes) + CELL
             /\ \A j \in 1 .. 2 : k < j => TextPlace(System[k]) <= System[j].at
  <2>1. CASE k = 1
    BY <1>2, <1>3, <1>4, <2>1
  <2>2. CASE k = 2
    BY <1>2, <1>3, <1>4, <2>2
  <2>3. QED
    BY <2>1, <2>2
<1>7. QED
  BY <1>1, <1>3, <1>5, <1>6 DEF CodeInv, CodeIn

\* A step that defines a word.
LEMMA DefineCode ==
    ASSUME LayoutInv, LayoutInv', CodeInv, ~compiling, Keeps(bytes, bytes'),
           LastUsed(bytes) <= LastUsed(bytes'),
           NEW name, NEW kind, defined' = Remembered(name, HeaderPlace(bytes), kind),
           compiling' => LastUsed(bytes') = LinkPlace(HeaderPlace(bytes), Compared(name))
    PROVE  CodeInv'
<1> DEFINE d == [name |-> name, at |-> HeaderPlace(bytes), kind |-> kind, items |-> <<>>]
<1>1. /\ Holds(bytes, defined) /\ Holds(bytes', defined') /\ compiling = FALSE /\ compiling' \in BOOLEAN
  BY DEF LayoutInv
<1>2. defined' = Append(defined, d)
  BY DEF Remembered
<1>3. d.items = <<>> /\ d.at = LastUsed(bytes) + CELL
  BY DEF HeaderPlace
<1>4. compiling' => TextPlace(d) = LastUsed(bytes') + CELL
  BY DEF TextPlace, LinkOf, Short
<1>5. CodeIn(bytes, defined, FALSE)
  BY <1>1 DEF CodeInv
<1> HIDE DEF d
<1>6. CodeIn(bytes', Append(defined, d), compiling')
  BY <1>1, <1>2, <1>3, <1>4, <1>5, CodeDefined
<1>7. QED
  BY <1>2, <1>6 DEF CodeInv

\* A step that compiles an item.
LEMMA CompileCode ==
    ASSUME LayoutInv, LayoutInv', CodeInv, compiling, Keeps(bytes, bytes'),
           NEW item \in Items, defined' = Compiled(item),
           ItemAt(bytes', LastUsed(bytes) + CELL, item),
           LastUsed(bytes') + CELL = LastUsed(bytes) + CELL + Size(item)
    PROVE  CodeInv'
<1>1. /\ Holds(bytes, defined) /\ Holds(bytes', defined') /\ compiling = TRUE /\ compiling' \in BOOLEAN
  BY DEF LayoutInv
<1>2. defined' = Longer(defined, item)
  BY DEF Compiled, Longer
<1>3. CodeIn(bytes, defined, TRUE)
  BY <1>1 DEF CodeInv
<1>4. CodeIn(bytes', Longer(defined, item), compiling')
  BY <1>1, <1>2, <1>3, CodeLonger
<1>5. QED
  BY <1>2, <1>4 DEF CodeInv

\* Every step leaves the code that was compiled where it is, and whole.
LEMMA CodeInvNext ==
    ASSUME LayoutInv, CodeInv, [Next]_layoutVars
    PROVE  CodeInv'
<1>1. ASSUME NEW name \in Names, NEW value \in Codes, NEW kind \in Kinds, AddValue(kind, name, value)
      PROVE  CodeInv'
  <2>1. LayoutInv' /\ Keeps(bytes, bytes') /\ LastUsed(bytes) <= LastUsed(bytes')
    BY <1>1, AddValueKeeps
  <2>2. defined' = Remembered(name, HeaderPlace(bytes), kind) /\ ~compiling /\ ~compiling'
    BY <1>1 DEF AddValue
  <2>3. QED
    BY <2>1, <2>2, DefineCode
<1>2. ASSUME NEW name \in Names, colon_handler(name)
      PROVE  CodeInv'
  <2>1. /\ LayoutInv' /\ Keeps(bytes, bytes') /\ LastUsed(bytes) <= LastUsed(bytes')
        /\ LastUsed(bytes') = LinkPlace(HeaderPlace(bytes), Compared(name))
    BY <1>2, ColonKeeps
  <2>2. defined' = Remembered(name, HeaderPlace(bytes), TEXT) /\ ~compiling
    BY <1>2 DEF colon_handler
  <2>3. QED
    BY <2>1, <2>2, DefineCode
<1>3. ASSUME NEW w \in Codes, Compile(w) \/ semicolon(w)
      PROVE  CodeInv'
  <2>1. Compiles(w) /\ compiling' \in BOOLEAN
    BY <1>3 DEF Compile, semicolon, LayoutInv
  <2>2. /\ LayoutInv' /\ Keeps(bytes, bytes')
        /\ LastUsed(bytes') = LastUsed(bytes) + CELL /\ Cell(bytes', LastUsed(bytes) + CELL) = w
    BY <2>1, CompilesKeeps
  <2>3. defined' = Compiled(<<w>>) /\ compiling
    BY <2>1 DEF Compiles
  <2>4. <<w>> \in Items /\ Len(<<w>>) = 1 /\ <<w>>[1] = w
    BY DEF Items
  <2>5. Size(<<w>>) = CELL /\ ItemAt(bytes', LastUsed(bytes) + CELL, <<w>>)
    BY <2>2, <2>4 DEF Size, ItemAt
  <2>6. LastUsed(bytes') + CELL = LastUsed(bytes) + CELL + Size(<<w>>)
    BY <2>2, <2>5
  <2>7. QED
    BY <2>2, <2>3, <2>4, <2>5, <2>6, CompileCode
<1>4. ASSUME NEW text \in Texts, dot_quote_immediate_handler(text)
      PROVE  CodeInv'
  <2> DEFINE n == Len(text)
             code == LastUsed(bytes) + CELL
             item == <<"text", text>>
  <2>1. /\ LayoutInv' /\ Keeps(bytes, bytes')
        /\ LastUsed(bytes') + CELL = code + CELL * (15 + QuoteSkip(n))
        /\ Cell(bytes', code + CELL) = n /\ Cell(bytes', code + 3 * CELL) = n
        /\ Cell(bytes', code + 7 * CELL) = 10 * CELL
        /\ \A x \in 1 .. n : bytes'[code + CELL * 15 + x - 1] = text[x]
    BY <1>4, QuoteKeeps
  <2>2. defined' = Compiled(item) /\ compiling
    BY <1>4 DEF dot_quote_immediate_handler
  <2>3. item \in Items /\ Len(item) # 1 /\ item[2] = text
    BY DEF Items
  <2>4. CELL * 15 = 15 * CELL
    BY CellAssumption
  <2> HIDE DEF item, code
  <2>5. Size(item) = CELL * (15 + QuoteSkip(n)) /\ ItemAt(bytes', code, item)
    BY <2>1, <2>3, <2>4 DEF Size, ItemAt
  <2>6. LastUsed(bytes') + CELL = code + Size(item)
    BY <2>1, <2>5
  <2>7. QED
    BY <2>1, <2>2, <2>3, <2>5, <2>6, CompileCode DEF code
<1>5. ASSUME LayoutInv', Keeps(bytes, bytes'), LastUsed(bytes) <= LastUsed(bytes'),
             ~compiling, compiling' = compiling, defined' = defined
      PROVE  CodeInv'
  <2>1. Holds(bytes, defined) /\ Holds(bytes', defined)
    BY <1>5 DEF LayoutInv
  <2>2. CodeIn(bytes', defined, compiling)
    BY <1>5, <2>1, CodeMoved DEF CodeInv
  <2>3. QED
    BY <1>5, <2>2 DEF CodeInv
<1>6. ASSUME NEW n \in Nat, allot_handler(n)
      PROVE  CodeInv'
  <2>1. LayoutInv' /\ Keeps(bytes, bytes') /\ LastUsed(bytes) <= LastUsed(bytes')
    BY <1>6, AllotKeeps
  <2>2. ~compiling /\ compiling' = compiling /\ defined' = defined
    BY <1>6 DEF allot_handler
  <2>3. QED
    BY <1>5, <2>1, <2>2
<1>7. ASSUME align_handler
      PROVE  CodeInv'
  <2>1. LayoutInv' /\ Keeps(bytes, bytes') /\ LastUsed(bytes) <= LastUsed(bytes')
    BY <1>7, AlignKeeps
  <2>2. ~compiling /\ compiling' = compiling /\ defined' = defined
    BY <1>7 DEF align_handler
  <2>3. QED
    BY <1>5, <2>1, <2>2
<1>8. ASSUME immediate_handler
      PROVE  CodeInv'
  <2>1. /\ bytes' = [bytes EXCEPT ![Newest(bytes)] = WithImmediate(@)]
        /\ compiling' = compiling /\ defined' = defined /\ Holds(bytes, defined)
    BY <1>8 DEF immediate_handler, LayoutInv
  <2>2. LastUsed(bytes') = LastUsed(bytes) /\ \A x \in Ram : x # Newest(bytes) => bytes'[x] = bytes[x]
    BY <2>1, ImmediateHolds
  <2>3. CodeIn(bytes', defined, compiling)
    BY <2>1, <2>2, CodeMarked DEF CodeInv
  <2>4. QED
    BY <2>1, <2>3 DEF CodeInv
<1>9. ASSUME UNCHANGED layoutVars
      PROVE  CodeInv'
  BY <1>9 DEF layoutVars, CodeInv
<1>10. ASSUME NEW n \in Lengths
       PROVE  n \in Nat /\ aligned_handler(n) \in Nat
  <2>1. n \in Nat
    BY NameAssumption
  <2>2. QED
    BY <2>1, AlignedIs DEF aligned_handler
<1>11. VAR \in Kinds /\ CONST \in Kinds
  BY DEF Kinds
<1>12. QED
  BY <1>1, <1>2, <1>3, <1>4, <1>6, <1>7, <1>8, <1>9, <1>10, <1>11 DEF Next

\* Where control meets the items, from the header h on.
Followed(b, h, items) ==
    LET at[j \in 1 .. (Len(items) + 1)] ==
            IF j = 1 THEN TextAt(b, h)
            ELSE LET a == at[j - 1] IN
                 IF Len(items[j - 1]) = 1 THEN a + CELL
                 ELSE a + CELL * (15 + QuoteSkip(Cell(b, a + 3 * CELL)))
    IN  at

\* Control meets the items where they are.
LEMMA CodeFollowed ==
    ASSUME NEW b, NEW ds, Holds(b, ds), NEW k \in 1 .. Len(ds), NEW e, Code(b, ds[k], e)
    PROVE  LET items == ds[k].items
               at == Followed(b, ds[k].at, items)
           IN  \A j \in 1 .. Len(items) : at[j] \in Nat /\ ItemAt(b, at[j], items[j])
<1> DEFINE items == ds[k].items
           N == Len(items)
           step(a, item) == IF Len(item) = 1 THEN a + CELL
                            ELSE a + CELL * (15 + QuoteSkip(Cell(b, a + 3 * CELL)))
           Def(f) == [j \in 1 .. (N + 1) |->
                         IF j = 1 THEN TextAt(b, ds[k].at) ELSE step(f[j - 1], items[j - 1])]
<1>1. PICK w : Placed(b, ds[k], e, w)
  BY DEF Code
<1>2. items \in Seq(Items) /\ N \in Nat /\ \A j \in 1 .. N : items[j] \in Items
  <2>1. ds[k] \in Entries
    BY ElementOfSeq DEF Holds, InOrder
  <2>2. items \in Seq(Items)
    BY <2>1 DEF Entries
  <2> HIDE DEF items
  <2>3. QED
    BY <2>2, ElementOfSeq
<1>3. TextAt(b, ds[k].at) = TextPlace(ds[k])
  BY NameIs
<1>4. /\ w \in [1 .. (N + 1) -> Nat] /\ w[1] = TextAt(b, ds[k].at)
      /\ \A j \in 1 .. N : w[j + 1] = w[j] + Size(items[j]) /\ ItemAt(b, w[j], items[j])
  BY <1>1, <1>3 DEF Placed
<1> HIDE DEF items, N
<1>5. ASSUME NEW j \in 1 .. N
      PROVE  w[j + 1] = step(w[j], items[j])
  <2>1. w[j + 1] = w[j] + Size(items[j]) /\ ItemAt(b, w[j], items[j])
    BY <1>4
  <2>2. QED
    BY <2>1 DEF Size, ItemAt
<1> HIDE DEF step
<1>6. w = Def(w)
  <2>1. \A j \in 1 .. (N + 1) : w[j] = IF j = 1 THEN TextAt(b, ds[k].at) ELSE step(w[j - 1], items[j - 1])
    <3> SUFFICES ASSUME NEW j \in 1 .. (N + 1)
                 PROVE  w[j] = IF j = 1 THEN TextAt(b, ds[k].at) ELSE step(w[j - 1], items[j - 1])
      OBVIOUS
    <3>1. CASE j = 1
      BY <1>4, <3>1
    <3>2. CASE j # 1
      <4>1. j - 1 \in 1 .. N /\ (j - 1) + 1 = j
        BY <1>2, <3>2
      <4>2. w[(j - 1) + 1] = step(w[j - 1], items[j - 1])
        BY <1>5, <4>1
      <4>3. QED
        BY <3>2, <4>1, <4>2
    <3>3. QED
      BY <3>1, <3>2
  <2>2. w = [j \in 1 .. (N + 1) |-> w[j]]
    BY <1>4
  <2>3. QED
    BY <2>1, <2>2
<1> DEFINE g == CHOOSE f : f = Def(f)
<1>7. g = Def(g)
  BY <1>6
<1> HIDE DEF g
<1>8. \A j \in 1 .. (N + 1) : g[j] = IF j = 1 THEN TextAt(b, ds[k].at) ELSE step(g[j - 1], items[j - 1])
  BY <1>7
<1> DEFINE S == {n \in 0 .. N : g[n + 1] = w[n + 1]}
<1>9. 0 \in S
  <2>1. 0 + 1 = 1 /\ 1 \in 1 .. (N + 1) /\ 0 \in 0 .. N
    BY <1>2
  <2>2. g[1] = w[1]
    BY <1>4, <1>8, <2>1
  <2>3. QED
    BY <2>1, <2>2
<1>10. ASSUME NEW n \in 0 .. (N - 1), n \in S
       PROVE  n + 1 \in S
  <2>1. /\ n + 1 \in 0 .. N /\ (n + 1) + 1 \in 1 .. (N + 1) /\ (n + 1) + 1 # 1
        /\ (n + 1) + 1 - 1 = n + 1 /\ n + 1 \in 1 .. N
    BY <1>2
  <2>2. g[(n + 1) + 1] = step(g[n + 1], items[n + 1])
    BY <1>8, <2>1
  <2>3. w[(n + 1) + 1] = step(w[n + 1], items[n + 1])
    BY <1>5, <2>1
  <2>4. g[n + 1] = w[n + 1]
    BY <1>10
  <2>5. QED
    BY <2>1, <2>2, <2>3, <2>4
<1> HIDE DEF S
<1>11. \A n \in 0 .. N : n \in S
  BY <1>2, <1>9, <1>10, IntervalInduction
<1>12. ASSUME NEW j \in 1 .. N
       PROVE  g[j] \in Nat /\ ItemAt(b, g[j], items[j])
  <2>1. j - 1 \in 0 .. N /\ (j - 1) + 1 = j /\ j \in 1 .. (N + 1)
    BY <1>2
  <2>2. g[(j - 1) + 1] = w[(j - 1) + 1]
    BY <1>11, <2>1 DEF S
  <2>3. QED
    BY <1>4, <2>1, <2>2
<1>13. QED
  BY <1>12 DEF g, items, N, step, Followed

\* Whatever is defined, allotted and compiled later: control that starts at the
\* code of a word meets what was compiled for it, cell by cell and text by text.
THEOREM CodeStaysReadable == Spec => []CodeReadsBack
<1>1. LayoutInv /\ CodeInv => CodeReadsBack
  <2> SUFFICES ASSUME LayoutInv, CodeInv, NEW k \in DOMAIN defined,
                      NEW j \in 1 .. Len(defined[k].items)
               PROVE  LET items == defined[k].items
                          at == Followed(bytes, defined[k].at, items)
                      IN  IF Len(items[j]) = 1 THEN Cell(bytes, at[j]) = items[j][1]
                          ELSE LET n == Cell(bytes, at[j] + CELL)
                                   text == at[j] + 5 * CELL + Cell(bytes, at[j] + 7 * CELL)
                               IN  items[j][2] = [x \in 1 .. n |-> bytes[text + x - 1]]
    BY DEF CodeReadsBack, Followed
  <2> DEFINE items == defined[k].items
             item == items[j]
             at == Followed(bytes, defined[k].at, items)
             a == at[j]
  <2>1. Holds(bytes, defined) /\ k \in 1 .. Len(defined)
    BY DEF LayoutInv, Holds, InOrder
  <2>2. PICK e \in Nat : Code(bytes, defined[k], e)
    BY <2>1 DEF CodeInv, CodeIn
  <2>3. a \in Nat /\ ItemAt(bytes, a, item)
    BY <2>1, <2>2, CodeFollowed
  <2>4. item \in Items
    <3>1. defined[k] \in Entries
      BY <2>1, ElementOfSeq DEF Holds, InOrder
    <3>2. items \in Seq(Items)
      BY <3>1 DEF Entries
    <3>3. j \in 1 .. Len(items)
      OBVIOUS
    <3> HIDE DEF items
    <3>4. QED
      BY <3>2, <3>3, ElementOfSeq
  <2> HIDE DEF a, item
  <2>5. CASE Len(item) = 1
    BY <2>3, <2>5 DEF ItemAt, item, a
  <2>6. CASE Len(item) # 1
    <3> DEFINE n == Len(item[2])
    <3>1. /\ Cell(bytes, a + CELL) = n /\ Cell(bytes, a + 7 * CELL) = 10 * CELL
          /\ \A x \in 1 .. n : bytes[a + 15 * CELL + x - 1] = item[2][x]
      BY <2>3, <2>6 DEF ItemAt
    <3>2. a + 5 * CELL + 10 * CELL = a + 15 * CELL
      BY <2>3, CellAssumption
    <3>3. item[2] \in Seq(1 .. 255)
      BY <2>4, <2>6, ItemIs
    <3>4. item[2] = [x \in 1 .. n |-> item[2][x]]
      BY <3>3
    <3>5. item[2] = [x \in 1 .. n |-> bytes[a + 15 * CELL + x - 1]]
      BY <3>1, <3>4
    <3>6. QED
      BY <2>6, <3>1, <3>2, <3>5 DEF item, a
  <2>7. QED
    BY <2>5, <2>6 DEF item, a
<1>2. Spec => []CodeInv
  BY CodeInvInit, CodeInvNext, LayoutInOrder, PTL DEF Spec
<1>3. QED
  BY <1>1, <1>2, LayoutInOrder, PTL
=============================================================================
