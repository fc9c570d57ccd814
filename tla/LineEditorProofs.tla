-------------------------- MODULE LineEditorProofs --------------------------
(***************************************************************************)
(* For every size of the buffer and every alphabet: the editor keeps its   *)
(* types, its cursor inside the text, its buffer free of characters behind *)
(* the first NUL, and its screen equal to its buffer.                      *)
(*                                                                         *)
(* The inductive invariant names the length n of the text, which the code  *)
(* never stores: a text of n characters is n cells without a NUL and then  *)
(* NULs only.  Every handler computes strlen from the cursor or from the   *)
(* start, StrlenIs says that both find n, and each of the four operations  *)
(* that write is shown to turn a text of n into one of n, n - 1 or n + 1.  *)
(*                                                                         *)
(* For the screen the invariant also says that the text can be typed, so   *)
(* that no character of it steers the terminal, and gives the terminal as  *)
(* the Picture of the buffer.  Every echo goes some columns back, prints a *)
(* string and goes back again (GoesOver); WentOver says what the recursion *)
(* over such an echo leaves, by exhibiting the terminals in between.       *)
(*                                                                         *)
(* Last, the editor implements EditedLine.  The strings of EditedLine are  *)
(* the cells First(data, i) before the cursor and Rest(data, i, n) behind  *)
(* it; lemmas say what becomes of the two when the cursor or a cell moves, *)
(* and then every key is a step of EditedLine or none.                     *)
(***************************************************************************)
EXTENDS LineEditor, SequenceTheorems, Iteration

\* The buffer d holds a text of n characters.
Holds(d, n) ==
    /\ n \in Cell
    /\ d \in [0 .. BufSize -> Text \cup {NUL, SandboxByte}]
    /\ \A k \in 0 .. (n - 1) : d[k] # NUL
    /\ \A k \in n .. (BufSize - 1) : d[k] = NUL

Registers ==
    /\ expect \in {"key", "bracket", "letter", "tilde"}
    /\ err \in {"OK", "ERR", "EXIT"}
    /\ status \in {"editing", "done", "overrun"}

Inv == Registers /\ \E n \in Cell : Holds(data, n) /\ i \in 0 .. n

-----------------------------------------------------------------------------
(* The length of a text. *)

\* From anywhere in the text, strlen finds its end.
LEMMA StrlenIs ==
    ASSUME NEW d, NEW n \in Cell, Holds(d, n), NEW from \in 0 .. n
    PROVE  strlen(d, from) = n - from
<1> DEFINE P(m) == d[from + m] = NUL /\ \A x \in 0 .. (m - 1) : d[from + x] # NUL
<1>1. n - from \in 0 .. (BufSize - from) /\ P(n - from)
  BY EditorAssumption DEF Holds, Cell
<1>2. ASSUME NEW m \in 0 .. (BufSize - from), P(m)
      PROVE  m = n - from
  <2>1. CASE m < n - from
    BY <1>2, <2>1, EditorAssumption DEF Holds, Cell
  <2>2. CASE m > n - from
    <3>1. n - from \in 0 .. (m - 1)
      BY <2>2, EditorAssumption DEF Cell
    <3>2. d[from + (n - from)] # NUL
      BY <3>1, <1>2
    <3>3. from + (n - from) = n
      BY EditorAssumption DEF Cell
    <3> QED BY <1>1, <3>2, <3>3
  <2> QED BY <2>1, <2>2, EditorAssumption DEF Cell
<1> HIDE DEF P
<1>3. strlen(d, from) = CHOOSE m \in 0 .. (BufSize - from) : P(m)
  BY DEF strlen, P
<1> QED BY <1>1, <1>2, <1>3

\* So it does from the start.
LEMMA LengthIs == ASSUME NEW n \in Cell, Holds(data, n) PROVE Length = n
  BY StrlenIs, EditorAssumption DEF Length, Cell

-----------------------------------------------------------------------------
(* What the operations make of a text. *)

\* Cells m .. n - 1 moved one to the left, over cell m: one character less.
LEMMA ShiftShortens ==
    ASSUME NEW n \in Cell, Holds(data, n), NEW m \in 0 .. (n - 1)
    PROVE  Holds(ShiftedLeft(m, n - 1), n - 1)
<1> DEFINE d == ShiftedLeft(m, n - 1)
<1>1. d \in [0 .. BufSize -> Text \cup {NUL, SandboxByte}]
  BY EditorAssumption DEF ShiftedLeft, Holds, Cell
<1>2. \A k \in 0 .. (n - 2) : d[k] # NUL
  BY EditorAssumption DEF ShiftedLeft, Holds, Cell
<1>3. \A k \in (n - 1) .. (BufSize - 1) : d[k] = NUL
  BY EditorAssumption DEF ShiftedLeft, Holds, Cell
<1>4. n - 1 \in Cell /\ (n - 1) - 1 = n - 2
  BY EditorAssumption DEF Cell
<1> QED BY <1>1, <1>2, <1>3, <1>4 DEF Holds

\* A character put in at the cursor: one more.
LEMMA InsertLengthens ==
    ASSUME NEW n \in Cell, Holds(data, n), i \in 0 .. n, n < BufSize - 1, NEW ch \in Text
    PROVE  Holds(Inserted(ch), n + 1)
<1> DEFINE d == Inserted(ch)
<1>1. Length = n
  BY LengthIs
<1>2. d \in [0 .. BufSize -> Text \cup {NUL, SandboxByte}]
  BY <1>1, EditorAssumption DEF Inserted, Holds, Cell
<1>3. \A k \in 0 .. n : d[k] # NUL
  BY <1>1, EditorAssumption DEF Inserted, Holds, Cell
<1>4. \A k \in (n + 1) .. (BufSize - 1) : d[k] = NUL
  BY <1>1, EditorAssumption DEF Inserted, Holds, Cell
<1>5. n + 1 \in Cell /\ (n + 1) - 1 = n
  BY EditorAssumption DEF Cell
<1> QED BY <1>2, <1>3, <1>4, <1>5 DEF Holds

-----------------------------------------------------------------------------
(* The invariant. *)

\* An emptied buffer holds a text of no characters.
LEMMA EmptiedHolds == 0 \in Cell /\ Holds(Emptied, 0)
<1>1. 0 \in Cell /\ Emptied \in [0 .. BufSize -> Text \cup {NUL, SandboxByte}]
  BY EditorAssumption DEF Emptied, Cell
<1>2. \A k \in 0 .. (BufSize - 1) : Emptied[k] = NUL
  BY EditorAssumption DEF Emptied
<1> QED BY <1>1, <1>2 DEF Holds

\* The invariant holds of it.
LEMMA InitInv == Init => Inv
<1> SUFFICES ASSUME Init PROVE Inv
  OBVIOUS
<1>1. Holds(data, 0)
  BY EmptiedHolds DEF Init
<1>2. Registers
  BY DEF Init, Registers
<1>3. 0 \in Cell /\ i \in 0 .. 0
  BY EditorAssumption DEF Init, Cell
<1> QED BY <1>1, <1>2, <1>3 DEF Inv

\* The second NUL of newline falls on one that is there, or on the sandbox.
LEMMA NewlineKeepsInv ==
    ASSUME NEW n \in Cell, Holds(data, n), i \in 0 .. n, Registers, newline
    PROVE  Inv'
<1>1. Length = n
  BY LengthIs
<1>2. Holds(data', n)
  BY <1>1, EditorAssumption DEF newline, Holds, Cell
<1>3. i' = i /\ Registers'
  BY DEF newline, Returns, Registers
<1> QED BY <1>2, <1>3 DEF Inv, Holds, Cell

\* Backspace at the start of the line does nothing.
LEMMA BackspaceKeepsInv ==
    ASSUME NEW n \in Cell, Holds(data, n), i \in 0 .. n, Registers, backspace
    PROVE  Inv'
<1>1. Registers'
  BY DEF backspace, Registers
<1>2. CASE i = 0 /\ UNCHANGED <<data, i, term>>
  BY <1>1, <1>2 DEF Inv, Holds, Cell
<1>3. CASE i > 0 /\ data' = Backspaced /\ i' = i - 1
  <2>1. i - 1 + strlen(data, i) = n - 1
    BY StrlenIs, EditorAssumption DEF Cell
  <2>2. Holds(data', n - 1)
    BY <1>3, <2>1, ShiftShortens, EditorAssumption DEF Backspaced, Cell
  <2>3. n - 1 \in Cell /\ i' \in 0 .. (n - 1)
    BY <1>3, EditorAssumption DEF Cell
  <2> QED BY <1>1, <2>2, <2>3 DEF Inv, Holds, Cell
<1> QED BY <1>2, <1>3 DEF backspace

\* The arrows stop at both ends; DELETE behind the text does nothing.
LEMMA LetterKeepsInv ==
    ASSUME NEW n \in Cell, Holds(data, n), i \in 0 .. n, Registers,
           NEW ch \in EscapeKeys, letter(ch)
    PROVE  Inv'
<1>1. Registers'
  BY DEF letter, Registers
<1>2. CASE ch = "D"
  <2>1. data' = data /\ i' \in 0 .. n
    BY <1>2, EditorAssumption DEF letter, cursor_left, Cell
  <2> QED BY <1>1, <2>1 DEF Inv, Holds, Cell
<1>3. CASE ch = "C"
  <2>1. data' = data
    BY <1>3 DEF letter
  <2>2. i' \in 0 .. n
    BY <1>3, EditorAssumption DEF letter, cursor_right, Holds, Cell
  <2> QED BY <1>1, <2>1, <2>2 DEF Inv, Holds, Cell
<1>4. CASE ch = "3"
  <2>1. data' = ShiftedLeft(i, n - 1) /\ i' = i
    BY <1>4, LengthIs DEF letter, Deleted
  <2>2. CASE i < n
    <3>1. Holds(data', n - 1)
      BY <2>1, <2>2, ShiftShortens, EditorAssumption DEF Cell
    <3>2. n - 1 \in Cell /\ i' \in 0 .. (n - 1)
      BY <2>1, <2>2, EditorAssumption DEF Cell
    <3> QED BY <1>1, <3>1, <3>2 DEF Inv
  <2>3. CASE i = n
    <3>1. data' = data
      BY <2>1, <2>3, EditorAssumption DEF ShiftedLeft, Holds, Cell
    <3> QED BY <1>1, <2>1, <3>1 DEF Inv, Holds, Cell
  <2> QED BY <2>2, <2>3, EditorAssumption DEF Cell
<1>5. CASE ch \notin {"D", "C", "3"}
  <2>1. data' = data /\ i' = i
    BY <1>5 DEF letter
  <2> QED BY <1>1, <2>1 DEF Inv, Holds, Cell
<1> QED BY <1>2, <1>3, <1>4, <1>5

\* A character that would fill the buffer is left out of the model.
LEMMA CharacterKeepsInv ==
    ASSUME NEW n \in Cell, Holds(data, n), i \in 0 .. n, Registers,
           NEW ch \in Text, character(ch)
    PROVE  Inv'
<1>1. Length = n
  BY LengthIs
<1>2. Registers'
  BY DEF character, Registers
<1>3. CASE Length = BufSize - 1
  <2>1. data' = data /\ i' = i
    BY <1>3, EditorAssumption DEF character
  <2> QED BY <1>2, <2>1 DEF Inv, Holds, Cell
<1>4. CASE Length < BufSize - 1
  <2>1. data' = Inserted(ch) /\ i' = i + 1
    BY <1>4, <1>1, EditorAssumption DEF character, Cell
  <2>2. Holds(data', n + 1)
    BY <1>1, <1>4, <2>1, InsertLengthens
  <2>3. n + 1 \in Cell /\ i' \in 0 .. (n + 1)
    BY <1>1, <1>4, <2>1, EditorAssumption DEF Cell
  <2> QED BY <1>2, <2>2, <2>3 DEF Inv
<1> QED BY <1>1, <1>3, <1>4, EditorAssumption DEF character, Cell

\* The keys that change neither the buffer nor the cursor.
LEMMA OtherKeysKeepInv ==
    ASSUME Inv, \/ return \/ ctrl_c \/ escape
                \/ \E ch \in EscapeKeys : bracket(ch) \/ tilde(ch)
                \/ UNCHANGED editVars
    PROVE  Inv'
<1>1. data' = data /\ i' = i
  BY DEF return, ctrl_c, escape, bracket, tilde, Returns, editVars
<1>2. Registers'
  BY DEF Inv, Registers, return, ctrl_c, escape, bracket, tilde, Returns, editVars
<1> QED BY <1>1, <1>2 DEF Inv, Holds, Cell

\* Every key keeps the invariant.
LEMMA NextKeepsInv == Inv /\ [Next]_editVars => Inv'
<1> SUFFICES ASSUME Inv, [Next]_editVars PROVE Inv'
  OBVIOUS
<1>1. PICK n \in Cell : Holds(data, n) /\ i \in 0 .. n
  BY DEF Inv
<1>2. Registers
  BY DEF Inv
<1>3. CASE newline
  BY <1>1, <1>2, <1>3, NewlineKeepsInv
<1>4. CASE backspace
  BY <1>1, <1>2, <1>4, BackspaceKeepsInv
<1>5. CASE \E ch \in EscapeKeys : letter(ch)
  BY <1>1, <1>2, <1>5, LetterKeepsInv
<1>6. CASE \E ch \in Text : character(ch)
  BY <1>1, <1>2, <1>6, CharacterKeepsInv
<1>7. CASE \/ return \/ ctrl_c \/ escape
           \/ \E ch \in EscapeKeys : bracket(ch) \/ tilde(ch)
           \/ UNCHANGED editVars
  BY <1>7, OtherKeysKeepInv
<1> QED BY <1>3, <1>4, <1>5, <1>6, <1>7 DEF Next, Key, Returned

\* So it holds in every state.
LEMMA SpecInv == Spec => []Inv
  BY InitInv, NextKeepsInv, PTL DEF Spec

-----------------------------------------------------------------------------
(* The screen. *)

Steers == {BS, LEFT, RIGHT}

\* The terminal with the first n characters of d on it, and its cursor at p.
Picture(d, p, n) ==
    [row |-> [x \in 0 .. BufSize |-> IF x < n THEN d[x] ELSE Blank], column |-> p]

\* cs goes p columns back, prints w, and goes b columns back again.
GoesOver(cs, p, w, b) ==
    /\ p \in Nat /\ b \in Nat /\ Len(w) \in Nat /\ Len(cs) = p + Len(w) + b
    /\ \A k \in 1 .. Len(cs) : cs[k] = IF k \in (p + 1) .. (p + Len(w)) THEN w[k - p] ELSE BS
    /\ \A k \in 1 .. Len(w) : w[k] \notin Steers

\* The row with the first k characters of w written from column c on.
Written(row, c, w, k) ==
    [x \in 0 .. BufSize |-> IF x \in c .. (c + k - 1) THEN w[x - c + 1] ELSE row[x]]

Put(row, x, c) == [row EXCEPT ![x] = c]

\* One character more.
LEMMA WritesOne ==
    ASSUME NEW row, NEW c \in Int, NEW w, NEW k \in Nat \ {0}
    PROVE  Put(Written(row, c, w, k - 1), c + k - 1, w[k]) = Written(row, c, w, k)
<1> DEFINE r == Written(row, c, w, k - 1)
<1>1. DOMAIN r = 0 .. BufSize
  BY DEF Written
<1>2. \A x \in 0 .. BufSize : [r EXCEPT ![c + k - 1] = w[k]][x] = Written(row, c, w, k)[x]
  <2> SUFFICES ASSUME NEW x \in 0 .. BufSize
               PROVE  [r EXCEPT ![c + k - 1] = w[k]][x] = Written(row, c, w, k)[x]
    OBVIOUS
  <2>1. CASE x = c + k - 1
    <3>1. x - c + 1 = k /\ x \in c .. (c + k - 1)
      BY <2>1
    <3>2. QED
      BY <1>1, <2>1, <3>1 DEF Written
  <2>2. CASE x # c + k - 1
    <3>1. x \in c .. (c + k - 1) <=> x \in c .. (c + (k - 1) - 1)
      BY <2>2
    <3>2. [r EXCEPT ![c + k - 1] = w[k]][x] = r[x]
      BY <1>1, <2>2
    <3>3. QED
      BY <3>1, <3>2 DEF Written
  <2>3. QED
    BY <2>1, <2>2
<1>3. QED
  BY <1>1, <1>2 DEF Written, Put

\* f has the terminals between the characters of cs.
Follows(f, t, cs) ==
    f = [k \in 0 .. Len(cs) |-> IF k = 0 THEN t ELSE Printed(f[k - 1], cs[k])]

\* The loop over an echo, from the terminals between its turns.
LEMMA EchoedIs ==
    ASSUME NEW t, NEW cs, Len(cs) \in Nat, NEW f, Follows(f, t, cs)
    PROVE  Echoed(t, cs) = f[Len(cs)]
<1> DEFINE N == Len(cs)
           After(g) == g = [k \in 0 .. N |-> IF k = 0 THEN t ELSE Printed(g[k - 1], cs[k])]
           g == CHOOSE h : After(h)
<1>1. After(f)
  BY DEF Follows
<1> HIDE DEF N
<1>2. After(g)
  <2> HIDE DEF After
  <2>1. QED
    BY <1>1
<1> HIDE DEF g
<1>3. \A k \in 0 .. N : g[k] = f[k]
  <2> DEFINE Same == {k \in 0 .. N : g[k] = f[k]}
  <2>1. 0 \in Same
    BY <1>1, <1>2 DEF N
  <2>2. ASSUME NEW k \in 0 .. (N - 1), k \in Same
        PROVE  k + 1 \in Same
    <3>1. k + 1 \in 0 .. N /\ k + 1 # 0 /\ (k + 1) - 1 = k
      BY DEF N
    <3>2. g[k + 1] = Printed(g[k], cs[k + 1]) /\ f[k + 1] = Printed(f[k], cs[k + 1])
      BY <1>1, <1>2, <3>1
    <3>3. QED
      BY <2>2, <3>1, <3>2
  <2> HIDE DEF Same
  <2>3. \A k \in 0 .. N : k \in Same
    BY <2>1, <2>2, IntervalInduction DEF N
  <2>4. QED
    BY <2>3 DEF Same
<1>4. Echoed(t, cs) = g[N]
  BY DEF Echoed, g, N
<1>5. N \in 0 .. N
  BY DEF N
<1>6. QED
  BY <1>3, <1>4, <1>5 DEF N

IsRow(row) == row = [x \in 0 .. BufSize |-> row[x]]

\* Such an echo leaves its text on the row, and the cursor b columns before
\* the text's end.
LEMMA WentOver ==
    ASSUME NEW row, IsRow(row), NEW c \in Int,
           NEW cs, NEW p \in Nat, NEW w, NEW b \in Nat, GoesOver(cs, p, w, b)
    PROVE  Echoed([row |-> row, column |-> c], cs) =
              [row |-> Written(row, c - p, w, Len(w)), column |-> c - p + Len(w) - b]
<1> DEFINE t == [row |-> row, column |-> c]
           L == Len(w)
           From(k) == IF k <= p THEN 0 ELSE IF k <= p + L THEN k - p ELSE L
           Column(k) == IF k <= p THEN c - k
                        ELSE IF k <= p + L THEN c - p + (k - p) ELSE c - p + L - (k - p - L)
           At(k) == [row |-> Written(row, c - p, w, From(k)), column |-> Column(k)]
           f == [k \in 0 .. Len(cs) |-> At(k)]
<1>1. p \in Nat /\ b \in Nat /\ L \in Nat /\ Len(cs) = p + L + b
  BY DEF GoesOver
<1>2. At(0) = t
  <2>1. Written(row, c - p, w, 0) = row
    BY <1>1 DEF Written, IsRow
  <2>2. From(0) = 0 /\ Column(0) = c
    BY <1>1
  <2> HIDE DEF From, Column
  <2>3. QED
    BY <2>1, <2>2
<1>3. ASSUME NEW k \in 1 .. (p + L + b)
      PROVE  At(k) = Printed(At(k - 1), cs[k])
  <2>1. CASE k \notin (p + 1) .. (p + L)
    <3>1. cs[k] = BS
      BY <1>1, <2>1 DEF GoesOver
    <3>2. From(k) = From(k - 1)
      BY <1>1, <2>1
    <3>3. Column(k) = Column(k - 1) - 1
      BY <1>1, <2>1
    <3> HIDE DEF From, Column
    <3>4. QED
      BY <3>1, <3>2, <3>3 DEF Printed
  <2>2. CASE k \in (p + 1) .. (p + L)
    <3>1. cs[k] = w[k - p] /\ cs[k] \notin Steers
      <4>1. k - p \in 1 .. L
        BY <1>1, <2>2
      <4>2. cs[k] = w[k - p]
        BY <1>1, <2>2 DEF GoesOver
      <4>3. QED
        BY <4>1, <4>2 DEF GoesOver
    <3>2. From(k) = k - p /\ From(k - 1) = (k - p) - 1
      BY <1>1, <2>2
    <3>3. Column(k) = Column(k - 1) + 1 /\ Column(k - 1) = (c - p) + (k - p) - 1
      BY <1>1, <2>2
    <3> HIDE DEF From, Column
    <3> DEFINE j == k - p
               d == c - p
               r == Written(row, d, w, j - 1)
    <3>4. j \in Nat \ {0} /\ d \in Int
      BY <1>1, <2>2
    <3> HIDE DEF j, d
    <3>5. Put(r, d + j - 1, w[j]) = Written(row, d, w, j)
      BY <3>4, WritesOne
    <3>6. Printed(At(k - 1), cs[k]) =
             [row |-> Put(At(k - 1).row, At(k - 1).column, cs[k]), column |-> At(k - 1).column + 1]
      BY <3>1 DEF Printed, Steers, Put
    <3>7. At(k - 1).row = r /\ At(k - 1).column = Column(k - 1)
      BY <3>2 DEF j, d
    <3> HIDE DEF r
    <3>8. QED
      BY <3>1, <3>2, <3>3, <3>5, <3>6, <3>7 DEF j, d
  <2>3. QED
    BY <2>1, <2>2
<1>4. At(p + L + b) = [row |-> Written(row, c - p, w, L), column |-> c - p + L - b]
  <2>1. From(p + L + b) = L /\ Column(p + L + b) = c - p + L - b
    BY <1>1
  <2>2. QED
    BY <2>1
<1>5. Follows(f, t, cs)
  <2> HIDE DEF At, t
  <2>1. \A k \in 0 .. Len(cs) : k # 0 => k \in 1 .. (p + L + b) /\ k - 1 \in 0 .. Len(cs)
    BY <1>1
  <2>2. \A k \in 0 .. Len(cs) : k # 0 => f[k - 1] = At(k - 1) /\ At(k) = Printed(At(k - 1), cs[k])
    BY <1>3, <2>1
  <2>3. QED
    BY <1>2, <2>2 DEF Follows
<1> HIDE DEF At, t, L
<1>6. Len(cs) \in Nat /\ f[Len(cs)] = At(p + L + b)
  <2>1. Len(cs) \in Nat /\ Len(cs) \in 0 .. Len(cs)
    BY <1>1
  <2>2. QED
    BY <1>1, <2>1
<1> HIDE DEF f
<1>7. Echoed(t, cs) = f[Len(cs)]
  BY <1>5, <1>6, EchoedIs
<1>8. QED
  BY <1>4, <1>6, <1>7 DEF t, L

\* The characters of a text can be typed, and steer no terminal.
OfText(d, n) == \A k \in 0 .. (n - 1) : d[k] \in Text

\* So each is printed where the cursor stands.
LEMMA TextPrints ==
    ASSUME NEW d, NEW n, OfText(d, n), NEW k \in 0 .. (n - 1)
    PROVE  d[k] \in Text /\ d[k] \notin Steers
  BY EditorAssumption DEF OfText, Steers

\* A string of n characters of C.
IsString(s, C, n) == n \in Nat /\ s \in Seq(C) /\ Len(s) = n

Cat(s, t) == s \o t

\* Two strings, one behind the other.
LEMMA Joined ==
    ASSUME NEW C, NEW s, NEW t, NEW m \in Nat, NEW n \in Nat,
           IsString(s, C, m), IsString(t, C, n)
    PROVE  /\ IsString(Cat(s, t), C, m + n)
           /\ \A k \in 1 .. m : Cat(s, t)[k] = s[k]
           /\ \A k \in 1 .. n : Cat(s, t)[m + k] = t[k]
<1>1. s \in Seq(C) /\ t \in Seq(C) /\ m \in Nat /\ n \in Nat /\ Len(s) = m /\ Len(t) = n
  BY DEF IsString
<1>2. /\ Cat(s, t) \in Seq(C) /\ Len(Cat(s, t)) = m + n
      /\ \A k \in 1 .. (m + n) : Cat(s, t)[k] = IF k <= m THEN s[k] ELSE t[k - m]
  BY <1>1, ConcatProperties DEF Cat
<1>3. IsString(Cat(s, t), C, m + n)
  BY <1>1, <1>2 DEF IsString
<1>4. \A k \in 1 .. m : Cat(s, t)[k] = s[k]
  <2>1. \A k \in 1 .. m : k \in 1 .. (m + n) /\ k <= m
    BY <1>1
  <2>2. QED
    BY <1>2, <2>1
<1>5. \A k \in 1 .. n : Cat(s, t)[m + k] = t[k]
  <2>1. \A k \in 1 .. n : m + k \in 1 .. (m + n) /\ ~(m + k <= m) /\ (m + k) - m = k
    BY <1>1
  <2>2. QED
    BY <1>2, <2>1
<1>6. QED
  BY <1>3, <1>4, <1>5

\* A string of steps back.
LEMMA BacksIs ==
    ASSUME NEW n \in Nat, NEW C, BS \in C
    PROVE  IsString(Backs(n), C, n) /\ \A k \in 1 .. n : Backs(n)[k] = BS
<1>1. Backs(n) \in [1 .. n -> C] /\ \A k \in 1 .. n : Backs(n)[k] = BS
  BY DEF Backs
<1>2. Backs(n) \in Seq(C) /\ Len(Backs(n)) = n
  BY <1>1
<1>3. QED
  BY <1>1, <1>2 DEF IsString

\* The parts of an echo: p columns back, w of n characters, b columns back.
LEMMA PartsGoOver ==
    ASSUME NEW cs, NEW w, NEW p \in Nat, NEW n \in Nat, NEW b \in Nat,
           Len(w) = n, Len(cs) = p + n + b,
           \A k \in 1 .. n : w[k] \notin Steers,
           \A k \in 1 .. p : cs[k] = BS,
           \A k \in 1 .. n : cs[p + k] = w[k],
           \A k \in 1 .. b : cs[p + n + k] = BS
    PROVE  GoesOver(cs, p, w, b)
<1>1. ASSUME NEW k \in 1 .. (p + n + b)
      PROVE  cs[k] = IF k \in (p + 1) .. (p + n) THEN w[k - p] ELSE BS
  <2>1. CASE k <= p
    BY <2>1
  <2>2. CASE k \in (p + 1) .. (p + n)
    <3>1. k - p \in 1 .. n /\ p + (k - p) = k
      BY <2>2
    <3>2. QED
      BY <2>2, <3>1
  <2>3. CASE k > p + n
    <3>1. k \notin (p + 1) .. (p + n) /\ k - (p + n) \in 1 .. b /\ k = p + n + (k - (p + n))
      BY <2>3
    <3>2. PICK j \in 1 .. b : k = p + n + j
      BY <3>1
    <3>3. QED
      BY <3>1, <3>2
  <2>4. QED
    BY <2>1, <2>2, <2>3
<1>2. QED
  BY <1>1 DEF GoesOver

\* The first m characters of u, and c behind them.
Then(u, m, c) == [k \in 1 .. (m + 1) |-> IF k = m + 1 THEN c ELSE u[k]]

\* The echo of a deletion: over the tail u of m characters and a blank.
LEMMA WipingGoesOver ==
    ASSUME NEW m, NEW S, NEW u, IsString(u, S, m), \A k \in 1 .. m : u[k] \notin Steers
    PROVE  /\ GoesOver(u \o <<Blank, BS>> \o Backs(m), 0, Then(u, m, Blank), m + 1)
           /\ GoesOver(<<BS>> \o u \o <<Blank, BS>> \o Backs(m), 1, Then(u, m, Blank), m + 1)
<1> DEFINE C == S \cup {Blank, BS}
           w == Then(u, m, Blank)
           last == <<Blank, BS>>
           back == Backs(m)
<1>1. /\ m \in Nat /\ Len(w) = m + 1 /\ \A k \in 1 .. (m + 1) : w[k] \notin Steers
      /\ \A k \in 1 .. m : w[k] = u[k]
      /\ w[m + 1] = Blank
  <2>1. m \in Nat
    BY DEF IsString
  <2>2. QED
    BY <2>1, EditorAssumption DEF Then, Steers
<1>2. IsString(u, C, m) /\ IsString(<<BS>>, C, 1) /\ IsString(last, C, 2)
  BY DEF IsString
<1>3. IsString(back, C, m) /\ \A k \in 1 .. m : back[k] = BS
  <2>1. BS \in C
    OBVIOUS
  <2> HIDE DEF C
  <2>2. QED
    BY <1>1, <2>1, BacksIs
<1>4. last[1] = Blank /\ last[2] = BS /\ <<BS>>[1] = BS
  OBVIOUS
<1> HIDE DEF C, w, last, back
<1>5. ASSUME NEW p \in {0, 1}, NEW v, IsString(v, C, p + m),
             \A k \in 1 .. p : v[k] = BS, \A k \in 1 .. m : v[p + k] = u[k]
      PROVE  GoesOver(v \o last \o back, p, w, m + 1)
  <2>0. p \in Nat /\ m \in Nat
    BY <1>1, <1>5
  <2> DEFINE x == Cat(v, last)
             cs == Cat(x, back)
  <2>1. /\ IsString(x, C, p + m + 2)
        /\ \A k \in 1 .. (p + m) : x[k] = v[k]
        /\ \A k \in 1 .. 2 : x[p + m + k] = last[k]
    BY <1>2, <1>5, <2>0, Joined
  <2> HIDE DEF x
  <2>2. /\ IsString(cs, C, p + m + 2 + m)
        /\ \A k \in 1 .. (p + m + 2) : cs[k] = x[k]
        /\ \A k \in 1 .. m : cs[p + m + 2 + k] = back[k]
    BY <1>3, <2>0, <2>1, Joined
  <2> HIDE DEF cs
  <2>3. Len(cs) = p + (m + 1) + (m + 1)
    BY <1>1, <1>5, <2>2 DEF IsString
  <2>4. \A k \in 1 .. p : cs[k] = BS
    <3>1. \A k \in 1 .. p : k \in 1 .. (p + m + 2) /\ k \in 1 .. (p + m)
      BY <1>1, <1>5
    <3>2. QED
      BY <1>5, <2>1, <2>2, <3>1
  <2>5. \A k \in 1 .. (m + 1) : cs[p + k] = w[k]
    <3> SUFFICES ASSUME NEW k \in 1 .. (m + 1) PROVE cs[p + k] = w[k]
      OBVIOUS
    <3>1. CASE k = m + 1
      <4>1. p + k \in 1 .. (p + m + 2) /\ p + k = p + m + 1 /\ 1 \in 1 .. 2
        BY <1>1, <1>5, <3>1
      <4>2. QED
        BY <1>1, <1>4, <2>1, <2>2, <3>1, <4>1
    <3>2. CASE k # m + 1
      <4>1. k \in 1 .. m /\ p + k \in 1 .. (p + m + 2) /\ p + k \in 1 .. (p + m)
        BY <1>1, <1>5, <3>2
      <4>2. QED
        BY <1>1, <1>5, <2>1, <2>2, <4>1
    <3>3. QED
      BY <3>1, <3>2
  <2>6. \A k \in 1 .. (m + 1) : cs[p + (m + 1) + k] = BS
    <3> SUFFICES ASSUME NEW k \in 1 .. (m + 1) PROVE cs[p + (m + 1) + k] = BS
      OBVIOUS
    <3>1. CASE k = 1
      <4>1. /\ p + (m + 1) + k \in 1 .. (p + m + 2) /\ p + (m + 1) + k = p + m + 2 /\ 2 \in 1 .. 2
        BY <1>1, <1>5, <3>1
      <4>2. QED
        BY <1>4, <2>1, <2>2, <4>1
    <3>2. CASE k # 1
      <4>1. k - 1 \in 1 .. m /\ p + (m + 1) + k = p + m + 2 + (k - 1)
        BY <1>1, <1>5, <3>2
      <4>2. QED
        BY <1>3, <2>2, <4>1
    <3>3. QED
      BY <3>1, <3>2
  <2>7. p \in Nat /\ m + 1 \in Nat
    BY <1>1, <1>5
  <2>8. GoesOver(cs, p, w, m + 1)
    BY <1>1, <2>3, <2>4, <2>5, <2>6, <2>7, PartsGoOver
  <2>9. QED
    BY <2>8 DEF cs, x, Cat
<1>6. GoesOver(u \o last \o back, 0, w, m + 1)
  <2>1. 0 + m = m /\ \A k \in 1 .. m : 0 + k = k
    BY <1>1
  <2>2. QED
    BY <1>2, <1>5, <2>1
<1>7. GoesOver(<<BS>> \o u \o last \o back, 1, w, m + 1)
  <2> DEFINE v == Cat(<<BS>>, u)
  <2>1. /\ IsString(v, C, 1 + m) /\ \A k \in 1 .. 1 : v[k] = <<BS>>[k]
        /\ \A k \in 1 .. m : v[1 + k] = u[k]
    BY <1>1, <1>2, Joined
  <2> HIDE DEF v
  <2>2. \A k \in 1 .. 1 : v[k] = BS
    BY <1>4, <2>1
  <2>3. GoesOver(v \o last \o back, 1, w, m + 1)
    BY <1>5, <2>1, <2>2
  <2>4. QED
    BY <2>3 DEF v, Cat
<1>8. QED
  BY <1>6, <1>7 DEF w, last, back

\* The echo of an insertion: over the new character and m copies of c.
LEMMA InsertionGoesOver ==
    ASSUME NEW m \in Nat, NEW ch, NEW c, ch \notin Steers, m > 0 => c \notin Steers
    PROVE  LET copies == [k \in 1 .. m |-> c]
               w == [k \in 1 .. (m + 1) |-> IF k = 1 THEN ch ELSE c]
           IN  GoesOver(<<ch>> \o copies \o Backs(m), 0, w, m)
<1> DEFINE copies == [k \in 1 .. m |-> c]
           w == [k \in 1 .. (m + 1) |-> IF k = 1 THEN ch ELSE c]
           C == {ch, c, BS}
           back == Backs(m)
           x == Cat(<<ch>>, copies)
           cs == Cat(x, back)
<1>1. IsString(copies, C, m) /\ \A k \in 1 .. m : copies[k] = c
  BY DEF IsString
<1>2. IsString(back, C, m) /\ \A k \in 1 .. m : back[k] = BS
  <2>1. BS \in C
    OBVIOUS
  <2> HIDE DEF C
  <2>2. QED
    BY <2>1, BacksIs
<1>3. Len(w) = m + 1 /\ w[1] = ch /\ \A k \in 1 .. (m + 1) : w[k] \notin Steers
  OBVIOUS
<1>4. \A k \in 1 .. m : w[1 + k] = c
  OBVIOUS
<1>5. IsString(<<ch>>, C, 1) /\ <<ch>>[1] = ch
  BY DEF IsString
<1> HIDE DEF copies, w, back, C
<1>6. /\ IsString(x, C, 1 + m) /\ \A k \in 1 .. 1 : x[k] = <<ch>>[k]
      /\ \A k \in 1 .. m : x[1 + k] = copies[k]
  BY <1>1, <1>5, Joined
<1> HIDE DEF x
<1>7. /\ IsString(cs, C, 1 + m + m) /\ \A k \in 1 .. (1 + m) : cs[k] = x[k]
      /\ \A k \in 1 .. m : cs[1 + m + k] = back[k]
  BY <1>2, <1>6, Joined
<1> HIDE DEF cs
<1>8. Len(cs) = 0 + (m + 1) + m /\ \A k \in 1 .. m : cs[0 + (m + 1) + k] = BS
  <2>1. Len(cs) = 1 + m + m
    BY <1>7 DEF IsString
  <2>2. \A k \in 1 .. m : cs[1 + m + k] = BS
    BY <1>2, <1>7
  <2>3. \A k \in 1 .. m : 0 + (m + 1) + k = 1 + m + k
    OBVIOUS
  <2>4. \A k \in 1 .. m : cs[0 + (m + 1) + k] = BS
    BY <2>2, <2>3
  <2>5. QED
    BY <2>1, <2>4
<1>9. \A k \in 1 .. (m + 1) : cs[0 + k] = w[k]
  <2> SUFFICES ASSUME NEW k \in 1 .. (m + 1) PROVE cs[0 + k] = w[k]
    OBVIOUS
  <2>1. 0 + k = k /\ k \in 1 .. (1 + m) /\ (k # 1 => k - 1 \in 1 .. m /\ 1 + (k - 1) = k)
    OBVIOUS
  <2>2. CASE k = 1
    BY <1>3, <1>5, <1>6, <1>7, <2>1, <2>2
  <2>3. CASE k # 1
    BY <1>1, <1>4, <1>6, <1>7, <2>1, <2>3
  <2>4. QED
    BY <2>2, <2>3
<1>10. GoesOver(cs, 0, w, m)
  <2>1. m + 1 \in Nat /\ 0 \in Nat /\ \A k \in 1 .. 0 : cs[k] = BS
    OBVIOUS
  <2>2. QED
    BY <1>3, <1>8, <1>9, <2>1, PartsGoOver
<1>11. QED
  BY <1>10 DEF cs, x, copies, w, back, Cat

\* A deletion's echo turns the picture of the text into that of the shorter one.
LEMMA TailRewritten ==
    ASSUME NEW n \in Cell, Holds(data, n), OfText(data, n), NEW m \in 0 .. (n - 1),
           NEW p \in {0, 1}, NEW cs,
           GoesOver(cs, p, Then(Slice(data, m + 1, n), n - 1 - m, Blank), n - m)
    PROVE  /\ Echoed(Picture(data, m + p, n), cs) = Picture(ShiftedLeft(m, n - 1), m, n - 1)
           /\ OfText(ShiftedLeft(m, n - 1), n - 1)
<1> DEFINE u == Slice(data, m + 1, n)
           w == Then(u, n - 1 - m, Blank)
           row == Picture(data, m + p, n).row
           d == ShiftedLeft(m, n - 1)
<1>1. n \in Nat /\ m \in Nat /\ p \in Nat /\ BufSize \in Nat /\ n < BufSize
  BY EditorAssumption DEF Cell
<1>2. \A k \in 1 .. (n - 1 - m) : u[k] = data[m + k]
  BY <1>1 DEF Slice
<1>3. Len(w) = n - m /\ w[n - m] = Blank /\ \A k \in 1 .. (n - 1 - m) : w[k] = data[m + k]
  <2> HIDE DEF u
  <2>1. n - m \in Nat /\ (n - 1 - m) + 1 = n - m
    BY <1>1
  <2>2. w = [k \in 1 .. (n - m) |-> IF k = n - m THEN Blank ELSE u[k]]
    BY <2>1 DEF Then
  <2>3. \A k \in 1 .. (n - 1 - m) : k \in 1 .. (n - m) /\ k # n - m
    BY <1>1
  <2>4. n - m \in 1 .. (n - m)
    BY <1>1
  <2> HIDE DEF w
  <2>5. Len(w) = n - m
    BY <2>1, <2>2
  <2>6. QED
    BY <1>2, <2>2, <2>3, <2>4, <2>5
<1>4. \A x \in 0 .. BufSize : d[x] = IF x \in m .. (n - 1) THEN data[x + 1] ELSE data[x]
  BY DEF ShiftedLeft
<1>5. OfText(d, n - 1)
  <2> SUFFICES ASSUME NEW k \in 0 .. (n - 2) PROVE d[k] \in Text
    BY <1>1 DEF OfText
  <2>1. k \in 0 .. BufSize /\ k \in 0 .. (n - 1) /\ k + 1 \in 0 .. (n - 1)
    BY <1>1
  <2>2. QED
    BY <1>4, <2>1 DEF OfText
<1>6. /\ Picture(data, m + p, n) = [row |-> row, column |-> m + p]
      /\ IsRow(row)
      /\ \A x \in 0 .. BufSize : row[x] = IF x < n THEN data[x] ELSE Blank
  BY DEF Picture, IsRow
<1> HIDE DEF u, w, row, d
<1>7. ASSUME NEW x \in 0 .. BufSize
      PROVE  (IF x \in m .. (n - 1) THEN w[x - m + 1] ELSE row[x]) =
                (IF x < n - 1 THEN d[x] ELSE Blank)
  <2>1. CASE x < m
    BY <1>1, <1>4, <1>6, <2>1
  <2>2. CASE x >= m /\ x < n - 1
    <3>1. x - m + 1 \in 1 .. (n - 1 - m) /\ m + (x - m + 1) = x + 1 /\ x \in m .. (n - 1)
      BY <1>1, <2>2
    <3>2. w[x - m + 1] = data[x + 1]
      BY <1>3, <3>1
    <3>3. d[x] = data[x + 1]
      BY <1>4, <3>1
    <3>4. QED
      BY <2>2, <3>1, <3>2, <3>3
  <2>3. CASE x = n - 1
    <3>1. x - m + 1 = n - m /\ x \in m .. (n - 1) /\ ~(x < n - 1)
      BY <1>1, <2>3
    <3>2. QED
      BY <1>3, <3>1
  <2>4. CASE x > n - 1
    <3>1. x \notin m .. (n - 1) /\ ~(x < n - 1) /\ ~(x < n)
      BY <1>1, <2>4
    <3>2. QED
      BY <1>6, <3>1
  <2>5. QED
    BY <1>1, <2>1, <2>2, <2>3, <2>4
<1>8. m + p \in Int /\ n - m \in Nat /\ (m + p) - p = m /\ m + (n - m) - 1 = n - 1 /\ m + (n - m) - (n - m) = m
  BY <1>1
<1>9. GoesOver(cs, p, w, n - m)
  BY DEF u, w
<1>10. Echoed([row |-> row, column |-> m + p], cs) =
          [row |-> Written(row, m, w, n - m), column |-> m]
  <2>1. Echoed([row |-> row, column |-> m + p], cs) =
           [row |-> Written(row, (m + p) - p, w, Len(w)),
            column |-> (m + p) - p + Len(w) - (n - m)]
    BY <1>1, <1>6, <1>8, <1>9, WentOver
  <2>2. QED
    BY <1>3, <1>8, <2>1
<1>11. Written(row, m, w, n - m) = [x \in 0 .. BufSize |-> IF x < n - 1 THEN d[x] ELSE Blank]
  BY <1>7, <1>8 DEF Written
<1>12. QED
  BY <1>5, <1>6, <1>10, <1>11 DEF Picture, d

\* An insertion's echo turns it into the picture of the longer one.
LEMMA TailOverwritten ==
    ASSUME NEW n \in Cell, Holds(data, n), OfText(data, n), i \in 0 .. n, n < BufSize - 1,
           NEW ch \in Text, NEW cs,
           GoesOver(cs, 0, [k \in 1 .. (n - i + 1) |-> IF k = 1 THEN ch ELSE data[i]], n - i)
    PROVE  /\ Echoed(Picture(data, i, n), cs) = Picture(Inserted(ch), i + 1, n + 1)
           /\ OfText(Inserted(ch), n + 1)
<1> DEFINE w == [k \in 1 .. (n - i + 1) |-> IF k = 1 THEN ch ELSE data[i]]
           row == Picture(data, i, n).row
           d == Inserted(ch)
<1>1. n \in Nat /\ i \in Nat /\ i <= n /\ BufSize \in Nat /\ n < BufSize
  BY EditorAssumption DEF Cell
<1>2. Len(w) = n - i + 1 /\ w[1] = ch /\ \A k \in 2 .. (n - i + 1) : w[k] = data[i]
  BY <1>1
<1>3. \A x \in 0 .. BufSize : d[x] = IF x = i THEN ch
                                     ELSE IF x \in (i + 1) .. n THEN data[i] ELSE data[x]
  BY LengthIs DEF Inserted
<1>4. OfText(d, n + 1)
  <2> SUFFICES ASSUME NEW k \in 0 .. n PROVE d[k] \in Text
    BY <1>1 DEF OfText
  <2>1. k \in 0 .. BufSize /\ (k \in (i + 1) .. n => i \in 0 .. (n - 1))
        /\ (k # i /\ k \notin (i + 1) .. n => k \in 0 .. (n - 1))
    BY <1>1
  <2>2. QED
    BY <1>3, <2>1 DEF OfText
<1>5. /\ Picture(data, i, n) = [row |-> row, column |-> i]
      /\ IsRow(row)
      /\ \A x \in 0 .. BufSize : row[x] = IF x < n THEN data[x] ELSE Blank
  BY DEF Picture, IsRow
<1> HIDE DEF w, row, d
<1>6. ASSUME NEW x \in 0 .. BufSize
      PROVE  (IF x \in i .. n THEN w[x - i + 1] ELSE row[x]) =
                (IF x < n + 1 THEN d[x] ELSE Blank)
  <2>1. CASE x < i
    BY <1>1, <1>3, <1>5, <2>1
  <2>2. CASE x = i
    <3>1. x - i + 1 = 1 /\ x \in i .. n /\ x < n + 1
      BY <1>1, <2>2
    <3>2. QED
      BY <1>2, <1>3, <2>2, <3>1
  <2>3. CASE x \in (i + 1) .. n
    <3>1. x - i + 1 \in 2 .. (n - i + 1) /\ x \in i .. n /\ x < n + 1 /\ x # i
      BY <1>1, <2>3
    <3>2. QED
      BY <1>2, <1>3, <2>3, <3>1
  <2>4. CASE x > n
    <3>1. x \notin i .. n /\ ~(x < n + 1) /\ ~(x < n)
      BY <1>1, <2>4
    <3>2. QED
      BY <1>5, <3>1
  <2>5. QED
    BY <1>1, <2>1, <2>2, <2>3, <2>4
<1>7. i \in Int /\ 0 \in Nat /\ n - i \in Nat /\ i - 0 = i /\ i + (n - i + 1) - 1 = n /\ i + (n - i + 1) - (n - i) = i + 1
  BY <1>1
<1>8. GoesOver(cs, 0, w, n - i)
  BY DEF w
<1>9. Echoed([row |-> row, column |-> i], cs) =
         [row |-> Written(row, i, w, n - i + 1), column |-> i + 1]
  <2>1. Echoed([row |-> row, column |-> i], cs) =
           [row |-> Written(row, i - 0, w, Len(w)), column |-> i - 0 + Len(w) - (n - i)]
    BY <1>5, <1>7, <1>8, WentOver
  <2>2. QED
    BY <1>2, <1>7, <2>1
<1>10. Written(row, i, w, n - i + 1) = [x \in 0 .. BufSize |-> IF x < n + 1 THEN d[x] ELSE Blank]
  BY <1>6, <1>7 DEF Written
<1>11. QED
  BY <1>4, <1>5, <1>9, <1>10 DEF Picture, d

\* One character moves the cursor.
LEMMA OneEchoed == \A t, c : Echoed(t, <<c>>) = Printed(t, c)
<1> SUFFICES ASSUME NEW t, NEW c PROVE Echoed(t, <<c>>) = Printed(t, c)
  OBVIOUS
<1> DEFINE cs == <<c>>
           f == [k \in 0 .. 1 |-> IF k = 0 THEN t ELSE Printed(t, c)]
<1>1. Len(cs) = 1 /\ cs[1] = c
  OBVIOUS
<1> HIDE DEF cs
<1>2. Follows(f, t, cs)
  <2>1. \A k \in 0 .. 1 : k # 0 => k = 1 /\ f[k - 1] = t
    OBVIOUS
  <2>2. f = [k \in 0 .. 1 |-> IF k = 0 THEN t ELSE Printed(f[k - 1], cs[k])]
    BY <1>1, <2>1
  <2>3. QED
    BY <1>1, <2>2 DEF Follows
<1> HIDE DEF f
<1>3. Len(cs) \in Nat
  BY <1>1
<1>4. Echoed(t, cs) = f[Len(cs)]
  BY <1>2, <1>3, EchoedIs
<1>5. QED
  BY <1>1, <1>4 DEF f, cs

\* The buffer d holds n characters that can be typed, and the terminal t shows
\* them, with its cursor at p.
OnScreen(d, p, n, t) ==
    Holds(d, n) /\ OfText(d, n) /\ p \in 0 .. n /\ t = Picture(d, p, n)

ScreenInv == \E n \in Cell : OnScreen(data, i, n, term)

\* Only the first n cells are shown.
LEMMA PictureAgrees ==
    ASSUME NEW d, NEW e, NEW n, NEW p, \A k \in 0 .. (n - 1) : d[k] = e[k], n \in Nat
    PROVE  Picture(d, p, n) = Picture(e, p, n)
<1>1. \A x \in 0 .. BufSize : x < n => d[x] = e[x]
  OBVIOUS
<1>2. QED
  BY <1>1 DEF Picture

\* An empty screen for an empty buffer.
LEMMA InitScreen == Init => ScreenInv
<1> SUFFICES ASSUME Init PROVE ScreenInv
  OBVIOUS
<1>1. 0 \in Cell /\ BufSize \in Nat
  BY EditorAssumption DEF Cell
<1>2. Holds(data, 0)
  BY EmptiedHolds DEF Init
<1>3. OfText(data, 0) /\ i \in 0 .. 0
  BY DEF OfText, Init
<1>4. Picture(data, 0, 0) = [row |-> [k \in 0 .. BufSize |-> Blank], column |-> 0]
  BY <1>1 DEF Picture
<1>5. QED
  BY <1>1, <1>2, <1>3, <1>4 DEF ScreenInv, OnScreen, Init

\* The keys without an echo leave the text as it is.
LEMMA QuietKeysKeepScreen ==
    ASSUME NEW n \in Cell, OnScreen(data, i, n, term),
           \/ newline \/ return \/ ctrl_c \/ escape
           \/ \E ch \in EscapeKeys : bracket(ch) \/ tilde(ch)
           \/ UNCHANGED editVars
    PROVE  ScreenInv'
<1>1. n \in Nat /\ Holds(data, n) /\ OfText(data, n) /\ i \in 0 .. n /\ term = Picture(data, i, n)
  BY EditorAssumption DEF OnScreen, Cell
<1>2. i' = i /\ term' = term
  BY DEF newline, return, ctrl_c, escape, bracket, tilde, Returns, editVars
<1>3. CASE newline
  <2>1. Length = n
    BY <1>1, LengthIs
  <2>2. Holds(data', n)
    BY <1>1, <1>3, <2>1, EditorAssumption DEF newline, Holds, Cell
  <2>3. \A k \in 0 .. (n - 1) : data'[k] = data[k]
    BY <1>1, <1>3, <2>1, EditorAssumption DEF newline, Holds, Cell
  <2>4. OfText(data', n)
    BY <1>1, <2>3 DEF OfText
  <2>5. Picture(data', i, n) = Picture(data, i, n)
    BY <1>1, <2>3, PictureAgrees
  <2>6. OnScreen(data', i', n, term')
    BY <1>1, <1>2, <2>2, <2>4, <2>5 DEF OnScreen
  <2>7. QED
    BY <2>6 DEF ScreenInv, Cell
<1>4. CASE ~newline
  <2>1. data' = data
    BY <1>4 DEF return, ctrl_c, escape, bracket, tilde, Returns, editVars
  <2>2. QED
    BY <1>2, <2>1 DEF ScreenInv, Cell
<1>5. QED
  BY <1>3, <1>4

\* Backspace rewrites the tail one column to the left and wipes the last one.
LEMMA BackspaceKeepsScreen ==
    ASSUME NEW n \in Cell, OnScreen(data, i, n, term), backspace
    PROVE  ScreenInv'
<1>1. n \in Nat /\ Holds(data, n) /\ OfText(data, n) /\ i \in 0 .. n /\ term = Picture(data, i, n)
  BY EditorAssumption DEF OnScreen, Cell
<1>2. CASE i = 0 /\ UNCHANGED <<data, i, term>>
  BY <1>2 DEF ScreenInv, Cell
<1>3. CASE i > 0 /\ data' = Backspaced /\ i' = i - 1 /\ Emits(BackspaceEcho)
  <2> DEFINE u == Slice(data, i, n)
             m == i - 1
             cs == <<BS>> \o u \o <<Blank, BS>> \o Backs(n - i)
  <2>1. m \in 0 .. (n - 1) /\ m + 1 = i /\ n - 1 - m = n - i /\ n - m = (n - i) + 1
    BY <1>1, <1>3
  <2>2. IsString(u, Text, n - i)
    <3>1. u = [k \in 1 .. (n - i) |-> data[i + k - 1]]
      BY <1>1, EditorAssumption DEF Slice
    <3>2. \A k \in 1 .. (n - i) : i + k - 1 \in 0 .. (n - 1)
      BY <1>1
    <3>3. \A k \in 1 .. (n - i) : data[i + k - 1] \in Text
      BY <1>1, <3>2 DEF OfText
    <3> DEFINE L == n - i
    <3>4. L \in Nat
      BY <1>1
    <3> HIDE DEF u, L
    <3>5. u \in [1 .. L -> Text]
      BY <3>1, <3>3 DEF L
    <3>6. QED
      BY <3>4, <3>5 DEF IsString, L
  <2>3. \A k \in 1 .. (n - i) : u[k] \notin Steers
    <3> HIDE DEF u
    <3>1. \A k \in 1 .. (n - i) : u[k] \in Text
      BY <2>2 DEF IsString
    <3>2. QED
      BY <3>1, EditorAssumption DEF Steers
  <2>4. GoesOver(cs, 1, Then(u, n - i, Blank), (n - i) + 1)
    <3> HIDE DEF u
    <3>1. QED
      BY <2>2, <2>3, WipingGoesOver
  <2>5. term' = Echoed(term, cs)
    <3>1. Length = n
      BY <1>1, LengthIs
    <3>2. Len(u) = n - i
      BY <2>2 DEF IsString
    <3>3. BackspaceEcho = cs
      BY <3>1, <3>2 DEF BackspaceEcho
    <3>4. QED
      BY <1>3, <3>3 DEF Emits
  <2>6. data' = ShiftedLeft(m, n - 1)
    <3>1. i - 1 + strlen(data, i) = n - 1
      BY <1>1, StrlenIs
    <3>2. QED
      BY <1>3, <3>1 DEF Backspaced
  <2> HIDE DEF cs, m
  <2>7. /\ Echoed(Picture(data, m + 1, n), cs) = Picture(ShiftedLeft(m, n - 1), m, n - 1)
        /\ OfText(ShiftedLeft(m, n - 1), n - 1)
    <3>1. GoesOver(cs, 1, Then(Slice(data, m + 1, n), n - 1 - m, Blank), n - m)
      BY <2>1, <2>4
    <3>2. QED
      BY <1>1, <2>1, <3>1, TailRewritten
  <2>8. Holds(data', n - 1)
    BY <1>1, <2>1, <2>6, ShiftShortens
  <2>9. n - 1 \in Cell /\ m \in 0 .. (n - 1) /\ i' = m
    BY <1>3, <2>1, EditorAssumption DEF Cell, m
  <2>10. OnScreen(data', i', n - 1, term')
    BY <1>1, <2>1, <2>5, <2>6, <2>7, <2>8, <2>9 DEF OnScreen
  <2>11. QED
    BY <2>9, <2>10 DEF ScreenInv, Cell
<1>4. QED
  BY <1>2, <1>3 DEF backspace

\* DELETE rewrites the tail over the character under the cursor.
LEMMA DeleteKeepsScreen ==
    ASSUME NEW n \in Cell, OnScreen(data, i, n, term), data' = Deleted, i' = i,
           LET tail == Slice(data, i + 1, Length)
           IN  Emits(tail \o <<Blank, BS>> \o Backs(Len(tail)))
    PROVE  ScreenInv'
<1>1. n \in Nat /\ Holds(data, n) /\ OfText(data, n) /\ i \in 0 .. n /\ term = Picture(data, i, n)
  BY EditorAssumption DEF OnScreen, Cell
<1>2. Length = n
  BY <1>1, LengthIs
<1> DEFINE u == Slice(data, i + 1, n)
           L == IF i < n THEN n - 1 - i ELSE 0
           cs == u \o <<Blank, BS>> \o Backs(L)
<1>3. IsString(u, Text, L)
  <2>1. u = [k \in 1 .. L |-> data[i + 1 + k - 1]] /\ L \in Nat
    BY <1>1, EditorAssumption DEF Slice
  <2>2. \A k \in 1 .. L : i + 1 + k - 1 \in 0 .. (n - 1)
    BY <1>1
  <2>3. \A k \in 1 .. L : data[i + 1 + k - 1] \in Text
    BY <1>1, <2>2 DEF OfText
  <2> HIDE DEF u, L
  <2>4. u \in [1 .. L -> Text]
    BY <2>1, <2>3
  <2>5. QED
    BY <2>1, <2>4 DEF IsString
<1>4. term' = Echoed(term, cs)
  <2>1. Len(u) = L
    BY <1>3 DEF IsString
  <2>2. QED
    BY <1>2, <2>1 DEF Emits
<1>5. GoesOver(cs, 0, Then(u, L, Blank), L + 1)
  <2> HIDE DEF u, L
  <2>1. \A k \in 1 .. L : u[k] \in Text
    BY <1>3 DEF IsString
  <2>2. \A k \in 1 .. L : u[k] \notin Steers
    BY <2>1, EditorAssumption DEF Steers
  <2>3. QED
    BY <1>3, <2>2, WipingGoesOver
<1>6. data' = ShiftedLeft(i, n - 1)
  BY <1>2 DEF Deleted
<1> HIDE DEF cs
<1>7. CASE i < n
  <2>1. i \in 0 .. (n - 1) /\ L = n - 1 - i /\ L + 1 = n - i
    BY <1>1, <1>7
  <2> HIDE DEF L
  <2>2. /\ Echoed(Picture(data, i + 0, n), cs) = Picture(ShiftedLeft(i, n - 1), i, n - 1)
        /\ OfText(ShiftedLeft(i, n - 1), n - 1)
    <3>1. GoesOver(cs, 0, Then(Slice(data, i + 1, n), n - 1 - i, Blank), n - i)
      BY <1>5, <2>1
    <3>2. QED
      BY <1>1, <2>1, <3>1, TailRewritten
  <2>3. Holds(data', n - 1)
    BY <1>1, <1>6, <2>1, ShiftShortens
  <2>4. n - 1 \in Cell /\ i + 0 = i
    BY <1>1, <1>7, EditorAssumption DEF Cell
  <2>5. OnScreen(data', i', n - 1, term')
    BY <1>1, <1>4, <1>6, <2>1, <2>2, <2>3, <2>4 DEF OnScreen
  <2>6. QED
    BY <2>4, <2>5 DEF ScreenInv, Cell
<1>8. CASE i = n
  <2> DEFINE w == Then(u, L, Blank)
             row == Picture(data, n, n).row
  <2>1. L = 0
    BY <1>1, <1>8
  <2> HIDE DEF L
  <2>2. data' = data
    BY <1>1, <1>6, <1>8, EditorAssumption DEF ShiftedLeft, Holds, Cell
  <2>3. Len(w) = 1 /\ w[1] = Blank
    BY <2>1 DEF Then
  <2> HIDE DEF w
  <2>4. Picture(data, n, n) = [row |-> row, column |-> n] /\ IsRow(row)
    BY DEF Picture, IsRow
  <2>5. row[n] = Blank /\ n \in 0 .. BufSize
    BY <1>1, EditorAssumption DEF Picture, Cell
  <2> HIDE DEF row
  <2>6. Echoed([row |-> row, column |-> n], cs) =
           [row |-> Written(row, n - 0, w, Len(w)), column |-> n - 0 + Len(w) - 1]
    <3>1. GoesOver(cs, 0, w, 1) /\ n \in Int /\ 0 \in Nat /\ 1 \in Nat
      BY <1>1, <1>5, <2>1 DEF w
    <3>2. QED
      BY <2>4, <3>1, WentOver
  <2>7. Written(row, n, w, 1) = row
    <3>1. \A x \in 0 .. BufSize : (IF x \in n .. (n + 1 - 1) THEN w[x - n + 1] ELSE row[x]) = row[x]
      <4> SUFFICES ASSUME NEW x \in 0 .. BufSize, x \in n .. (n + 1 - 1)
                   PROVE  w[x - n + 1] = row[x]
        OBVIOUS
      <4>1. x = n /\ x - n + 1 = 1
        BY <1>1
      <4>2. QED
        BY <2>3, <2>5, <4>1
    <3>2. QED
      BY <2>4, <3>1 DEF Written, IsRow
  <2>8. term' = term
    <3>1. n - 0 = n /\ n - 0 + 1 - 1 = n
      BY <1>1
    <3>2. QED
      BY <1>1, <1>4, <1>8, <2>3, <2>4, <2>6, <2>7, <3>1
  <2>9. QED
    BY <2>2, <2>8 DEF ScreenInv, Cell
<1>9. QED
  BY <1>1, <1>7, <1>8

\* The arrows move both cursors.
LEMMA LetterKeepsScreen ==
    ASSUME NEW n \in Cell, OnScreen(data, i, n, term), NEW ch \in EscapeKeys, letter(ch)
    PROVE  ScreenInv'
<1>1. n \in Nat /\ Holds(data, n) /\ OfText(data, n) /\ i \in 0 .. n /\ term = Picture(data, i, n)
  BY EditorAssumption DEF OnScreen, Cell
<1>2. CASE data' = data /\ UNCHANGED <<i, term>>
  BY <1>2 DEF ScreenInv, Cell
<1>3. CASE data' = data /\ i > 0 /\ i' = i - 1 /\ Emits(<<LEFT>>)
  <2>1. term' = Printed(term, LEFT)
    BY <1>3, OneEchoed DEF Emits
  <2>2. Printed(Picture(data, i, n), LEFT) = Picture(data, i - 1, n)
    BY DEF Printed, Picture
  <2>3. i' \in 0 .. n
    BY <1>1, <1>3
  <2>4. OnScreen(data', i', n, term')
    BY <1>1, <1>3, <2>1, <2>2, <2>3 DEF OnScreen
  <2>5. QED
    BY <2>4 DEF ScreenInv, Cell
<1>4. CASE data' = data /\ data[i] # NUL /\ i' = i + 1 /\ Emits(<<RIGHT>>)
  <2>1. term' = Printed(term, RIGHT)
    BY <1>4, OneEchoed DEF Emits
  <2>2. Printed(Picture(data, i, n), RIGHT) = Picture(data, i + 1, n)
    BY DEF Printed, Picture, BS, LEFT, RIGHT
  <2>3. i' \in 0 .. n
    BY <1>1, <1>4, EditorAssumption DEF Holds, Cell
  <2>4. OnScreen(data', i', n, term')
    BY <1>1, <1>4, <2>1, <2>2, <2>3 DEF OnScreen
  <2>5. QED
    BY <2>4 DEF ScreenInv, Cell
<1>5. CASE /\ ch = "3"
           /\ data' = Deleted
           /\ LET tail == Slice(data, i + 1, Length)
              IN  Emits(tail \o <<Blank, BS>> \o Backs(Len(tail)))
           /\ i' = i
  BY <1>5, DeleteKeepsScreen
<1>6. QED
  BY <1>2, <1>3, <1>4, <1>5 DEF letter, cursor_left, cursor_right

\* A character overwrites the tail, on the screen as in the buffer.
LEMMA CharacterKeepsScreen ==
    ASSUME NEW n \in Cell, OnScreen(data, i, n, term), NEW ch \in Text, character(ch)
    PROVE  ScreenInv'
<1>1. n \in Nat /\ Holds(data, n) /\ OfText(data, n) /\ i \in 0 .. n /\ term = Picture(data, i, n)
  BY EditorAssumption DEF OnScreen, Cell
<1>2. Length = n
  BY <1>1, LengthIs
<1>3. CASE Length = BufSize - 1
  <2>1. data' = data /\ i' = i /\ term' = term
    BY <1>3, EditorAssumption DEF character
  <2>2. QED
    BY <2>1 DEF ScreenInv, Cell
<1>4. CASE Length < BufSize - 1
  <2>1. data' = Inserted(ch) /\ i' = i + 1 /\ Emits(InsertEcho(ch))
    BY <1>2, <1>4, EditorAssumption DEF character, Cell
  <2> DEFINE cs == <<ch>> \o [k \in 1 .. (n - i) |-> data[i]] \o Backs(n - i)
  <2>2. term' = Echoed(term, cs)
    BY <1>2, <2>1 DEF Emits, InsertEcho
  <2>3. GoesOver(cs, 0, [k \in 1 .. (n - i + 1) |-> IF k = 1 THEN ch ELSE data[i]], n - i)
    <3>1. n - i \in Nat /\ ch \notin Steers
      BY <1>1, EditorAssumption DEF Steers
    <3>2. n - i > 0 => data[i] \notin Steers
      <4>1. n - i > 0 => i \in 0 .. (n - 1)
        BY <1>1
      <4>2. QED
        BY <1>1, <4>1, TextPrints
    <3>3. QED
      BY <3>1, <3>2, InsertionGoesOver
  <2> HIDE DEF cs
  <2>4. /\ Echoed(Picture(data, i, n), cs) = Picture(Inserted(ch), i + 1, n + 1)
        /\ OfText(Inserted(ch), n + 1)
    BY <1>1, <1>2, <1>4, <2>3, TailOverwritten
  <2>5. Holds(data', n + 1)
    BY <1>1, <1>2, <1>4, <2>1, InsertLengthens
  <2>6. n + 1 \in Cell /\ i' \in 0 .. (n + 1)
    BY <1>1, <1>2, <1>4, <2>1, EditorAssumption DEF Cell
  <2>7. OnScreen(data', i', n + 1, term')
    BY <1>1, <2>1, <2>2, <2>4, <2>5, <2>6 DEF OnScreen
  <2>8. QED
    BY <2>6, <2>7 DEF ScreenInv, Cell
<1>5. QED
  BY <1>2, <1>3, <1>4, EditorAssumption DEF character, Cell

\* Every key keeps the screen.
LEMMA NextKeepsScreen == ScreenInv /\ [Next]_editVars => ScreenInv'
<1> SUFFICES ASSUME ScreenInv, [Next]_editVars PROVE ScreenInv'
  OBVIOUS
<1>1. PICK n \in Cell : OnScreen(data, i, n, term)
  BY DEF ScreenInv
<1>2. CASE backspace
  BY <1>1, <1>2, BackspaceKeepsScreen
<1>3. CASE \E ch \in EscapeKeys : letter(ch)
  BY <1>1, <1>3, LetterKeepsScreen
<1>4. CASE \E ch \in Text : character(ch)
  BY <1>1, <1>4, CharacterKeepsScreen
<1>5. CASE \/ newline \/ return \/ ctrl_c \/ escape
           \/ \E ch \in EscapeKeys : bracket(ch) \/ tilde(ch)
           \/ UNCHANGED editVars
  BY <1>1, <1>5, QuietKeysKeepScreen
<1>6. QED
  BY <1>2, <1>3, <1>4, <1>5 DEF Next, Key, Returned

-----------------------------------------------------------------------------
(* The theorems. *)

\* The editor's state keeps its types and the cursor never leaves the text.
THEOREM EditorTyped == Spec => []EditorTypeOK
<1>1. Inv => EditorTypeOK
  <2> SUFFICES ASSUME Inv PROVE EditorTypeOK
    OBVIOUS
  <2>1. PICK n \in Cell : Holds(data, n) /\ i \in 0 .. n
    BY DEF Inv
  <2>2. Length = n
    BY <2>1, LengthIs
  <2>3. i \in Cell /\ i <= Length
    BY <2>1, <2>2, EditorAssumption DEF Cell
  <2> QED BY <2>1, <2>3 DEF EditorTypeOK, Inv, Registers, Holds
<1> QED BY <1>1, SpecInv, PTL

\* Behind the first NUL of the buffer there are only NULs, after any keys.
THEOREM TailIsClean == Spec => []CleanTail
<1>1. Inv => CleanTail
  BY DEF Inv, Holds, CleanTail
<1> QED BY <1>1, SpecInv, PTL
\* The terminal shows the text in the buffer and nothing else, whatever keys
\* were typed: every echo moves back exactly as far as it wrote ahead.
THEOREM ScreenIsLine == Spec => []ScreenShowsLine
<1>1. ScreenInv => ScreenShowsLine
  <2> SUFFICES ASSUME ScreenInv PROVE ScreenShowsLine
    OBVIOUS
  <2>1. PICK n \in Cell : OnScreen(data, i, n, term)
    BY DEF ScreenInv
  <2>2. Length = n
    BY <2>1, LengthIs DEF OnScreen
  <2>3. Cell \subseteq 0 .. BufSize
    BY EditorAssumption DEF Cell
  <2>4. QED
    BY <2>1, <2>2, <2>3 DEF OnScreen, Picture, ScreenShowsLine
<1>2. QED
  BY <1>1, InitScreen, NextKeepsScreen, PTL DEF Spec

-----------------------------------------------------------------------------
(* The refinement of EditedLine. *)

First(d, p)   == [k \in 1 .. p |-> d[k - 1]]
Rest(d, p, n) == [k \in 1 .. (n - p) |-> d[p + k - 1]]

-----------------------------------------------------------------------------
(* The two strings. *)

\* Both are strings.
LEMMA FirstIsSeq ==
    ASSUME NEW d, NEW p \in Nat
    PROVE  First(d, p) \in Seq({d[k] : k \in 0 .. (p - 1)}) /\ Len(First(d, p)) = p
  BY DEF First

\* The string behind the cursor.
LEMMA RestIsSeq ==
    ASSUME NEW d, NEW n \in Nat, NEW p \in 0 .. n
    PROVE  /\ Rest(d, p, n) \in Seq({d[k] : k \in p .. (n - 1)})
           /\ Len(Rest(d, p, n)) = n - p
  BY DEF Rest

\* One cell more, and one cell less, before the cursor.
LEMMA FirstAppends ==
    ASSUME NEW d, NEW p \in Nat
    PROVE  First(d, p + 1) = Append(First(d, p), d[p])
  BY FirstIsSeq DEF First

\* The front of the characters with one more is the characters again.
LEMMA FirstFront ==
    ASSUME NEW d, NEW p \in Nat, p > 0
    PROVE  /\ First(d, p - 1) = Edited!Front(First(d, p))
           /\ First(d, p) # <<>> /\ First(d, p)[p] = d[p - 1]
  BY FirstIsSeq DEF First, Edited!Front

\* One cell less, and one cell more, behind it.
LEMMA RestTail ==
    ASSUME NEW d, NEW n \in Nat, NEW p \in 0 .. n, p < n
    PROVE  /\ Rest(d, p + 1, n) = Tail(Rest(d, p, n))
           /\ Rest(d, p, n) # <<>> /\ Rest(d, p, n)[1] = d[p]
<1>1. Rest(d, p + 1, n) = Tail(Rest(d, p, n))
  BY RestIsSeq, SMTT(60) DEF Rest
<1>2. Rest(d, p, n) # <<>> /\ Rest(d, p, n)[1] = d[p]
  BY RestIsSeq DEF Rest
<1> QED BY <1>1, <1>2

\* One character more in front of the rest conses it.
LEMMA RestConses ==
    ASSUME NEW d, NEW n \in Nat, NEW p \in 1 .. n
    PROVE  Rest(d, p - 1, n) = <<d[p - 1]>> \o Rest(d, p, n)
  BY RestIsSeq DEF Rest

\* The cells before the cursor are all the first string depends on.
LEMMA FirstAgrees ==
    ASSUME NEW d, NEW e, NEW p \in Nat, \A k \in 0 .. (p - 1) : d[k] = e[k]
    PROVE  First(d, p) = First(e, p)
  BY DEF First

\* The refinement mapping in those terms, for any buffer and cursor.
LEMMA Halves ==
    ASSUME NEW d, NEW n \in Cell, Holds(d, n), NEW p \in 0 .. n
    PROVE  Slice(d, 0, p) = First(d, p) /\ Slice(d, p, strlen(d, 0)) = Rest(d, p, n)
<1>1. strlen(d, 0) = n
  BY StrlenIs, EditorAssumption DEF Cell
<1>2. Slice(d, 0, p) = First(d, p)
  BY EditorAssumption DEF Slice, First, Cell
<1>3. Slice(d, p, n) = Rest(d, p, n)
  BY EditorAssumption DEF Slice, Rest, Cell
<1> QED BY <1>1, <1>2, <1>3

-----------------------------------------------------------------------------
(* The keys: n is the length before the key, m the length after it. *)

\* The refinement mapping before the key.
LEMMA MappedNow ==
    ASSUME NEW n \in Cell, Holds(data, n), i \in 0 .. n
    PROVE  Slice(data, 0, i) = First(data, i) /\ Slice(data, i, Length) = Rest(data, i, n)
  BY Halves DEF Length

\* The refinement mapping after it.
LEMMA MappedThen ==
    ASSUME NEW m \in Cell, Holds(data', m), i' \in 0 .. m
    PROVE  /\ Slice(data, 0, i)' = First(data', i')
           /\ Slice(data, i, Length)' = Rest(data', i', m)
  BY Halves DEF Length, Slice

\* A buffer and a cursor left alone leave both strings alone.
LEMMA StillStanding ==
    ASSUME data' = data, i' = i
    PROVE  UNCHANGED <<Slice(data, 0, i), Slice(data, i, Length)>>
  BY DEF Slice, Length, strlen

\* newline writes NULs where there are NULs.
LEMMA NewlineCloses ==
    ASSUME NEW n \in Cell, Holds(data, n), i \in 0 .. n, newline
    PROVE  UNCHANGED <<Slice(data, 0, i), Slice(data, i, Length)>>
<1>1. Length = n
  BY LengthIs
<1>2. Holds(data', n) /\ i' = i /\ \A k \in 0 .. (n - 1) : data'[k] = data[k]
  BY <1>1, EditorAssumption DEF newline, Returns, Holds, Cell
<1>3. First(data', i) = First(data, i)
  BY <1>2, EditorAssumption, FirstAgrees DEF Cell
<1>4. Rest(data', i, n) = Rest(data, i, n)
  <2>1. \A k \in 1 .. (n - i) : data'[i + k - 1] = data[i + k - 1]
    BY <1>2, EditorAssumption DEF Cell
  <2> QED BY <2>1 DEF Rest
<1> QED BY <1>2, <1>3, <1>4, MappedNow, MappedThen

\* Backspace takes the last character before the cursor.
LEMMA BackspaceIs ==
    ASSUME NEW n \in Cell, Holds(data, n), i \in 1 .. n,
           data' = Backspaced, i' = i - 1
    PROVE  Edited!Backspace
<1>1. i - 1 + strlen(data, i) = n - 1
  BY StrlenIs, EditorAssumption DEF Cell
<1>2. data' = ShiftedLeft(i - 1, n - 1)
  BY <1>1 DEF Backspaced
<1>3. Holds(data', n - 1) /\ n - 1 \in Cell /\ i' \in 0 .. (n - 1)
  BY <1>2, ShiftShortens, EditorAssumption DEF Cell
<1>4. First(data', i') = First(data, i - 1)
  <2>1. \A k \in 0 .. (i - 2) : data'[k] = data[k]
    BY <1>2, EditorAssumption DEF ShiftedLeft, Cell
  <2>2. i - 1 \in Nat /\ (i - 1) - 1 = i - 2
    BY EditorAssumption DEF Cell
  <2> QED BY <2>1, <2>2, FirstAgrees
<1>5. Rest(data', i', n - 1) = Rest(data, i, n)
  <2>1. \A k \in 1 .. (n - i) : data'[(i - 1) + k - 1] = data[i + k - 1]
    BY <1>2, EditorAssumption DEF ShiftedLeft, Cell
  <2>2. (n - 1) - (i - 1) = n - i
    BY EditorAssumption DEF Cell
  <2> QED BY <2>1, <2>2 DEF Rest
<1>6. First(data, i - 1) = Edited!Front(First(data, i)) /\ First(data, i) # <<>>
  BY FirstFront, EditorAssumption DEF Cell
<1>7. i \in 0 .. n
  BY EditorAssumption DEF Cell
<1> QED BY <1>3, <1>4, <1>5, <1>6, <1>7, MappedNow, MappedThen DEF Edited!Backspace

\* DELETE takes the first one behind it.
LEMMA DeleteIs ==
    ASSUME NEW n \in Cell, Holds(data, n), i \in 0 .. (n - 1),
           data' = Deleted, i' = i
    PROVE  Edited!Delete
<1>1. i \in 0 .. n /\ i < n /\ n \in Nat /\ n - 1 \in Nat
  BY EditorAssumption DEF Cell
<1>2. data' = ShiftedLeft(i, n - 1)
  BY <1>1, LengthIs DEF Deleted
<1>3. Holds(data', n - 1) /\ n - 1 \in Cell /\ i' \in 0 .. (n - 1)
  BY <1>2, ShiftShortens, EditorAssumption DEF Cell
<1>4. First(data', i') = First(data, i)
  <2>1. \A k \in 0 .. (i - 1) : data'[k] = data[k]
    BY <1>2, EditorAssumption DEF ShiftedLeft, Cell
  <2> QED BY <2>1, <1>1, FirstAgrees
<1>5. Rest(data', i', n - 1) = Rest(data, i + 1, n)
  <2>1. \A k \in 1 .. ((n - 1) - i) : data'[i + k - 1] = data[(i + 1) + k - 1]
    BY <1>2, EditorAssumption DEF ShiftedLeft, Cell
  <2>2. (n - 1) - i = n - (i + 1)
    BY <1>1
  <2> QED BY <2>1, <2>2 DEF Rest
<1>6. Rest(data, i + 1, n) = Tail(Rest(data, i, n)) /\ Rest(data, i, n) # <<>>
  BY <1>1, RestTail
<1> QED BY <1>1, <1>3, <1>4, <1>5, <1>6, MappedNow, MappedThen DEF Edited!Delete

\* The cursor goes over the last character before it.
LEMMA LeftIs ==
    ASSUME NEW n \in Cell, Holds(data, n), i \in 1 .. n,
           data' = data, i' = i - 1
    PROVE  Edited!Left
<1>1. i \in 0 .. n /\ n \in Nat /\ i \in Nat /\ i > 0
  BY EditorAssumption DEF Cell
<1>2. Holds(data', n) /\ i' \in 0 .. n
  BY <1>1 DEF Holds
<1>3. /\ First(data, i - 1) = Edited!Front(First(data, i))
      /\ First(data, i) # <<>> /\ First(data, i)[Len(First(data, i))] = data[i - 1]
  BY <1>1, FirstFront, FirstIsSeq
<1>4. Rest(data, i - 1, n) = <<data[i - 1]>> \o Rest(data, i, n)
  BY <1>1, RestConses
<1>5. Slice(data, 0, i)' = First(data, i - 1) /\ Slice(data, i, Length)' = Rest(data, i - 1, n)
  BY <1>2, MappedThen
<1>6. Slice(data, 0, i) = First(data, i) /\ Slice(data, i, Length) = Rest(data, i, n)
  BY <1>1, MappedNow
<1> QED BY <1>3, <1>4, <1>5, <1>6 DEF Edited!Left

\* The cursor goes over the first character behind it.
LEMMA RightIs ==
    ASSUME NEW n \in Cell, Holds(data, n), i \in 0 .. (n - 1),
           data' = data, i' = i + 1
    PROVE  Edited!Right
<1>1. i \in 0 .. n /\ n \in Nat /\ i \in Nat /\ i < n
  BY EditorAssumption DEF Cell
<1>2. Holds(data', n) /\ i' \in 0 .. n
  BY <1>1 DEF Holds
<1>3. /\ Rest(data, i + 1, n) = Tail(Rest(data, i, n))
      /\ Rest(data, i, n) # <<>> /\ Rest(data, i, n)[1] = data[i]
  BY <1>1, RestTail
<1>4. First(data, i + 1) = Append(First(data, i), data[i])
  BY <1>1, FirstAppends
<1>5. Slice(data, 0, i)' = First(data, i + 1) /\ Slice(data, i, Length)' = Rest(data, i + 1, n)
  BY <1>2, MappedThen
<1>6. Slice(data, 0, i) = First(data, i) /\ Slice(data, i, Length) = Rest(data, i, n)
  BY <1>1, MappedNow
<1> QED BY <1>3, <1>4, <1>5, <1>6 DEF Edited!Right

\* A character is put in before the cursor, and smears the rest.
LEMMA CharacterIs ==
    ASSUME NEW n \in Cell, Holds(data, n), i \in 0 .. n, n < BufSize - 1,
           NEW ch \in Text, data' = Inserted(ch), i' = i + 1
    PROVE  Edited!Type(ch)
<1>1. n \in Nat /\ i \in Nat /\ n + 1 \in Cell /\ i' \in 0 .. (n + 1)
  BY EditorAssumption DEF Cell
<1>2. Holds(data', n + 1) /\ Length = n
  BY InsertLengthens, LengthIs
<1>3. First(data', i') = Append(First(data, i), ch)
  <2>1. \A k \in 0 .. (i - 1) : data'[k] = data[k]
    BY <1>1, <1>2, EditorAssumption DEF Inserted, Cell
  <2>2. data'[i] = ch
    BY <1>1, <1>2, EditorAssumption DEF Inserted, Cell
  <2>3. First(data', i) = First(data, i)
    BY <1>1, <2>1, FirstAgrees
  <2>4. First(data', i + 1) = Append(First(data', i), data'[i])
    BY <1>1, FirstAppends
  <2> QED BY <2>2, <2>3, <2>4
<1>4. Rest(data', i', n + 1) = [k \in 1 .. (n - i) |-> data[i]]
  <2>1. \A k \in 1 .. (n - i) : data'[i + 1 + k - 1] = data[i]
    BY <1>1, <1>2, EditorAssumption DEF Inserted, Cell
  <2>2. (n + 1) - (i + 1) = n - i
    BY <1>1
  <2> QED BY <2>1, <2>2 DEF Rest
<1>5. Len(Rest(data, i, n)) = n - i
  BY <1>1, RestIsSeq
<1>6. \A k \in 1 .. (n - i) : Rest(data, i, n)[1] = data[i]
  BY <1>1 DEF Rest
<1>7. Rest(data', i', n + 1)
        = [k \in 1 .. Len(Rest(data, i, n)) |-> Rest(data, i, n)[1]]
  BY <1>4, <1>5, <1>6
<1>8. Slice(data, 0, i)' = First(data', i') /\ Slice(data, i, Length)' = Rest(data', i', n + 1)
  BY <1>1, <1>2, MappedThen
<1>9. Slice(data, 0, i) = First(data, i) /\ Slice(data, i, Length) = Rest(data, i, n)
  BY MappedNow
<1> QED BY <1>3, <1>7, <1>8, <1>9 DEF Edited!Type

-----------------------------------------------------------------------------
(* The refinement. *)

\* An empty buffer is two empty strings.
LEMMA InitRefines == Init => Edited!Init
<1> SUFFICES ASSUME Init PROVE Edited!Init
  OBVIOUS
<1>1. Holds(data, 0) /\ 0 \in Cell /\ i = 0
  BY EmptiedHolds DEF Init
<1>2. Slice(data, 0, i) = First(data, 0) /\ Slice(data, i, Length) = Rest(data, 0, 0)
  BY <1>1, MappedNow
<1>3. First(data, 0) = <<>> /\ Rest(data, 0, 0) = <<>>
  BY DEF First, Rest
<1> QED BY <1>2, <1>3 DEF Init, Edited!Init

\* What changes only the registers is no step of EditedLine, or the last one.
LEMMA QuietKeyRefines ==
    ASSUME status = "editing", Registers,
           UNCHANGED <<Slice(data, 0, i), Slice(data, i, Length)>>,
           status' \in {"editing", "done", "overrun"}
    PROVE  [Edited!Next]_(Edited!lineVars)
<1>1. CASE status' = "editing"
  BY <1>1 DEF Edited!lineVars
<1>2. CASE status' # "editing"
  BY <1>2 DEF Edited!Next, Edited!Close
<1> QED BY <1>1, <1>2

\* Backspace, at the start of the line or behind it.
LEMMA BackspaceRefines ==
    ASSUME NEW n \in Cell, Holds(data, n), i \in 0 .. n, Registers, backspace
    PROVE  [Edited!Next]_(Edited!lineVars)
<1>1. status = "editing" /\ status' = status
  BY DEF backspace, Awaiting
<1>2. CASE i = 0 /\ UNCHANGED <<data, i, term>>
  BY <1>1, <1>2, StillStanding, QuietKeyRefines
<1>3. CASE i > 0 /\ data' = Backspaced /\ i' = i - 1
  <2>1. i \in 1 .. n
    BY <1>3, EditorAssumption DEF Cell
  <2> QED BY <1>1, <1>3, <2>1, BackspaceIs DEF Edited!Next, Edited!Edit
<1> QED BY <1>2, <1>3 DEF backspace

\* The third key of an escape.
LEMMA LetterRefines ==
    ASSUME NEW n \in Cell, Holds(data, n), i \in 0 .. n, Registers,
           NEW ch \in EscapeKeys, letter(ch)
    PROVE  [Edited!Next]_(Edited!lineVars)
<1>1. status = "editing" /\ status' = status
  BY DEF letter, Awaiting
<1>2. ASSUME data' = data, i' = i PROVE [Edited!Next]_(Edited!lineVars)
  BY <1>1, <1>2, StillStanding, QuietKeyRefines
<1>3. CASE ch = "D"
  <2>1. data' = data /\ (i' = i \/ (i > 0 /\ i' = i - 1))
    BY <1>3 DEF letter, cursor_left
  <2>2. CASE i > 0 /\ i' = i - 1
    <3>1. i \in 1 .. n
      BY <2>2, EditorAssumption DEF Cell
    <3> QED BY <1>1, <2>1, <2>2, <3>1, LeftIs DEF Edited!Next, Edited!Edit
  <2> QED BY <1>2, <2>1, <2>2
<1>4. CASE ch = "C"
  <2>1. data' = data /\ (i' = i \/ (data[i] # NUL /\ i' = i + 1))
    BY <1>4 DEF letter, cursor_right
  <2>2. CASE data[i] # NUL /\ i' = i + 1
    <3>1. i \in 0 .. (n - 1)
      BY <2>2, EditorAssumption DEF Holds, Cell
    <3> QED BY <1>1, <2>1, <2>2, <3>1, RightIs DEF Edited!Next, Edited!Edit
  <2> QED BY <1>2, <2>1, <2>2
<1>5. CASE ch = "3"
  <2>1. data' = Deleted /\ i' = i /\ Deleted = ShiftedLeft(i, n - 1)
    BY <1>5, LengthIs DEF letter, Deleted
  <2>2. CASE i < n
    <3>1. i \in 0 .. (n - 1)
      BY <2>2, EditorAssumption DEF Cell
    <3> QED BY <1>1, <2>1, <3>1, DeleteIs DEF Edited!Next, Edited!Edit
  <2>3. CASE i = n
    <3>1. data' = data
      BY <2>1, <2>3, EditorAssumption DEF ShiftedLeft, Holds, Cell
    <3> QED BY <1>2, <2>1, <3>1
  <2> QED BY <2>2, <2>3, EditorAssumption DEF Cell
<1>6. CASE ch \notin {"D", "C", "3"}
  BY <1>2, <1>6 DEF letter
<1> QED BY <1>3, <1>4, <1>5, <1>6

\* A character, or one too many.
LEMMA CharacterRefines ==
    ASSUME NEW n \in Cell, Holds(data, n), i \in 0 .. n, Registers,
           NEW ch \in Text, character(ch)
    PROVE  [Edited!Next]_(Edited!lineVars)
<1>1. Length = n /\ status = "editing"
  BY LengthIs DEF character, Awaiting
<1>2. CASE Length = BufSize - 1
  <2>1. data' = data /\ i' = i /\ status' = "overrun"
    BY <1>2, EditorAssumption DEF character
  <2> QED BY <1>1, <2>1, StillStanding, QuietKeyRefines
<1>3. CASE Length < BufSize - 1
  <2>1. data' = Inserted(ch) /\ i' = i + 1 /\ status' = status
    BY <1>1, <1>3, EditorAssumption DEF character, Cell
  <2>2. Edited!Type(ch)
    BY <1>1, <1>3, <2>1, CharacterIs
  <2> QED BY <1>1, <2>1, <2>2 DEF Edited!Next, Edited!Edit
<1> QED BY <1>1, <1>2, <1>3, EditorAssumption DEF character, Cell

\* Every key is a step of EditedLine or none.
LEMMA NextRefines == Inv /\ [Next]_editVars => [Edited!Next]_(Edited!lineVars)
<1> SUFFICES ASSUME Inv, [Next]_editVars PROVE [Edited!Next]_(Edited!lineVars)
  OBVIOUS
<1>1. PICK n \in Cell : Holds(data, n) /\ i \in 0 .. n
  BY DEF Inv
<1>2. Registers
  BY DEF Inv
<1>3. CASE newline
  <2>1. status = "editing" /\ status' = "done"
    BY <1>3 DEF newline, Awaiting, Returns
  <2> QED BY <1>1, <1>2, <1>3, <2>1, NewlineCloses, QuietKeyRefines
<1>4. CASE backspace
  BY <1>1, <1>2, <1>4, BackspaceRefines
<1>5. CASE \E ch \in EscapeKeys : letter(ch)
  BY <1>1, <1>2, <1>5, LetterRefines
<1>6. CASE \E ch \in Text : character(ch)
  BY <1>1, <1>2, <1>6, CharacterRefines
<1>7. CASE return \/ ctrl_c \/ escape \/ \E ch \in EscapeKeys : bracket(ch) \/ tilde(ch)
  <2>1. status = "editing" /\ status' \in {"editing", "done"} /\ data' = data /\ i' = i
    BY <1>7 DEF return, ctrl_c, escape, bracket, tilde, Returns, Awaiting
  <2> QED BY <1>2, <2>1, StillStanding, QuietKeyRefines
<1>8. CASE UNCHANGED editVars
  BY <1>8, StillStanding DEF editVars, Edited!lineVars
<1> QED BY <1>3, <1>4, <1>5, <1>6, <1>7, <1>8 DEF Next, Key, Returned

\* Typing into the buffer of bytes is editing the two strings around the
\* cursor: whatever keys arrive, every one of get_string's copying loops does
\* to the buffer what its key should do to the line.
THEOREM EditorImplementsLine == Spec => EditsLine
<1>1. Spec => Edited!Init /\ [][Edited!Next]_(Edited!lineVars)
  BY InitRefines, NextRefines, SpecInv, PTL DEF Spec
<1> QED BY <1>1 DEF EditsLine, Edited!Spec
=============================================================================
