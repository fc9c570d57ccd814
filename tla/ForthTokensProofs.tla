------------------------- MODULE ForthTokensProofs -------------------------
(***************************************************************************)
(* For every size of the buffer and every alphabet: what is compiled is    *)
(* what the terminal shows.                                                *)
(*                                                                         *)
(* Until a line is entered the invariant is the editor's, ScreenInv: the   *)
(* screen shows the buffer.  From then on the screen stands still, and the *)
(* words of the line on it are a constant, LineWords(Line).  The invariant *)
(* says that they are the tokens taken so far and the words from the place *)
(* of the scanner on, that what the scanner has not reached is still as it *)
(* was typed, and which NUL the scanner stands on.                         *)
(***************************************************************************)
EXTENDS ForthTokens, LineEditorProofs

Chars == Text \cup {Blank, SandboxByte}
Words == Seq(Chars)

-----------------------------------------------------------------------------
(* The words of a line. *)

\* The least member of a set of numbers.
LEMMA LeastIs ==
    ASSUME NEW S, S \subseteq Nat, S # {}
    PROVE  Least(S) \in S /\ \A k \in S : Least(S) <= k
<1>1. \E n \in S : \A m \in S : n <= m
  BY LeastExists
<1>2. QED
  BY <1>1 DEF Least

\* A member below which there is none is the least one.
LEMMA LeastEquals ==
    ASSUME NEW S, S \subseteq Nat, NEW n \in S, \A k \in S : ~(k < n)
    PROVE  Least(S) = n
<1>1. Least(S) \in S /\ Least(S) <= n
  BY LeastIs
<1>2. Least(S) \in Nat /\ n \in Nat /\ ~(Least(S) < n)
  BY <1>1
<1>3. QED
  BY <1>1, <1>2

\* Nothing of S from p up to, not including, e.
NoneBefore(s, S, p, e) == \A q \in p .. (e - 1) : s[q] \notin S

\* A first character is one before which there is none.
LEMMA FirstInIs ==
    ASSUME NEW s, NEW n \in Nat, Len(s) = n, NEW S, NEW p \in 1 .. (n + 2)
    PROVE  \/ FirstIn(s, S, p) = n + 1 /\ NoneBefore(s, S, p, n + 1)
           \/ /\ FirstIn(s, S, p) \in p .. n /\ s[FirstIn(s, S, p)] \in S
              /\ NoneBefore(s, S, p, FirstIn(s, S, p))
<1> DEFINE Q == {q \in p .. n : s[q] \in S}
           e == FirstIn(s, S, p)
<1>1. Q \cup {n + 1} \subseteq Nat /\ Q \cup {n + 1} # {}
  OBVIOUS
<1> HIDE DEF Q
<1>2. e = Least(Q \cup {n + 1})
  BY DEF FirstIn, Q
<1> HIDE DEF e
<1>3. e \in Q \cup {n + 1} /\ \A k \in Q \cup {n + 1} : e <= k
  BY <1>1, <1>2, LeastIs
<1>4. \A q \in p .. (e - 1) : q \in p .. n => q \notin Q
  BY <1>1, <1>3
<1>5. CASE e \in Q
  <2>1. e \in p .. n /\ s[e] \in S
    BY <1>5 DEF Q
  <2>2. \A q \in p .. (e - 1) : q \in p .. n
    BY <2>1
  <2>3. NoneBefore(s, S, p, e)
    BY <1>4, <2>2 DEF Q, NoneBefore
  <2>4. QED
    BY <2>1, <2>3 DEF e
<1>6. CASE e = n + 1
  <2>1. \A q \in p .. ((n + 1) - 1) : q \in p .. n
    OBVIOUS
  <2>2. NoneBefore(s, S, p, n + 1)
    BY <1>4, <1>6, <2>1 DEF Q, NoneBefore
  <2>3. QED
    BY <1>6, <2>2 DEF e
<1>7. QED
  BY <1>3, <1>5, <1>6

\* There is only one such.
LEMMA FirstInEquals ==
    ASSUME NEW s, NEW n \in Nat, Len(s) = n, NEW S, NEW p \in 1 .. (n + 2),
           NEW e \in p .. n, s[e] \in S, NoneBefore(s, S, p, e)
    PROVE  FirstIn(s, S, p) = e
<1> DEFINE Q == {q \in p .. n : s[q] \in S}
<1>1. Q \cup {n + 1} \subseteq Nat /\ e \in Q \cup {n + 1}
  OBVIOUS
<1>2. \A k \in Q \cup {n + 1} : ~(k < e)
  <2> SUFFICES ASSUME NEW k \in Q \cup {n + 1}, k < e PROVE FALSE
    OBVIOUS
  <2>1. k \in p .. (e - 1) /\ s[k] \in S
    OBVIOUS
  <2>2. QED
    BY <2>1 DEF NoneBefore
<1> HIDE DEF Q
<1>3. Least(Q \cup {n + 1}) = e
  BY <1>1, <1>2, LeastEquals
<1>4. QED
  BY <1>3 DEF FirstIn, Q

\* Without one it is the place behind the line.
LEMMA FirstInNone ==
    ASSUME NEW s, NEW n \in Nat, Len(s) = n, NEW S, NEW p \in 1 .. (n + 2),
           NoneBefore(s, S, p, n + 1)
    PROVE  FirstIn(s, S, p) = n + 1
<1>1. {q \in p .. n : s[q] \in S} = {}
  BY DEF NoneBefore
<1>2. Least({n + 1}) = n + 1
  <2>1. {n + 1} \subseteq Nat /\ n + 1 \in {n + 1} /\ \A k \in {n + 1} : ~(k < n + 1)
    OBVIOUS
  <2>2. QED
    BY <2>1, LeastEquals
<1>3. QED
  BY <1>1, <1>2 DEF FirstIn

\* The line is a string of length n.
IsLine(s, n) == s \in Seq(Chars) /\ Len(s) = n

\* There are words from every place of a line of length n, and from the two
\* places behind it.
Places(n) == 1 .. (n + 2)

\* What follows a word, in the terms of what follows from a later place.
LEMMA BehindForms ==
    ASSUME NEW s, NEW n \in Nat, IsLine(s, n), NEW word, NEW e \in 1 .. (n + 1)
    PROVE  \/ \A f : Behind(s, f, word, e) = <<<<SandboxByte>>>>
           \/ \E k \in e .. n : \A f : Behind(s, f, word, e) = f[k + 1]
           \/ \A f : Behind(s, f, word, e) = <<>>
           \/ \E k \in (e + 1) .. n : \A f :
                 Behind(s, f, word, e) = <<SubSeq(s, e + 1, k - 1)>> \o f[k + 2]
           \/ \A f : Behind(s, f, word, e) = f[e]
<1> DEFINE closing == FirstIn(s, {")"}, e)
           quote == FirstIn(s, {QUOTE}, e + 1)
<1>1. Len(s) = n
  BY DEF IsLine
<1>2. e \in 1 .. (n + 2) /\ e + 1 \in 1 .. (n + 2)
  OBVIOUS
<1>3. closing = n + 1 \/ closing \in e .. n
  BY <1>1, <1>2, FirstInIs
<1>4. quote = n + 1 \/ quote \in (e + 1) .. n
  BY <1>1, <1>2, FirstInIs
<1>5. \A f : Behind(s, f, word, e) =
         CASE word = PAREN /\ closing > n -> <<<<SandboxByte>>>>
           [] word = PAREN /\ closing <= n -> f[closing + 1]
           [] word = DOT_QUOTE /\ quote > n -> <<>>
           [] word = DOT_QUOTE /\ quote <= n -> <<SubSeq(s, e + 1, quote - 1)>> \o f[quote + 2]
           [] OTHER -> f[e]
  BY <1>1 DEF Behind
<1>6. PAREN # DOT_QUOTE
  BY DEF PAREN, DOT_QUOTE
<1> HIDE DEF closing, quote
<1>7. CASE word = PAREN
  <2>1. CASE closing = n + 1
    <3>1. closing > n /\ ~(closing <= n)
      BY <2>1
    <3>2. \A f : Behind(s, f, word, e) = <<<<SandboxByte>>>>
      BY <1>5, <1>6, <1>7, <3>1
    <3>3. QED
      BY <3>2
  <2>2. CASE closing \in e .. n
    <3>1. closing <= n /\ ~(closing > n)
      BY <2>2
    <3>2. \A f : Behind(s, f, word, e) = f[closing + 1]
      BY <1>5, <1>6, <1>7, <3>1
    <3>3. QED
      BY <2>2, <3>2
  <2>3. QED
    BY <1>3, <2>1, <2>2
<1>8. CASE word = DOT_QUOTE
  <2>1. CASE quote = n + 1
    <3>1. quote > n /\ ~(quote <= n)
      BY <2>1
    <3>2. \A f : Behind(s, f, word, e) = <<>>
      BY <1>5, <1>6, <1>8, <3>1
    <3>3. QED
      BY <3>2
  <2>2. CASE quote \in (e + 1) .. n
    <3>1. quote <= n /\ ~(quote > n)
      BY <2>2
    <3>2. \A f : Behind(s, f, word, e) = <<SubSeq(s, e + 1, quote - 1)>> \o f[quote + 2]
      BY <1>5, <1>6, <1>8, <3>1
    <3>3. QED
      BY <2>2, <3>2
  <2>3. QED
    BY <1>4, <2>1, <2>2
<1>9. CASE word \notin {PAREN, DOT_QUOTE}
  <2>1. \A f : Behind(s, f, word, e) = f[e]
    BY <1>5, <1>9
  <2>2. QED
    BY <2>1
<1>10. QED
  BY <1>7, <1>8, <1>9

\* A piece of the line is a word.
LEMMA PieceIs ==
    ASSUME NEW s, NEW n \in Nat, IsLine(s, n), NEW a \in 1 .. (n + 1), NEW b \in (a - 1) .. n
    PROVE  SubSeq(s, a, b) \in Words
  BY SubSeqProperties DEF Words, IsLine

\* A word before others.
LEMMA ConsIs ==
    ASSUME NEW w \in Words, NEW ws \in Seq(Words)
    PROVE  <<w>> \o ws \in Seq(Words)
<1>1. <<w>> \in Seq(Words)
  OBVIOUS
<1>2. QED
  BY <1>1, ConcatProperties

\* What follows a word is words if what follows later places is.
LEMMA BehindIs ==
    ASSUME NEW s, NEW n \in Nat, IsLine(s, n), NEW from \in [Places(n) -> Seq(Words)],
           NEW word, NEW e \in 1 .. (n + 1)
    PROVE  Behind(s, from, word, e) \in Seq(Words)
<1> DEFINE after == Behind(s, from, word, e)
<1>1. \/ after = <<<<SandboxByte>>>>
      \/ \E k \in e .. n : after = from[k + 1]
      \/ after = <<>>
      \/ \E k \in (e + 1) .. n : after = <<SubSeq(s, e + 1, k - 1)>> \o from[k + 2]
      \/ after = from[e]
  BY BehindForms
<1> HIDE DEF after
<1>2. <<<<SandboxByte>>>> \in Seq(Words) /\ <<>> \in Seq(Words)
  BY DEF Words, Chars
<1>3. e \in Places(n)
  BY DEF Places
<1>4. ASSUME NEW k \in e .. n PROVE from[k + 1] \in Seq(Words)
  <2>1. k + 1 \in Places(n)
    BY DEF Places
  <2>2. QED
    BY <2>1
<1>5. ASSUME NEW k \in (e + 1) .. n PROVE <<SubSeq(s, e + 1, k - 1)>> \o from[k + 2] \in Seq(Words)
  <2> DEFINE a == e + 1
             b == k - 1
             ws == from[k + 2]
  <2>1. a \in 1 .. (n + 1) /\ b \in (a - 1) .. n /\ k + 2 \in Places(n)
    BY DEF Places
  <2>2. ws \in Seq(Words)
    BY <2>1
  <2> HIDE DEF a, b, ws
  <2>3. SubSeq(s, a, b) \in Words
    BY <2>1, PieceIs
  <2>4. <<SubSeq(s, a, b)>> \o ws \in Seq(Words)
    BY <2>2, <2>3, ConsIs
  <2>5. QED
    BY <2>4 DEF a, b, ws
<1>6. from[e] \in Seq(Words)
  BY <1>3
<1>7. after \in Seq(Words)
  BY <1>1, <1>2, <1>4, <1>5, <1>6
<1>8. QED
  BY <1>7 DEF after

\* Only what is known of later places is used.
LEMMA BehindAgrees ==
    ASSUME NEW s, NEW n \in Nat, IsLine(s, n), NEW word, NEW e \in 1 .. (n + 1),
           NEW g, NEW h, \A q \in e .. (n + 2) : g[q] = h[q]
    PROVE  Behind(s, g, word, e) = Behind(s, h, word, e)
<1>1. g[e] = h[e]
  OBVIOUS
<1>2. \A k \in e .. n : g[k + 1] = h[k + 1]
  OBVIOUS
<1>3. \A k \in (e + 1) .. n : g[k + 2] = h[k + 2]
  OBVIOUS
<1> DEFINE Comment == \A f : Behind(s, f, word, e) = <<<<SandboxByte>>>>
           Commented(k) == \A f : Behind(s, f, word, e) = f[k + 1]
           Open == \A f : Behind(s, f, word, e) = <<>>
           Quoted(k) == \A f : Behind(s, f, word, e) = <<SubSeq(s, e + 1, k - 1)>> \o f[k + 2]
           Plain == \A f : Behind(s, f, word, e) = f[e]
<1>4. \/ Comment \/ (\E k \in e .. n : Commented(k))
      \/ Open \/ (\E k \in (e + 1) .. n : Quoted(k)) \/ Plain
  BY BehindForms
<1>5. CASE Comment
  BY <1>5
<1>6. CASE \E k \in e .. n : Commented(k)
  BY <1>2, <1>6
<1>7. CASE Open
  BY <1>7
<1>8. CASE \E k \in (e + 1) .. n : Quoted(k)
  BY <1>3, <1>8
<1>9. CASE Plain
  BY <1>1, <1>9
<1>10. QED
  BY <1>4, <1>5, <1>6, <1>7, <1>8, <1>9

\* The words from a place on, in the terms of what follows from a later one.
LEMMA WordsAtForms ==
    ASSUME NEW s, NEW n \in Nat, IsLine(s, n), NEW p \in Places(n)
    PROVE  /\ p > n => \A f : WordsAt(s, f, p) = <<>>
           /\ p <= n /\ s[p] = Blank => \A f : WordsAt(s, f, p) = f[p + 1]
           /\ p <= n /\ s[p] # Blank =>
                \E e \in (p + 1) .. (n + 1) :
                   /\ e = FirstIn(s, {Blank}, p)
                   /\ \A f : WordsAt(s, f, p) = <<SubSeq(s, p, e - 1)>> \o Behind(s, f, SubSeq(s, p, e - 1), e)
<1>1. Len(s) = n
  BY DEF IsLine
<1>2. p \in 1 .. (n + 2) /\ p \in Nat
  BY DEF Places
<1>3. p > n => \A f : WordsAt(s, f, p) = <<>>
  BY <1>1 DEF WordsAt
<1>4. ~(p > n) /\ s[p] = Blank => \A f : WordsAt(s, f, p) = f[p + 1]
  BY <1>1 DEF WordsAt
<1>5. ASSUME p <= n, s[p] # Blank
      PROVE  \E e \in (p + 1) .. (n + 1) :
                /\ e = FirstIn(s, {Blank}, p)
                /\ \A f : WordsAt(s, f, p) = <<SubSeq(s, p, e - 1)>> \o Behind(s, f, SubSeq(s, p, e - 1), e)
  <2> DEFINE e == FirstIn(s, {Blank}, p)
  <2>1. \A f : WordsAt(s, f, p) = <<SubSeq(s, p, e - 1)>> \o Behind(s, f, SubSeq(s, p, e - 1), e)
    <3>1. ~(p > n)
      BY <1>2, <1>5
    <3>2. QED
      BY <1>1, <1>5, <3>1 DEF WordsAt
  <2>2. e = n + 1 \/ (e \in p .. n /\ s[e] \in {Blank})
    BY <1>1, <1>2, FirstInIs
  <2> HIDE DEF e
  <2>3. e \in (p + 1) .. (n + 1)
    BY <1>2, <1>5, <2>2
  <2>4. QED
    BY <2>1, <2>3 DEF e
<1>6. p <= n => ~(p > n)
  BY <1>2
<1>7. QED
  BY <1>3, <1>4, <1>5, <1>6

\* The words from a place on are words if those from later places are, and only
\* those are used.
LEMMA WordsAtIs ==
    ASSUME NEW s, NEW n \in Nat, IsLine(s, n), NEW p \in Places(n)
    PROVE  /\ \A from \in [Places(n) -> Seq(Words)] : WordsAt(s, from, p) \in Seq(Words)
           /\ \A g, h : (\A q \in (p + 1) .. (n + 2) : g[q] = h[q])
                           => WordsAt(s, g, p) = WordsAt(s, h, p)
<1>1. p \in 1 .. (n + 2) /\ p \in Nat
  BY DEF Places
<1>2. CASE p > n
  <2>1. \A f : WordsAt(s, f, p) = <<>>
    BY <1>2, WordsAtForms
  <2>2. <<>> \in Seq(Words)
    OBVIOUS
  <2>3. QED
    BY <2>1, <2>2, Zenon
<1>3. CASE p <= n /\ s[p] = Blank
  <2>1. \A f : WordsAt(s, f, p) = f[p + 1]
    BY <1>3, WordsAtForms
  <2>2. p + 1 \in Places(n) /\ p + 1 \in (p + 1) .. (n + 2)
    BY <1>1, <1>3 DEF Places
  <2>3. QED
    BY <2>1, <2>2
<1>4. CASE p <= n /\ s[p] # Blank
  <2>1. PICK e \in (p + 1) .. (n + 1) :
           \A f : WordsAt(s, f, p) = <<SubSeq(s, p, e - 1)>> \o Behind(s, f, SubSeq(s, p, e - 1), e)
    BY <1>4, WordsAtForms
  <2> DEFINE b == e - 1
             word == SubSeq(s, p, b)
  <2>2. p \in 1 .. (n + 1) /\ b \in (p - 1) .. n /\ e \in 1 .. (n + 1)
    BY <1>1, <1>4
  <2> HIDE DEF b
  <2>3. word \in Words
    BY <2>2, PieceIs
  <2>4. \A f : WordsAt(s, f, p) = <<word>> \o Behind(s, f, word, e)
    BY <2>1 DEF b
  <2> HIDE DEF word
  <2>5. ASSUME NEW from \in [Places(n) -> Seq(Words)]
        PROVE  WordsAt(s, from, p) \in Seq(Words)
    <3>1. Behind(s, from, word, e) \in Seq(Words)
      BY <2>2, BehindIs
    <3>2. QED
      BY <2>3, <2>4, <3>1, ConsIs
  <2>6. ASSUME NEW g, NEW h, \A q \in (p + 1) .. (n + 2) : g[q] = h[q]
        PROVE  WordsAt(s, g, p) = WordsAt(s, h, p)
    <3>1. \A q \in e .. (n + 2) : g[q] = h[q]
      BY <1>1, <2>6
    <3>2. Behind(s, g, word, e) = Behind(s, h, word, e)
      BY <2>2, <3>1, BehindAgrees
    <3>3. QED
      BY <2>4, <3>2
  <2>7. QED
    BY <2>5, <2>6
<1>5. p > n \/ p <= n
  BY <1>1
<1>6. QED
  BY <1>2, <1>3, <1>4, <1>5

\* Words(n, F) in the form that Descends asks for.
LEMMA WordsDescend ==
    ASSUME NEW s, NEW n \in Nat, IsLine(s, n)
    PROVE  Descending(n + 2, Seq(Words),
                      [p \in Places(n) |-> [g \in [Places(n) -> Seq(Words)] |-> WordsAt(s, g, p)]])
<1> DEFINE S == Seq(Words)
           F == [p \in Places(n) |-> [g \in [Places(n) -> S] |-> WordsAt(s, g, p)]]
<1>1. \A p \in Places(n) : \A g \in [Places(n) -> S] : WordsAt(s, g, p) \in S
  BY WordsAtIs
<1>2. \A p \in Places(n) : \A g, h : (\A q \in (p + 1) .. (n + 2) : g[q] = h[q])
                                    => WordsAt(s, g, p) = WordsAt(s, h, p)
  BY WordsAtIs
<1> HIDE DEF S
<1> DEFINE M == n + 2
<1>3. F \in [Places(n) -> [[Places(n) -> S] -> S]]
  BY <1>1
<1>4. \A i_ \in Places(n) : \A g, h \in [Places(n) -> S] :
         (\A j_ \in (i_ + 1) .. (n + 2) : g[j_] = h[j_]) => F[i_][g] = F[i_][h]
  BY <1>2
<1> HIDE DEF F
<1>5. Descending(n + 2, S, F)
  <2>1. Places(n) = 1 .. M /\ M \in Nat
    BY DEF Places
  <2> HIDE DEF M
  <2>2. F \in [1 .. M -> [[1 .. M -> S] -> S]]
    BY <1>3, <2>1
  <2>3. \A i_ \in 1 .. M : \A g, h \in [1 .. M -> S] :
           (\A j_ \in (i_ + 1) .. M : g[j_] = h[j_]) => F[i_][g] = F[i_][h]
    BY <1>4, <2>1 DEF M
  <2>4. Descending(M, S, F)
    BY <2>1, <2>2, <2>3 DEF Descending
  <2>5. QED
    BY <2>4 DEF M
<1>6. QED
  BY <1>5 DEF F, S

\* So there are words from every place on.
LEMMA WordsFromIs ==
    ASSUME NEW s, NEW n \in Nat, IsLine(s, n)
    PROVE  /\ WordsFrom(s) \in [Places(n) -> Seq(Words)]
           /\ \A p \in Places(n) : WordsFrom(s)[p] = WordsAt(s, WordsFrom(s), p)
<1> DEFINE M == n + 2
           D == Places(n)
           S == Seq(Words)
           F == [p \in D |-> [g \in [D -> S] |-> WordsAt(s, g, p)]]
           From(f) == f = [p \in D |-> WordsAt(s, f, p)]
           from == CHOOSE f : From(f)
<1>1. M \in Nat /\ <<>> \in S /\ D = 1 .. M
  BY DEF Places
<1>2. /\ \A p \in D : \A g \in [D -> S] : WordsAt(s, g, p) \in S
      /\ \A p \in D : \A g, h : (\A q \in (p + 1) .. M : g[q] = h[q])
                                    => WordsAt(s, g, p) = WordsAt(s, h, p)
  BY WordsAtIs
<1>3. Descending(M, S, F)
  BY WordsDescend
<1>4. WordsFrom(s) = from
  <2>1. 1 .. (Len(s) + 2) = D
    BY DEF IsLine, Places
  <2>2. QED
    BY <2>1 DEF WordsFrom
<1> HIDE DEF M, S, D
<1>5. PICK f \in [D -> S] : \A p \in D : f[p] = F[p][f]
  <2> HIDE DEF F
  <2>1. PICK f : Descended(M, S, F, f)
    BY <1>1, <1>3, Descends
  <2>2. QED
    BY <1>1, <2>1 DEF Descended
<1>6. \A p \in D : f[p] = WordsAt(s, f, p)
  BY <1>5
<1> HIDE DEF F
<1>7. From(f)
  BY <1>5, <1>6
<1>8. From(from)
  <2> HIDE DEF From
  <2>1. QED
    BY <1>7
<1> HIDE DEF from
<1>9. \A p \in D : from[p] = WordsAt(s, from, p)
  BY <1>8
<1> DEFINE Same == {k \in 0 .. M : \A p \in D : p > M - k => from[p] = f[p]}
<1>10. 0 \in Same
  <2>1. \A p \in D : ~(p > M - 0)
    BY <1>1
  <2>2. QED
    BY <1>1, <2>1
<1>11. ASSUME NEW k \in 0 .. (M - 1), k \in Same
      PROVE  k + 1 \in Same
  <2>1. k + 1 \in 0 .. M
    BY <1>1
  <2>2. ASSUME NEW p \in D, p > M - (k + 1)
        PROVE  from[p] = f[p]
    <3>1. \A q \in (p + 1) .. M : q \in D /\ q > M - k
      BY <1>1, <2>2
    <3>2. \A q \in (p + 1) .. M : from[q] = f[q]
      BY <1>11, <3>1
    <3>3. WordsAt(s, from, p) = WordsAt(s, f, p)
      BY <1>2, <3>2
    <3>4. QED
      BY <1>6, <1>9, <3>3
  <2>3. QED
    BY <2>1, <2>2
<1>12. M \in Same
  <2> HIDE DEF Same
  <2>1. \A k \in 0 .. M : k \in Same
    BY <1>1, <1>10, <1>11, IntervalInduction
  <2>2. M \in 0 .. M
    BY <1>1
  <2>3. QED
    BY <2>1, <2>2
<1>13. \A p \in D : from[p] = f[p]
  <2>1. \A p \in D : p > M - M
    BY <1>1
  <2>2. QED
    BY <1>12, <2>1
<1>14. from \in [D -> S]
  <2>1. \A p \in D : from[p] \in S
    BY <1>13
  <2>2. DOMAIN from = D /\ from = [p \in D |-> from[p]]
    BY <1>8
  <2>3. QED
    BY <2>1, <2>2
<1>15. QED
  BY <1>4, <1>9, <1>14 DEF S, D
\* After a word that is neither ( nor ." the words go on at its end.
LEMMA BehindPlain ==
    ASSUME NEW s, NEW f, NEW e, NEW word, word \notin {PAREN, DOT_QUOTE}
    PROVE  Behind(s, f, word, e) = f[e]
  BY DEF Behind

\* After ( they go on behind the first closing parenthesis.
LEMMA BehindComment ==
    ASSUME NEW s, NEW n \in Nat, IsLine(s, n), NEW f, NEW e \in 1 .. (n + 1),
           NEW k \in e .. n, s[k] = ")", NoneBefore(s, {")"}, e, k)
    PROVE  Behind(s, f, PAREN, e) = f[k + 1]
<1>1. Len(s) = n /\ e \in 1 .. (n + 2)
  BY DEF IsLine
<1>2. FirstIn(s, {")"}, e) = k
  BY <1>1, FirstInEquals
<1>3. PAREN # DOT_QUOTE
  BY DEF PAREN, DOT_QUOTE
<1>4. k <= n /\ ~(k > n)
  OBVIOUS
<1>5. QED
  BY <1>1, <1>2, <1>3, <1>4 DEF Behind

\* If there is none they end in the sandbox.
LEMMA BehindOpenComment ==
    ASSUME NEW s, NEW n \in Nat, IsLine(s, n), NEW f, NEW e \in 1 .. (n + 1),
           NoneBefore(s, {")"}, e, n + 1)
    PROVE  Behind(s, f, PAREN, e) = <<<<SandboxByte>>>>
<1>1. Len(s) = n /\ e \in 1 .. (n + 2)
  BY DEF IsLine
<1>2. FirstIn(s, {")"}, e) = n + 1
  BY <1>1, FirstInNone
<1>3. PAREN # DOT_QUOTE
  BY DEF PAREN, DOT_QUOTE
<1>4. n + 1 > n /\ ~(n + 1 <= n)
  OBVIOUS
<1>5. QED
  BY <1>1, <1>2, <1>3, <1>4 DEF Behind

\* After ." the text comes, and they go on behind its quote.
LEMMA BehindText ==
    ASSUME NEW s, NEW n \in Nat, IsLine(s, n), NEW f, NEW e \in 1 .. (n + 1),
           NEW k \in (e + 1) .. n, s[k] = QUOTE, NoneBefore(s, {QUOTE}, e + 1, k)
    PROVE  Behind(s, f, DOT_QUOTE, e) = <<SubSeq(s, e + 1, k - 1)>> \o f[k + 2]
<1> DEFINE a == e + 1
<1>1. Len(s) = n
  BY DEF IsLine
<1>2. FirstIn(s, {QUOTE}, a) = k
  <2>1. a \in 1 .. (n + 2) /\ k \in a .. n
    OBVIOUS
  <2> HIDE DEF a
  <2>2. NoneBefore(s, {QUOTE}, a, k)
    BY DEF a
  <2>3. QED
    BY <1>1, <2>1, <2>2, FirstInEquals
<1>3. PAREN # DOT_QUOTE
  BY DEF PAREN, DOT_QUOTE
<1>4. k <= n /\ ~(k > n)
  OBVIOUS
<1> HIDE DEF a
<1>5. Behind(s, f, DOT_QUOTE, e) =
         IF FirstIn(s, {QUOTE}, e + 1) <= n
         THEN <<SubSeq(s, e + 1, FirstIn(s, {QUOTE}, e + 1) - 1)>> \o f[FirstIn(s, {QUOTE}, e + 1) + 2]
         ELSE Behind(s, f, DOT_QUOTE, e)
  BY <1>1, <1>2, <1>3, <1>4 DEF Behind, a
<1>6. QED
  BY <1>2, <1>4, <1>5 DEF a

\* Over blanks the words stay the same.
LEMMA BlanksSkipped ==
    ASSUME NEW s, NEW n \in Nat, IsLine(s, n), NEW b \in 1 .. (n + 1), NEW a \in 1 .. b,
           \A k \in a .. (b - 1) : s[k] = Blank
    PROVE  WordsFrom(s)[a] = WordsFrom(s)[b]
<1> DEFINE W == WordsFrom(s)
           Same == {m \in 0 .. (b - a) : W[b - m] = W[b]}
<1>1. b - a \in Nat
  OBVIOUS
<1>2. 0 \in Same
  <2>1. b - 0 = b /\ 0 \in 0 .. (b - a)
    OBVIOUS
  <2>2. QED
    BY <2>1
<1>3. ASSUME NEW m \in 0 .. (b - a - 1), m \in Same
      PROVE  m + 1 \in Same
  <2> DEFINE p == b - (m + 1)
  <2>1. p \in a .. (b - 1) /\ p \in Places(n) /\ p <= n /\ p + 1 = b - m /\ m + 1 \in 0 .. (b - a)
    BY DEF Places
  <2> HIDE DEF p
  <2>2. s[p] = Blank
    BY <2>1
  <2>3. WordsAt(s, W, p) = W[p + 1]
    BY <2>1, <2>2, WordsAtForms
  <2>4. W[p] = WordsAt(s, W, p)
    BY <2>1, WordsFromIs
  <2>5. W[p] = W[b]
    BY <1>3, <2>1, <2>3, <2>4
  <2>6. QED
    BY <2>1, <2>5 DEF p
<1> HIDE DEF Same
<1>4. \A m \in 0 .. (b - a) : m \in Same
  BY <1>1, <1>2, <1>3, IntervalInduction
<1>5. b - a \in 0 .. (b - a) /\ b - (b - a) = a
  OBVIOUS
<1>6. QED
  BY <1>4, <1>5 DEF Same

\* Behind the line there are none.
LEMMA NoneBehind ==
    ASSUME NEW s, NEW n \in Nat, IsLine(s, n)
    PROVE  WordsFrom(s)[n + 1] = <<>>
<1>1. n + 1 \in Places(n) /\ n + 1 > n
  BY DEF Places
<1>2. WordsAt(s, WordsFrom(s), n + 1) = <<>>
  BY <1>1, WordsAtForms
<1>3. QED
  BY <1>1, <1>2, WordsFromIs

-----------------------------------------------------------------------------
(* The invariant. *)

\* The line s on the screen, of which z characters were typed.
Shows(s, z) ==
    /\ IsLine(s, BufSize) /\ z \in 0 .. (BufSize - 2)
    /\ \A k \in 1 .. z : s[k] \in Text
    /\ \A k \in (z + 1) .. BufSize : s[k] = Blank

\* What was in cell k of the buffer.
AsTyped(s, z, k) == IF k < z THEN s[k + 1] ELSE NUL

IsBuffer(d) == d = [k \in 0 .. BufSize |-> d[k]]

\* From its place p on the scanner meets what was typed, or a NUL it left at p.
Ahead(d, p, s, z) ==
    /\ IsBuffer(d) /\ p \in 0 .. z
    /\ d[p] \in {NUL, AsTyped(s, z, p)}
    /\ \A k \in (p + 1) .. (BufSize - 1) : d[k] = AsTyped(s, z, k)
    /\ d[BufSize] = SandboxByte

\* The words the scanner at p has yet to find.
Left(d, p, s) == IF is_term(d[p]) THEN WordsFrom(s)[p + 2] ELSE WordsFrom(s)[p + 1]

\* At the separator of the word of a comment or of a text.
AtSeparator(word, d, p, ts, s, z) ==
    /\ Ahead(d, p, s, z) /\ d[p] = NUL /\ s[p + 1] = Blank
    /\ LineWords(s) = ts \o Behind(s, WordsFrom(s), word, p + 1)

\* Behind a comment that is not closed.
AtSandbox(d, p, ts, s) ==
    /\ p = BufSize /\ IsBuffer(d) /\ d[BufSize] = SandboxByte
    /\ LineWords(s) = ts \o <<<<SandboxByte>>>>

\* What holds of the buffer d, the place p and the tokens ts in each phase.
Scans(ph, d, p, ts, s, z) ==
    /\ ts \in Seq(Words)
    /\ ph = "scanning" => \/ Ahead(d, p, s, z) /\ LineWords(s) = ts \o Left(d, p, s)
                          \/ AtSandbox(d, p, ts, s)
    /\ ph = "paren" => AtSeparator(PAREN, d, p, ts, s, z)
    /\ ph = "quote" => AtSeparator(DOT_QUOTE, d, p, ts, s, z)
    /\ ph = "scanned" => LineWords(s) = ts
    /\ ph = "rejected" => \E rest \in Seq(Words) : LineWords(s) = ts \o rest

Line == [k \in 1 .. BufSize |-> term.row[k - 1]]

\* While a line is typed: the editor's invariant, and the sandbox in place.
Types ==
    /\ ScreenInv
    /\ data[BufSize] = SandboxByte \/ (status = "done" /\ Length = BufSize - 1)
    /\ in = 0 /\ tokens = <<>>

\* From then on.
Entered ==
    /\ size \in Cell
    /\ \A k \in 0 .. (size - 1) : term.row[k] \in Text
    /\ \A k \in size .. (BufSize - 1) : term.row[k] = Blank
    /\ size <= BufSize - 2 => Scans(phase, data, in, tokens, Line, size)

Phases == {"scanning", "paren", "quote", "scanned", "rejected"}

TokenInv == (phase = "typing" /\ Types) \/ (phase \in Phases /\ Entered)

-----------------------------------------------------------------------------
(* The scanner finds the words. *)

\* What was typed is NUL, or the character on the screen.
LEMMA TypedIs ==
    ASSUME NEW s, NEW z, Shows(s, z), NEW k \in 0 .. (BufSize - 1)
    PROVE  /\ k >= z => AsTyped(s, z, k) = NUL /\ s[k + 1] = Blank
           /\ k < z => /\ AsTyped(s, z, k) = s[k + 1]
                       /\ s[k + 1] \notin {NUL, SandboxByte}
           /\ is_term(AsTyped(s, z, k)) <=> s[k + 1] = Blank
<1>1. z \in Nat /\ z <= BufSize - 2 /\ BufSize \in Nat
  BY EditorAssumption DEF Shows
<1>2. ASSUME k >= z
      PROVE  AsTyped(s, z, k) = NUL /\ s[k + 1] = Blank
  <2>1. k + 1 \in (z + 1) .. BufSize /\ ~(k < z)
    BY <1>1, <1>2
  <2>2. QED
    BY <2>1 DEF Shows, AsTyped
<1>3. ASSUME k < z
      PROVE  AsTyped(s, z, k) = s[k + 1] /\ s[k + 1] \in Text
  <2>1. k + 1 \in 1 .. z
    BY <1>1, <1>3
  <2>2. QED
    BY <1>3, <2>1 DEF Shows, AsTyped
<1>4. NUL \notin Text /\ SandboxByte \notin Text
  BY EditorAssumption, TokenAssumption
<1>5. k >= z \/ k < z
  BY <1>1
<1>6. QED
  BY <1>2, <1>3, <1>4, <1>5 DEF is_term

\* The skipping stops at the end of the line, and then there are no words left,
\* or at the start of the next word.
LEMMA SkipIs ==
    ASSUME NEW s, NEW z, Shows(s, z), NEW d, NEW p, Ahead(d, p, s, z)
    PROVE  LET q == SkippedTo(d, p) IN
           \/ d[q] = NUL /\ Left(d, p, s) = <<>>
           \/ /\ q \in p .. (z - 1) /\ d[q] = s[q + 1]
              /\ d[q] \notin {NUL, Blank} /\ Left(d, p, s) = WordsFrom(s)[q + 1]
<1> DEFINE q == SkippedTo(d, p)
           W == WordsFrom(s)
<1>1. z \in Nat /\ z + 2 <= BufSize /\ BufSize \in Nat /\ p \in 0 .. z /\ IsLine(s, BufSize)
  BY EditorAssumption DEF Shows, Ahead
<1>2. CASE ~is_term(d[p])
  <2>1. q = p /\ Left(d, p, s) = W[p + 1]
    BY <1>2 DEF SkippedTo, Left
  <2>2. d[p] \notin {NUL, Blank} /\ d[p] = AsTyped(s, z, p)
    BY <1>2 DEF is_term, Ahead
  <2>3. p \in 0 .. (BufSize - 1)
    BY <1>1
  <2>4. p < z /\ d[p] = s[p + 1]
    BY <1>1, <2>2, <2>3, TypedIs
  <2>5. p \in p .. (z - 1)
    BY <1>1, <2>4
  <2>6. QED
    BY <2>1, <2>2, <2>4, <2>5
<1>3. CASE is_term(d[p])
  <2> DEFINE Q == {x \in (p + 1) .. BufSize : d[x] # Blank}
  <2>1. q = Least(Q) /\ Left(d, p, s) = W[p + 2]
    BY <1>3 DEF SkippedTo, Left
  <2>2. \A k \in (p + 1) .. (BufSize - 1) : d[k] = AsTyped(s, z, k)
    BY DEF Ahead
  <2>3. z + 1 \in Q
    <3>1. z + 1 \in (p + 1) .. (BufSize - 1) /\ z + 1 \in 0 .. (BufSize - 1) /\ z + 1 >= z
          /\ z + 1 \in (p + 1) .. BufSize
      BY <1>1
    <3>2. d[z + 1] = NUL
      BY <2>2, <3>1, TypedIs
    <3>3. NUL # Blank
      BY TokenAssumption
    <3>4. QED
      BY <3>1, <3>2, <3>3
  <2>4. q \in Q /\ \A k \in Q : q <= k
    <3>1. Q \subseteq Nat
      BY <1>1
    <3> HIDE DEF Q, q
    <3>2. QED
      BY <2>1, <2>3, <3>1, LeastIs
  <2> HIDE DEF q
  <2>5. q \in (p + 1) .. (z + 1) /\ q \in 0 .. (BufSize - 1) /\ q \in (p + 1) .. (BufSize - 1)
    <3>1. q <= z + 1 /\ q \in (p + 1) .. BufSize
      BY <2>3, <2>4
    <3>2. QED
      BY <1>1, <3>1
  <2>6. d[q] # Blank
    BY <2>4
  <2>7. \A k \in (p + 1) .. (q - 1) : d[k] = Blank
    <3>1. \A k \in (p + 1) .. (q - 1) : k \in (p + 1) .. BufSize /\ ~(q <= k)
      BY <1>1, <2>5
    <3>2. QED
      BY <2>4, <3>1
  <2>8. \A k \in (p + 2) .. q : s[k] = Blank
    <3> SUFFICES ASSUME NEW k \in (p + 2) .. q PROVE s[k] = Blank
      OBVIOUS
    <3>1. /\ k - 1 \in (p + 1) .. (q - 1) /\ k - 1 \in (p + 1) .. (BufSize - 1)
          /\ k - 1 \in 0 .. (BufSize - 1) /\ (k - 1) + 1 = k
      BY <1>1, <2>5
    <3>2. is_term(AsTyped(s, z, k - 1))
      BY <2>2, <2>7, <3>1 DEF is_term
    <3>3. QED
      BY <3>1, <3>2, TypedIs
  <2>9. W[p + 2] = W[q + 1]
    <3> DEFINE a == p + 2
               b == q + 1
    <3>1. b \in 1 .. (BufSize + 1) /\ a \in 1 .. b /\ b - 1 = q
      BY <1>1, <2>5
    <3>2. \A k \in a .. (b - 1) : s[k] = Blank
      BY <2>8, <3>1
    <3> HIDE DEF a, b
    <3>3. W[a] = W[b]
      BY <1>1, <3>1, <3>2, BlanksSkipped
    <3>4. QED
      BY <3>3 DEF a, b
  <2>10. d[q] = AsTyped(s, z, q)
    BY <2>2, <2>5
  <2>11. CASE q < z
    <3>1. d[q] = s[q + 1] /\ d[q] # NUL
      BY <2>5, <2>10, <2>11, TypedIs
    <3>2. q \in p .. (z - 1)
      BY <1>1, <2>5, <2>11
    <3>3. QED
      BY <2>1, <2>6, <2>9, <3>1, <3>2 DEF q
  <2>12. CASE q >= z
    <3>1. d[q] = NUL
      BY <2>5, <2>10, <2>12, TypedIs
    <3>2. W[q + 1] = W[BufSize + 1]
      <4> DEFINE a == q + 1
                 b == BufSize + 1
      <4>1. b \in 1 .. (BufSize + 1) /\ a \in 1 .. b /\ a \in Nat /\ b - 1 = BufSize
        BY <1>1, <2>5
      <4>2. \A k \in a .. (b - 1) : k \in (z + 1) .. BufSize
        BY <1>1, <2>5, <2>12
      <4>3. \A k \in a .. (b - 1) : s[k] = Blank
        BY <4>2 DEF Shows
      <4> HIDE DEF a, b
      <4>4. W[a] = W[b]
        BY <1>1, <4>1, <4>3, BlanksSkipped
      <4>5. QED
        BY <4>4 DEF a, b
    <3>3. W[BufSize + 1] = <<>>
      BY <1>1, NoneBehind
    <3>4. QED
      BY <2>1, <2>9, <3>1, <3>2, <3>3 DEF q
  <2>13. q < z \/ q >= z
    BY <1>1, <2>5
  <2>14. QED
    BY <2>11, <2>12, <2>13
<1>4. QED
  BY <1>2, <1>3
\* At the start of a word, and from its place p on nothing was cut yet.
AtWord(d, p, q, s, z) ==
    /\ Ahead(d, p, s, z) /\ q \in p .. (z - 1)
    /\ d[q] = s[q + 1] /\ d[q] \notin {NUL, Blank}

\* The word ends at the first blank behind it.
LEMMA EndIs ==
    ASSUME NEW s, NEW z, Shows(s, z), NEW d, NEW p, NEW q, AtWord(d, p, q, s, z)
    PROVE  LET e == TokenEnd(d, q) IN
           /\ e \in (q + 1) .. z /\ s[e + 1] = Blank
           /\ \A k \in q .. (e - 1) : d[k] = s[k + 1] /\ d[k] \notin {NUL, Blank}
<1> DEFINE e == TokenEnd(d, q)
           Q == {x \in q .. BufSize : is_term(d[x])} \cup {BufSize + 1}
<1>1. /\ z \in Nat /\ z + 2 <= BufSize /\ BufSize \in Nat /\ p \in 0 .. z /\ q \in p .. (z - 1)
      /\ \A k \in (p + 1) .. (BufSize - 1) : d[k] = AsTyped(s, z, k)
  BY EditorAssumption DEF Shows, Ahead, AtWord
<1>2. z \in Q
  <2>1. z \in (p + 1) .. (BufSize - 1) /\ z \in 0 .. (BufSize - 1) /\ z >= z /\ z \in q .. BufSize
    BY <1>1
  <2>2. d[z] = NUL
    BY <1>1, <2>1, TypedIs
  <2>3. QED
    BY <2>1, <2>2 DEF is_term
<1>3. e \in Q /\ \A k \in Q : e <= k
  <2>1. e = Least(Q)
    BY DEF TokenEnd
  <2>2. Q \subseteq Nat
    BY <1>1
  <2> HIDE DEF Q, e
  <2>3. QED
    BY <1>2, <2>1, <2>2, LeastIs
<1> HIDE DEF e
<1>4. e \in q .. z /\ is_term(d[e])
  <2>1. e <= z
    BY <1>2, <1>3
  <2>2. e # BufSize + 1
    BY <1>1, <1>3, <2>1
  <2>3. e \in q .. BufSize /\ is_term(d[e])
    BY <1>3, <2>2
  <2>4. QED
    BY <1>1, <2>1, <2>3
<1>5. e # q
  BY <1>4 DEF AtWord, is_term
<1>6. e \in (q + 1) .. z
  BY <1>1, <1>4, <1>5
<1>7. s[e + 1] = Blank
  <2>1. e \in (p + 1) .. (BufSize - 1) /\ e \in 0 .. (BufSize - 1)
    BY <1>1, <1>6
  <2>2. QED
    BY <1>1, <1>4, <2>1, TypedIs
<1>8. ASSUME NEW k \in q .. (e - 1)
      PROVE  d[k] = s[k + 1] /\ d[k] \notin {NUL, Blank}
  <2>1. k \in q .. BufSize /\ ~(e <= k)
    BY <1>1, <1>6
  <2>2. ~is_term(d[k])
    BY <1>3, <2>1
  <2>3. CASE k = q
    BY <2>3 DEF AtWord
  <2>4. CASE k # q
    <3>1. k \in (p + 1) .. (BufSize - 1) /\ k \in 0 .. (BufSize - 1) /\ k < z
      BY <1>1, <1>6, <2>4
    <3>2. QED
      BY <1>1, <2>2, <3>1, TypedIs DEF is_term
  <2>5. QED
    BY <2>3, <2>4
<1>9. QED
  BY <1>6, <1>7, <1>8 DEF e

\* The cells from q up to, not including, e are still the line's.
Untouched(d, s, q, e) == \A k \in q .. (e - 1) : d[k] = s[k + 1]

\* They hold a piece of the line.
LEMMA SliceIs ==
    ASSUME NEW s, IsLine(s, BufSize), NEW d, NEW q \in Nat, NEW e \in Nat, q <= e, e <= BufSize,
           Untouched(d, s, q, e)
    PROVE  Slice(d, q, e) = SubSeq(s, q + 1, e) /\ SubSeq(s, q + 1, e) \in Words
<1> DEFINE m == e - q
           t == [k \in 1 .. m |-> d[q + k - 1]]
           a == q + 1
           u == SubSeq(s, a, e)
<1>1. m \in Nat /\ BufSize \in Nat
  BY EditorAssumption
<1>2. Slice(d, q, e) = t
  <2>1. (IF q < e THEN e - q ELSE 0) = m
    OBVIOUS
  <2>2. QED
    BY <2>1 DEF Slice
<1>3. a \in 1 .. (BufSize + 1) /\ e \in (a - 1) .. BufSize /\ (a <= e => e - a + 1 = m)
      /\ e - a + 1 = m /\ (~(a <= e) => m = 0)
  BY <1>1
<1>4. u \in Words
  <2> HIDE DEF a
  <2>1. QED
    BY <1>1, <1>3, PieceIs
<1>5. Len(u) = m /\ \A k \in 1 .. m : u[k] = s[a + k - 1]
  <2>1. \A x \in a .. e : s[x] \in Chars
    <3>1. \A x \in a .. e : x \in 1 .. BufSize
      BY <1>1
    <3>2. s \in Seq(Chars) /\ Len(s) = BufSize
      BY DEF IsLine
    <3>3. \A x \in 1 .. BufSize : s[x] \in Chars
      BY <3>2
    <3>4. QED
      BY <3>1, <3>3
  <2>2. a \in Int /\ e \in Int
    OBVIOUS
  <2> HIDE DEF a
  <2>3. Len(u) = (IF a <= e THEN e - a + 1 ELSE 0) /\ \A k \in 1 .. (e - a + 1) : u[k] = s[a + k - 1]
    BY <2>1, <2>2, SubSeqProperties
  <2>4. QED
    BY <1>3, <2>3
<1>6. \A k \in 1 .. m : t[k] = u[k]
  <2> SUFFICES ASSUME NEW k \in 1 .. m PROVE t[k] = u[k]
    OBVIOUS
  <2>1. t[k] = d[q + k - 1]
    OBVIOUS
  <2>2. q + k - 1 \in q .. (e - 1) /\ (q + k - 1) + 1 = a + k - 1
    BY <1>1
  <2>3. u[k] = s[a + k - 1]
    BY <1>5
  <2> HIDE DEF t, u, a
  <2>4. QED
    BY <2>1, <2>2, <2>3 DEF Untouched
<1>7. t \in Words
  <2> HIDE DEF u
  <2>1. \A k \in 1 .. m : u[k] \in Chars
    BY <1>4, <1>5 DEF Words
  <2>2. \A k \in 1 .. m : d[q + k - 1] \in Chars
    BY <1>6, <2>1
  <2>3. QED
    BY <1>1, <2>2 DEF Words
<1>8. Len(t) = m
  BY <1>1
<1>9. t = u
  <2> HIDE DEF t, u, m
  <2>1. QED
    BY <1>4, <1>5, <1>6, <1>7, <1>8, SeqEqual DEF Words
<1>10. QED
  BY <1>2, <1>4, <1>9

\* The token taken is the word on the screen, and the scanner stands on its NUL.
LEMMA TokenIs ==
    ASSUME NEW s, NEW z, Shows(s, z), NEW d, NEW p, NEW q, AtWord(d, p, q, s, z)
    PROVE  LET e == TokenEnd(d, q)
               word == StringAt(Cut(d, e), q)
           IN  /\ Ahead(Cut(d, e), e, s, z) /\ Cut(d, e)[e] = NUL /\ s[e + 1] = Blank
               /\ word \in Words /\ word # <<>>
               /\ WordsFrom(s)[q + 1] = <<word>> \o Behind(s, WordsFrom(s), word, e + 1)
               /\ e \in 0 .. (BufSize - 1)
<1> DEFINE e == TokenEnd(d, q)
           c == Cut(d, e)
           word == StringAt(c, q)
           W == WordsFrom(s)
<1>1. /\ z \in Nat /\ z + 2 <= BufSize /\ BufSize \in Nat /\ p \in 0 .. z /\ q \in p .. (z - 1)
      /\ IsLine(s, BufSize) /\ IsBuffer(d)
      /\ \A k \in (p + 1) .. (BufSize - 1) : d[k] = AsTyped(s, z, k)
      /\ d[BufSize] = SandboxByte
  BY EditorAssumption DEF Shows, Ahead, AtWord
<1>2. /\ e \in (q + 1) .. z /\ s[e + 1] = Blank
      /\ \A k \in q .. (e - 1) : d[k] = s[k + 1] /\ d[k] \notin {NUL, Blank}
  BY EndIs
<1> HIDE DEF e
<1>3. \A k \in 0 .. BufSize : c[k] = IF k = e THEN NUL ELSE d[k]
  <2>1. c = [d EXCEPT ![e] = NUL]
    BY <1>1, <1>2 DEF Cut
  <2>2. QED
    BY <1>1, <2>1 DEF IsBuffer
<1>4. IsBuffer(c)
  <2>1. c = [d EXCEPT ![e] = NUL]
    BY <1>1, <1>2 DEF Cut
  <2>2. QED
    BY <1>1, <2>1 DEF IsBuffer
<1> HIDE DEF c
<1>5. Ahead(c, e, s, z) /\ c[e] = NUL
  <2>1. c[e] = NUL /\ e \in 0 .. z
    BY <1>1, <1>2, <1>3
  <2>2. ASSUME NEW k \in (e + 1) .. (BufSize - 1)
        PROVE  c[k] = AsTyped(s, z, k)
    <3>1. k \in (p + 1) .. (BufSize - 1) /\ k \in 0 .. BufSize /\ k # e
      BY <1>1, <1>2
    <3>2. QED
      BY <1>1, <1>3, <3>1
  <2>3. c[BufSize] = SandboxByte
    <3>1. BufSize \in 0 .. BufSize /\ BufSize # e
      BY <1>1, <1>2
    <3>2. QED
      BY <1>1, <1>3, <3>1
  <2>4. QED
    BY <1>4, <2>1, <2>2, <2>3 DEF Ahead
<1>6. \A k \in q .. (e - 1) : c[k] = s[k + 1] /\ c[k] \notin {NUL, Blank}
  <2>1. \A k \in q .. (e - 1) : k \in 0 .. BufSize /\ k # e
    BY <1>1, <1>2
  <2>2. QED
    BY <1>2, <1>3, <2>1
<1>7. word = Slice(c, q, e)
  <2> DEFINE Q == {x \in q .. BufSize : c[x] = NUL} \cup {BufSize + 1}
  <2>1. e \in Q /\ Q \subseteq Nat
    BY <1>1, <1>2, <1>5
  <2>2. \A k \in Q : ~(k < e)
    <3> SUFFICES ASSUME NEW k \in Q, k < e PROVE FALSE
      OBVIOUS
    <3>1. k \in q .. BufSize /\ c[k] = NUL
      BY <1>1, <1>2
    <3>2. k \in q .. (e - 1)
      BY <1>1, <1>2, <3>1
    <3>3. QED
      BY <1>6, <3>1, <3>2
  <2>3. word = Slice(c, q, Least(Q))
    BY DEF StringAt
  <2> HIDE DEF Q
  <2>4. Least(Q) = e
    BY <2>1, <2>2, LeastEquals
  <2>5. QED
    BY <2>3, <2>4
<1> HIDE DEF word
<1>8. word = SubSeq(s, q + 1, e) /\ word \in Words
  <2>1. q \in Nat /\ e \in Nat /\ q <= e /\ e <= BufSize
    BY <1>1, <1>2
  <2>2. Untouched(c, s, q, e)
    BY <1>6 DEF Untouched
  <2>3. IsLine(s, BufSize)
    BY <1>1
  <2>4. Slice(c, q, e) = SubSeq(s, q + 1, e) /\ SubSeq(s, q + 1, e) \in Words
    BY <2>1, <2>2, <2>3, SliceIs
  <2>5. QED
    BY <1>7, <2>4
<1>9. word # <<>>
  <2>1. word = [k \in 1 .. (IF q < e THEN e - q ELSE 0) |-> c[q + k - 1]]
    BY <1>7 DEF Slice
  <2>2. 1 \in 1 .. (IF q < e THEN e - q ELSE 0)
    BY <1>1, <1>2
  <2>3. 1 \in DOMAIN word
    BY <2>1, <2>2
  <2>4. DOMAIN <<>> = {}
    OBVIOUS
  <2>5. QED
    BY <2>3, <2>4
<1>10. W[q + 1] = <<word>> \o Behind(s, W, word, e + 1)
  <2> DEFINE a == q + 1
             b == e + 1
  <2>1. a \in Places(BufSize) /\ a <= BufSize /\ a \in 1 .. (BufSize + 2) /\ b \in a .. BufSize /\ b - 1 = e
    BY <1>1, <1>2 DEF Places
  <2>2. s[a] # Blank
    <3>1. q \in q .. (e - 1)
      BY <1>1, <1>2
    <3>2. QED
      BY <1>2, <3>1
  <2>3. NoneBefore(s, {Blank}, a, b)
    <3>1. ASSUME NEW k \in a .. (b - 1) PROVE s[k] # Blank
      <4>1. k - 1 \in q .. (e - 1) /\ (k - 1) + 1 = k
        BY <1>1, <1>2
      <4>2. QED
        BY <1>2, <4>1
    <3>2. QED
      BY <3>1 DEF NoneBefore
  <2>4. s[b] \in {Blank}
    BY <1>2
  <2> HIDE DEF a, b
  <2>5. FirstIn(s, {Blank}, a) = b
    BY <1>1, <2>1, <2>3, <2>4, FirstInEquals DEF IsLine
  <2>6. WordsAt(s, W, a) = <<SubSeq(s, a, b - 1)>> \o Behind(s, W, SubSeq(s, a, b - 1), b)
    <3>1. PICK x \in (a + 1) .. (BufSize + 1) :
             /\ x = FirstIn(s, {Blank}, a)
             /\ \A f : WordsAt(s, f, a) = <<SubSeq(s, a, x - 1)>> \o Behind(s, f, SubSeq(s, a, x - 1), x)
      BY <1>1, <2>1, <2>2, WordsAtForms
    <3>2. x = b
      BY <2>5, <3>1
    <3>3. QED
      BY <3>1, <3>2
  <2>7. W[a] = WordsAt(s, W, a)
    BY <1>1, <2>1, WordsFromIs
  <2>8. SubSeq(s, a, b - 1) = word
    BY <1>8, <2>1 DEF a
  <2>9. W[a] = <<word>> \o Behind(s, W, word, b)
    BY <2>6, <2>7, <2>8
  <2>10. QED
    BY <2>9 DEF a, b
<1>11. e \in 0 .. (BufSize - 1)
  BY <1>1, <1>2
<1>12. QED
  BY <1>2, <1>5, <1>8, <1>9, <1>10, <1>11 DEF e, c, word
-----------------------------------------------------------------------------
(* The steps of the scanner. *)

\* A word taken from those to come.
LEMMA TakenIs ==
    ASSUME NEW ts \in Seq(Words), NEW w \in Words, NEW rest \in Seq(Words)
    PROVE  Append(ts, w) \in Seq(Words) /\ ts \o (<<w>> \o rest) = Append(ts, w) \o rest
<1>1. <<w>> \in Seq(Words)
  OBVIOUS
<1>2. Append(ts, w) = ts \o <<w>> /\ Append(ts, w) \in Seq(Words)
  BY AppendIsConcat, AppendProperties
<1>3. QED
  BY <1>1, <1>2, ConcatAssociative

\* A scanner on a separator of the line finds the words from there on.
LEMMA WordsLeft ==
    ASSUME NEW s, NEW z, Shows(s, z), NEW d, NEW p \in 0 .. (BufSize - 1),
           is_term(d[p]) => s[p + 1] = Blank
    PROVE  Left(d, p, s) = WordsFrom(s)[p + 1]
<1>1. CASE is_term(d[p])
  <2> DEFINE a == p + 1
             b == p + 2
             W == WordsFrom(s)
  <2>1. BufSize \in Nat /\ b \in 1 .. (BufSize + 1) /\ a \in 1 .. b
    BY EditorAssumption
  <2>2. \A k \in a .. (b - 1) : s[k] = Blank
    BY <1>1
  <2>3. Left(d, p, s) = W[b]
    BY <1>1 DEF Left
  <2>4. IsLine(s, BufSize)
    BY DEF Shows
  <2> HIDE DEF a, b
  <2>5. W[a] = W[b]
    BY <2>1, <2>2, <2>4, BlanksSkipped
  <2>6. QED
    BY <2>3, <2>5 DEF a
<1>2. CASE ~is_term(d[p])
  BY <1>2 DEF Left
<1>3. QED
  BY <1>1, <1>2

\* A cell from p on holds the character c, not a blank, if the line has it there.
LEMMA CellIs ==
    ASSUME NEW s, NEW z, Shows(s, z), NEW d, NEW p, Ahead(d, p, s, z),
           NEW k \in (p + 1) .. (BufSize - 1), NEW c, c \notin {NUL, Blank}
    PROVE  d[k] = c <=> s[k + 1] = c
<1>1. d[k] = AsTyped(s, z, k) /\ k \in 0 .. (BufSize - 1) /\ z \in Nat
  BY EditorAssumption DEF Ahead, Shows
<1>2. k < z \/ k >= z
  BY <1>1
<1>3. QED
  BY <1>1, <1>2, TypedIs

\* The scanner may start from any cell of the line that is still as typed.
LEMMA StartsAt ==
    ASSUME NEW s, NEW z, Shows(s, z), NEW d, NEW p, IsBuffer(d), d[BufSize] = SandboxByte,
           p \in 0 .. z, \A k \in p .. (BufSize - 1) : d[k] = AsTyped(s, z, k)
    PROVE  Ahead(d, p, s, z) /\ Left(d, p, s) = WordsFrom(s)[p + 1]
<1>1. p \in 0 .. (BufSize - 1) /\ p \in p .. (BufSize - 1)
      /\ \A k \in (p + 1) .. (BufSize - 1) : k \in p .. (BufSize - 1)
  BY EditorAssumption DEF Shows
<1>2. is_term(d[p]) => s[p + 1] = Blank
  BY <1>1, TypedIs
<1>3. QED
  BY <1>1, <1>2, WordsLeft DEF Ahead

\* The compiler finds its code in the sandbox already.
LEMMA CompiledAlready ==
    ASSUME NEW d, IsBuffer(d), d[BufSize] = SandboxByte
    PROVE  MayCompile(d) = {d}
<1>1. [d EXCEPT ![BufSize] = SandboxByte] = d
  BY DEF IsBuffer
<1>2. QED
  BY <1>1 DEF MayCompile

\* In the sandbox the token is a byte of code.
LEMMA SandboxToken ==
    ASSUME NEW d, d[BufSize] = SandboxByte
    PROVE  /\ TokenEnd(d, BufSize) = BufSize + 1
           /\ StringAt(d, BufSize) = <<SandboxByte>>
<1>1. SandboxByte \notin {NUL, Blank}
  BY TokenAssumption
<1>2. BufSize \in Nat /\ BufSize .. BufSize = {BufSize}
  BY EditorAssumption
<1>3. {x \in BufSize .. BufSize : is_term(d[x])} = {}
  BY <1>1, <1>2 DEF is_term
<1>4. {x \in BufSize .. BufSize : d[x] = NUL} = {}
  BY <1>1, <1>2
<1>5. Least({} \cup {BufSize + 1}) = BufSize + 1
  <2>1. {} \cup {BufSize + 1} \subseteq Nat /\ BufSize + 1 \in {} \cup {BufSize + 1}
        /\ \A k \in {} \cup {BufSize + 1} : ~(k < BufSize + 1)
    BY <1>2
  <2>2. QED
    BY <2>1, LeastEquals
<1>6. Slice(d, BufSize, BufSize + 1) = <<SandboxByte>>
  <2>1. (IF BufSize < BufSize + 1 THEN (BufSize + 1) - BufSize ELSE 0) = 1
    BY <1>2
  <2>2. Slice(d, BufSize, BufSize + 1) = [k \in 1 .. 1 |-> d[BufSize + k - 1]]
    BY <2>1 DEF Slice
  <2>3. \A k \in 1 .. 1 : BufSize + k - 1 = BufSize
    BY <1>2
  <2>4. [k \in 1 .. 1 |-> d[BufSize + k - 1]] = [k \in 1 .. 1 |-> SandboxByte]
    BY <2>3
  <2>5. [k \in 1 .. 1 |-> SandboxByte] = <<SandboxByte>>
    OBVIOUS
  <2>6. QED
    BY <2>2, <2>4, <2>5
<1>7. QED
  BY <1>3, <1>4, <1>5, <1>6 DEF TokenEnd, StringAt

\* forth_get_token takes the next word, or finds that there is none.
LEMMA TokenKeepsScans ==
    ASSUME NEW s, NEW z, Shows(s, z), Scans(phase, data, in, tokens, s, z), forth_get_token
    PROVE  Scans(phase', data', in', tokens', s, z) /\ phase' \in Phases
<1> DEFINE W == WordsFrom(s)
<1>1. z \in Nat /\ z + 2 <= BufSize /\ BufSize \in Nat /\ IsLine(s, BufSize)
  BY EditorAssumption DEF Shows
<1>2. tokens \in Seq(Words) /\ phase = "scanning"
  BY DEF Scans, forth_get_token
<1>3. CASE Ahead(data, in, s, z) /\ LineWords(s) = tokens \o Left(data, in, s)
  <2> DEFINE p == SkippedTo(data, in)
             q == TokenEnd(data, p)
             token == StringAt(Cut(data, q), p)
  <2>1. MayCompile(data) = {data}
    BY <1>3, CompiledAlready DEF Ahead
  <2>2. in # BufSize
    BY <1>1, <1>3 DEF Ahead
  <2>3. \/ data[p] = NUL /\ phase' = "scanned" /\ tokens' = tokens
        \/ /\ data[p] # NUL /\ data' = Cut(data, q) /\ in' = q
           /\ tokens' = Append(tokens, token)
           /\ phase' = CASE token = PAREN -> "paren"
                         [] token = DOT_QUOTE -> "quote"
                         [] p = BufSize -> "rejected"
                         [] OTHER -> "scanning"
    BY <2>1, <2>2 DEF forth_get_token
  <2> HIDE DEF p
  <2>4. \/ data[p] = NUL /\ Left(data, in, s) = <<>>
        \/ AtWord(data, in, p, s, z) /\ data[p] # NUL /\ Left(data, in, s) = W[p + 1]
    BY <1>3, SkipIs DEF p, AtWord
  <2>5. CASE data[p] = NUL
    <3>1. phase' = "scanned" /\ tokens' = tokens
      BY <2>3, <2>5
    <3>2. LineWords(s) = tokens
      BY <1>2, <1>3, <2>4, <2>5, ConcatEmptySeq
    <3>3. QED
      BY <1>2, <3>1, <3>2 DEF Scans, Phases
  <2>6. CASE data[p] # NUL
    <3> DEFINE B == Behind(s, W, token, q + 1)
    <3>1. AtWord(data, in, p, s, z) /\ Left(data, in, s) = W[p + 1]
      BY <2>4, <2>6
    <3>2. /\ Ahead(Cut(data, q), q, s, z) /\ Cut(data, q)[q] = NUL /\ s[q + 1] = Blank
          /\ token \in Words /\ W[p + 1] = <<token>> \o B /\ q \in 0 .. (BufSize - 1)
      BY <3>1, TokenIs
    <3>3. /\ data' = Cut(data, q) /\ in' = q /\ tokens' = Append(tokens, token)
          /\ phase' = CASE token = PAREN -> "paren"
                        [] token = DOT_QUOTE -> "quote"
                        [] p = BufSize -> "rejected"
                        [] OTHER -> "scanning"
      BY <2>3, <2>6
    <3> HIDE DEF q, token
    <3>4. B \in Seq(Words)
      <4>1. q + 1 \in 1 .. (BufSize + 1)
        BY <1>1, <3>2
      <4>2. W \in [Places(BufSize) -> Seq(Words)]
        BY <1>1, WordsFromIs
      <4>3. QED
        BY <1>1, <4>1, <4>2, BehindIs
    <3> HIDE DEF B
    <3>5. tokens' \in Seq(Words) /\ LineWords(s) = tokens' \o B
      BY <1>2, <1>3, <3>1, <3>2, <3>3, <3>4, TakenIs
    <3>6. p # BufSize
      BY <1>1, <3>1 DEF AtWord
    <3>7. CASE token = PAREN
      <4>1. phase' = "paren"
        BY <3>3, <3>6, <3>7 DEF PAREN, DOT_QUOTE
      <4>2. AtSeparator(PAREN, data', in', tokens', s, z)
        BY <3>2, <3>3, <3>5, <3>7 DEF AtSeparator, B
      <4>3. QED
        BY <3>5, <4>1, <4>2 DEF Scans, Phases
    <3>8. CASE token = DOT_QUOTE
      <4>1. phase' = "quote"
        BY <3>3, <3>6, <3>8 DEF PAREN, DOT_QUOTE
      <4>2. AtSeparator(DOT_QUOTE, data', in', tokens', s, z)
        BY <3>2, <3>3, <3>5, <3>8 DEF AtSeparator, B
      <4>3. QED
        BY <3>5, <4>1, <4>2 DEF Scans, Phases
    <3>9. CASE token \notin {PAREN, DOT_QUOTE}
      <4>1. phase' = "scanning"
        BY <3>3, <3>6, <3>9
      <4>2. B = W[q + 1]
        BY <3>9, BehindPlain DEF B
      <4>3. Left(data', in', s) = W[q + 1]
        BY <3>2, <3>3, WordsLeft
      <4>4. QED
        BY <3>2, <3>3, <3>5, <4>1, <4>2, <4>3 DEF Scans, Phases
    <3>10. QED
      BY <3>7, <3>8, <3>9
  <2>7. QED
    BY <2>5, <2>6
<1>4. CASE AtSandbox(data, in, tokens, s)
  <2> DEFINE q == TokenEnd(data, BufSize)
             token == StringAt(Cut(data, q), BufSize)
  <2>1. MayCompile(data) = {data} /\ in = BufSize /\ data[BufSize] = SandboxByte
    BY <1>4, CompiledAlready DEF AtSandbox
  <2>2. SandboxByte # NUL /\ SandboxByte # "("
    BY TokenAssumption
  <2>3. q = BufSize + 1 /\ StringAt(data, BufSize) = <<SandboxByte>>
    BY <2>1, SandboxToken
  <2>4. /\ tokens' = Append(tokens, token)
        /\ phase' = CASE token = PAREN -> "paren"
                      [] token = DOT_QUOTE -> "quote"
                      [] BufSize = BufSize -> "rejected"
                      [] OTHER -> "scanning"
    BY <2>1, <2>2 DEF forth_get_token
  <2>5. token = <<SandboxByte>>
    <3>1. Cut(data, q) = data
      BY <1>1, <2>3 DEF Cut
    <3>2. QED
      BY <2>3, <3>1
  <2> HIDE DEF token
  <2>6. token # PAREN /\ token # DOT_QUOTE
    BY <2>2, <2>5 DEF PAREN, DOT_QUOTE
  <2>7. phase' = "rejected"
    BY <2>4, <2>6
  <2>8. token \in Words /\ <<>> \in Seq(Words)
    BY <2>5 DEF Words, Chars
  <2>9. LineWords(s) = tokens \o <<token>>
    BY <1>4, <2>5 DEF AtSandbox
  <2>10. tokens' = tokens \o <<token>> /\ tokens' \in Seq(Words)
    BY <1>2, <2>4, <2>8, AppendIsConcat, AppendProperties
  <2>11. LineWords(s) = tokens' \o <<>>
    BY <2>9, <2>10, ConcatEmptySeq
  <2>12. QED
    BY <2>7, <2>8, <2>10, <2>11 DEF Scans, Phases
<1>5. QED
  BY <1>2, <1>3, <1>4 DEF Scans
\* ( goes on behind the next closing parenthesis of the line, or in the sandbox.
LEMMA ParenKeepsScans ==
    ASSUME NEW s, NEW z, Shows(s, z), Scans(phase, data, in, tokens, s, z),
           paren_immediate_handler
    PROVE  Scans(phase', data', in', tokens', s, z) /\ phase' \in Phases
<1> DEFINE W == WordsFrom(s)
           closing == {k \in in .. (BufSize - 1) : data[k] = ")"}
           e == in + 1
<1>1. z \in Nat /\ z + 2 <= BufSize /\ BufSize \in Nat /\ IsLine(s, BufSize)
  BY EditorAssumption DEF Shows
<1>2. /\ tokens \in Seq(Words) /\ AtSeparator(PAREN, data, in, tokens, s, z)
      /\ data' = data /\ tokens' = tokens /\ phase' = "scanning"
      /\ in' = IF closing = {} THEN BufSize ELSE Least(closing) + 1
  BY DEF Scans, paren_immediate_handler
<1>3. /\ Ahead(data, in, s, z) /\ data[in] = NUL /\ s[e] = Blank /\ in \in 0 .. z
      /\ IsBuffer(data) /\ data[BufSize] = SandboxByte
  BY <1>2 DEF AtSeparator, Ahead
<1>4. ")" \notin {NUL, Blank}
  BY EditorAssumption, TokenAssumption
<1>5. \A k \in in .. (BufSize - 1) : data[k] = ")" <=> s[k + 1] = ")"
  <2>1. data[in] # ")" /\ s[in + 1] # ")"
    BY <1>3, <1>4
  <2>2. \A k \in in .. (BufSize - 1) : k # in => k \in (in + 1) .. (BufSize - 1)
    BY <1>3
  <2>3. ASSUME NEW k \in (in + 1) .. (BufSize - 1)
        PROVE  data[k] = ")" <=> s[k + 1] = ")"
    BY <1>3, <1>4, CellIs
  <2>4. QED
    BY <2>1, <2>2, <2>3
<1>6. \A x \in e .. BufSize : s[x] = ")" <=> x - 1 \in closing
  <2> SUFFICES ASSUME NEW x \in e .. BufSize PROVE s[x] = ")" <=> x - 1 \in closing
    OBVIOUS
  <2>1. x - 1 \in in .. (BufSize - 1) /\ (x - 1) + 1 = x
    BY <1>1, <1>3
  <2>2. QED
    BY <1>5, <2>1
<1>7. e \in 1 .. (BufSize + 1) /\ e \in Nat
  BY <1>1, <1>3
<1>8. CASE closing = {}
  <2>1. NoneBefore(s, {")"}, e, BufSize + 1)
    <3>1. \A x \in e .. ((BufSize + 1) - 1) : x \in e .. BufSize
      BY <1>1
    <3>2. QED
      BY <1>6, <1>8, <3>1 DEF NoneBefore
  <2> HIDE DEF e
  <2>2. Behind(s, W, PAREN, e) = <<<<SandboxByte>>>>
    BY <1>1, <1>7, <2>1, BehindOpenComment
  <2>3. AtSandbox(data', in', tokens', s)
    BY <1>2, <1>3, <1>8, <2>2 DEF AtSandbox, AtSeparator, e
  <2>4. QED
    BY <1>2, <2>3 DEF Scans, Phases
<1>9. CASE closing # {}
  <2> DEFINE k == Least(closing)
             x == k + 1
  <2>1. closing \subseteq Nat
    BY <1>1, <1>3
  <2> HIDE DEF closing
  <2>2. k \in closing /\ \A l \in closing : k <= l
    BY <1>9, <2>1, LeastIs
  <2> HIDE DEF k
  <2>3. k \in in .. (BufSize - 1) /\ data[k] = ")"
    BY <2>2 DEF closing
  <2>4. x \in e .. BufSize /\ x - 1 = k
    BY <1>1, <1>3, <2>3
  <2>5. s[x] = ")"
    BY <1>6, <2>2, <2>4
  <2>6. NoneBefore(s, {")"}, e, x)
    <3>1. \A l \in e .. (x - 1) : l \in e .. BufSize /\ ~(k <= l - 1)
      BY <1>1, <1>7, <2>3, <2>4
    <3>2. QED
      BY <1>6, <2>2, <3>1 DEF NoneBefore
  <2>7. k # in /\ k \in (in + 1) .. (BufSize - 1) /\ k < z
    <3>1. k # in
      BY <1>3, <1>4, <2>3
    <3>2. k \in (in + 1) .. (BufSize - 1) /\ k \in 0 .. (BufSize - 1)
      BY <1>1, <1>3, <2>3, <3>1
    <3>3. data[k] = AsTyped(s, z, k)
      BY <1>3, <3>2 DEF Ahead
    <3>4. ~(k >= z)
      BY <1>4, <2>3, <3>2, <3>3, TypedIs
    <3>5. QED
      BY <1>1, <3>1, <3>2, <3>4
  <2>8. Behind(s, W, PAREN, e) = W[x + 1]
    <3> HIDE DEF e, x
    <3>1. QED
      BY <1>1, <1>7, <2>4, <2>5, <2>6, BehindComment
  <2>9. x \in 0 .. z /\ \A l \in x .. (BufSize - 1) : data[l] = AsTyped(s, z, l)
    <3>1. x \in 0 .. z /\ \A l \in x .. (BufSize - 1) : l \in (in + 1) .. (BufSize - 1)
      BY <1>1, <1>3, <2>7
    <3>2. QED
      BY <1>3, <3>1 DEF Ahead
  <2>10. in' = x
    BY <1>2, <1>9 DEF k, closing
  <2> HIDE DEF x
  <2>11. Ahead(data, x, s, z) /\ Left(data, x, s) = W[x + 1]
    BY <1>3, <2>9, StartsAt
  <2>12. QED
    BY <1>2, <2>8, <2>10, <2>11 DEF Scans, Phases, AtSeparator
<1>10. QED
  BY <1>8, <1>9

\* ." takes the text up to the next quote of the line, and goes on behind it;
\* without a quote it leaves the buffer.
LEMMA QuoteKeepsScans ==
    ASSUME NEW s, NEW z, Shows(s, z), Scans(phase, data, in, tokens, s, z),
           dot_quote_immediate_handler
    PROVE  Scans(phase', data', in', tokens', s, z) /\ phase' \in Phases
<1> DEFINE W == WordsFrom(s)
           quotes == {k \in (in + 1) .. (BufSize - 1) : data[k] = QUOTE}
           e == in + 1
<1>1. z \in Nat /\ z + 2 <= BufSize /\ BufSize \in Nat /\ IsLine(s, BufSize)
  BY EditorAssumption DEF Shows
<1>2. phase = "quote" /\ tokens \in Seq(Words) /\ AtSeparator(DOT_QUOTE, data, in, tokens, s, z)
  BY DEF Scans, dot_quote_immediate_handler
<1>3. /\ Ahead(data, in, s, z) /\ in \in 0 .. z
      /\ IsBuffer(data) /\ data[BufSize] = SandboxByte
  BY <1>2 DEF AtSeparator, Ahead
<1>4. QUOTE \notin {NUL, Blank}
  BY EditorAssumption, TokenAssumption
<1>5. ASSUME NEW k \in (in + 1) .. (BufSize - 1)
      PROVE  data[k] = QUOTE <=> s[k + 1] = QUOTE
  BY <1>3, <1>4, CellIs
<1>6. \A x \in (e + 1) .. BufSize : s[x] = QUOTE <=> x - 1 \in quotes
  <2> SUFFICES ASSUME NEW x \in (e + 1) .. BufSize PROVE s[x] = QUOTE <=> x - 1 \in quotes
    OBVIOUS
  <2>1. x - 1 \in (in + 1) .. (BufSize - 1) /\ (x - 1) + 1 = x
    BY <1>1, <1>3
  <2>2. QED
    BY <1>5, <2>1
<1>7. e \in 1 .. (BufSize + 1) /\ e \in Nat
  BY <1>1, <1>3
<1>8. CASE quotes = {}
  <2>1. phase' = phase /\ data' = data /\ in' = in /\ tokens' = tokens
    BY <1>8 DEF dot_quote_immediate_handler
  <2>2. QED
    BY <1>2, <2>1 DEF Scans, Phases
<1>9. CASE quotes # {}
  <2> DEFINE k == Least(quotes)
             x == k + 1
             text == Slice(data, e, k)
  <2>1. /\ tokens' = Append(tokens, text) /\ data' = [data EXCEPT ![x] = NUL]
        /\ in' = x /\ phase' = "scanning"
    BY <1>9 DEF dot_quote_immediate_handler, QuoteStep
  <2>2. quotes \subseteq Nat
    BY <1>1, <1>3
  <2> HIDE DEF quotes
  <2>3. k \in quotes /\ \A l \in quotes : k <= l
    BY <1>9, <2>2, LeastIs
  <2> HIDE DEF k
  <2>4. k \in (in + 1) .. (BufSize - 1) /\ data[k] = QUOTE
    BY <2>3 DEF quotes
  <2>5. x \in (e + 1) .. BufSize /\ x - 1 = k
    BY <1>1, <1>3, <2>4
  <2>6. s[x] = QUOTE
    BY <1>6, <2>3, <2>5
  <2>7. NoneBefore(s, {QUOTE}, e + 1, x)
    <3>1. \A l \in (e + 1) .. (x - 1) : l \in (e + 1) .. BufSize /\ ~(k <= l - 1)
      BY <1>1, <1>7, <2>4, <2>5
    <3>2. QED
      BY <1>6, <2>3, <3>1 DEF NoneBefore
  <2>8. k < z
    <3>1. k \in 0 .. (BufSize - 1) /\ data[k] = AsTyped(s, z, k)
      BY <1>1, <1>3, <2>4 DEF Ahead
    <3>2. ~(k >= z)
      BY <1>4, <2>4, <3>1, TypedIs
    <3>3. QED
      BY <1>1, <3>1, <3>2
  <2>9. text = SubSeq(s, e + 1, k) /\ text \in Words
    <3>1. Untouched(data, s, e, k)
      <4> SUFFICES ASSUME NEW l \in e .. (k - 1) PROVE data[l] = s[l + 1]
        BY DEF Untouched
      <4>1. l \in (in + 1) .. (BufSize - 1) /\ l \in 0 .. (BufSize - 1) /\ l < z
        BY <1>1, <1>3, <2>4, <2>8
      <4>2. data[l] = AsTyped(s, z, l)
        BY <1>3, <4>1 DEF Ahead
      <4>3. QED
        BY <4>1, <4>2, TypedIs
    <3>2. e \in Nat /\ k \in Nat /\ e <= k /\ k <= BufSize
      BY <1>1, <1>3, <2>4
    <3>3. IsLine(s, BufSize)
      BY <1>1
    <3> HIDE DEF e
    <3>4. Slice(data, e, k) = SubSeq(s, e + 1, k) /\ SubSeq(s, e + 1, k) \in Words
      BY <3>1, <3>2, <3>3, SliceIs
    <3>5. QED
      BY <3>4
  <2>10. Behind(s, W, DOT_QUOTE, e) = <<text>> \o W[x + 2]
    <3> HIDE DEF e, x
    <3>1. Behind(s, W, DOT_QUOTE, e) = <<SubSeq(s, e + 1, x - 1)>> \o W[x + 2]
      BY <1>1, <1>7, <2>5, <2>6, <2>7, BehindText
    <3>2. QED
      BY <2>5, <2>9, <3>1
  <2>11. x \in 0 .. z /\ x \in 0 .. (BufSize - 1) /\ x + 2 \in Places(BufSize)
    BY <1>1, <1>3, <2>4, <2>8 DEF Places
  <2> HIDE DEF x, text
  <2>12. \A l \in 0 .. BufSize : data'[l] = IF l = x THEN NUL ELSE data[l]
    BY <1>1, <1>3, <2>1, <2>11 DEF IsBuffer
  <2>13. IsBuffer(data')
    BY <1>1, <1>3, <2>1, <2>11 DEF IsBuffer
  <2>14. Ahead(data', x, s, z)
    <3>1. data'[x] = NUL
      BY <1>1, <2>11, <2>12
    <3>2. BufSize \in 0 .. BufSize /\ BufSize # x
      BY <1>1, <2>11
    <3>3. data'[BufSize] = SandboxByte
      BY <1>3, <2>12, <3>2
    <3>4. ASSUME NEW l \in (x + 1) .. (BufSize - 1)
          PROVE  data'[l] = AsTyped(s, z, l)
      <4>1. l \in (in + 1) .. (BufSize - 1) /\ l \in 0 .. BufSize /\ l # x
        BY <1>1, <1>3, <2>4, <2>11 DEF x
      <4>2. QED
        BY <1>3, <2>12, <4>1 DEF Ahead
    <3>5. QED
      BY <2>11, <2>13, <3>1, <3>3, <3>4 DEF Ahead
  <2>15. Left(data', x, s) = W[x + 2]
    <3>1. data'[x] = NUL
      BY <1>1, <2>11, <2>12
    <3>2. QED
      BY <3>1 DEF Left, is_term
  <2>16. W[x + 2] \in Seq(Words)
    <3>1. W \in [Places(BufSize) -> Seq(Words)]
      BY <1>1, WordsFromIs
    <3>2. QED
      BY <2>11, <3>1
  <2>17. tokens' \in Seq(Words) /\ LineWords(s) = tokens' \o W[x + 2]
    <3> DEFINE rest == W[x + 2]
    <3>1. LineWords(s) = tokens \o (<<text>> \o rest) /\ rest \in Seq(Words) /\ text \in Words
      BY <1>2, <2>9, <2>10, <2>16 DEF AtSeparator
    <3> HIDE DEF rest
    <3>2. tokens' \in Seq(Words) /\ LineWords(s) = tokens' \o rest
      BY <1>2, <2>1, <3>1, TakenIs
    <3>3. QED
      BY <3>2 DEF rest
  <2>18. QED
    BY <2>1, <2>14, <2>15, <2>17 DEF Scans, Phases
<1>10. QED
  BY <1>8, <1>9

\* A rejected token leaves the words behind it.
LEMMA RejectKeepsScans ==
    ASSUME NEW s, NEW z, Shows(s, z), Scans(phase, data, in, tokens, s, z), Rejects
    PROVE  Scans(phase', data', in', tokens', s, z) /\ phase' \in Phases
<1>1. z \in Nat /\ z + 2 <= BufSize /\ BufSize \in Nat /\ IsLine(s, BufSize)
  BY EditorAssumption DEF Shows
<1>2. /\ phase = "scanning" /\ phase' = "rejected" /\ tokens' = tokens
      /\ tokens \in Seq(Words)
  BY DEF Rejects, Scans
<1>3. \E rest \in Seq(Words) : LineWords(s) = tokens \o rest
  <2>1. CASE Ahead(data, in, s, z) /\ LineWords(s) = tokens \o Left(data, in, s)
    <3>1. in + 1 \in Places(BufSize) /\ in + 2 \in Places(BufSize)
      BY <1>1, <2>1 DEF Ahead, Places
    <3>2. WordsFrom(s) \in [Places(BufSize) -> Seq(Words)]
      BY <1>1, WordsFromIs
    <3>3. WordsFrom(s)[in + 1] \in Seq(Words) /\ WordsFrom(s)[in + 2] \in Seq(Words)
      BY <3>1, <3>2
    <3>4. Left(data, in, s) \in Seq(Words)
      BY <3>3 DEF Left
    <3>5. QED
      BY <2>1, <3>4
  <2>2. CASE AtSandbox(data, in, tokens, s)
    <3>1. <<<<SandboxByte>>>> \in Seq(Words)
      BY DEF Words, Chars
    <3>2. QED
      BY <2>2, <3>1 DEF AtSandbox
  <2>3. QED
    BY <1>2, <2>1, <2>2 DEF Scans
<1>4. QED
  BY <1>2, <1>3 DEF Scans, Phases
-----------------------------------------------------------------------------
(* The invariant is kept. *)

\* The line on the screen is a line.
LEMMA LineIs ==
    ASSUME Entered, size <= BufSize - 2
    PROVE  Shows(Line, size) /\ Scans(phase, data, in, tokens, Line, size)
<1>1. BufSize \in Nat /\ size \in 0 .. (BufSize - 2) /\ size \in Nat
  BY EditorAssumption DEF Entered, Cell
<1>2. \A k \in 1 .. BufSize : Line[k] = term.row[k - 1]
  BY <1>1 DEF Line
<1>3. ASSUME NEW k \in 1 .. size
      PROVE  Line[k] \in Text
  <2>1. k - 1 \in 0 .. (size - 1) /\ k \in 1 .. BufSize
    BY <1>1
  <2>2. QED
    BY <1>2, <2>1 DEF Entered
<1>4. ASSUME NEW k \in (size + 1) .. BufSize
      PROVE  Line[k] = Blank
  <2>1. k - 1 \in size .. (BufSize - 1) /\ k \in 1 .. BufSize
    BY <1>1
  <2>2. QED
    BY <1>2, <2>1 DEF Entered
<1>5. IsLine(Line, BufSize)
  <2>1. \A k \in 1 .. BufSize : k \in 1 .. size \/ k \in (size + 1) .. BufSize
    BY <1>1
  <2>2. \A k \in 1 .. BufSize : Line[k] \in Chars
    BY <1>3, <1>4, <2>1 DEF Chars
  <2>3. \A k \in 1 .. BufSize : term.row[k - 1] \in Chars
    BY <1>2, <2>2
  <2>4. Line \in Seq(Chars) /\ Len(Line) = BufSize
    BY <1>1, <2>3 DEF Line
  <2>5. QED
    BY <2>4 DEF IsLine
<1>6. QED
  BY <1>1, <1>3, <1>4, <1>5 DEF Shows, Entered

\* While the screen stands still the line is the same.
LEMMA LineStays ==
    ASSUME Entered, size' = size, term' = term,
           size <= BufSize - 2 => Scans(phase', data', in', tokens', Line, size)
    PROVE  Entered'
<1>1. Line' = Line
  BY DEF Line
<1>2. QED
  BY <1>1 DEF Entered, Cell

\* The scanner, and a token that is rejected.
LEMMA ScanKeepsInv ==
    ASSUME TokenInv, Scan \/ Rejects
    PROVE  TokenInv'
<1>1. phase # "typing" /\ phase \in Phases /\ Entered
  BY DEF TokenInv, Scan, Rejects, forth_get_token, paren_immediate_handler,
         dot_quote_immediate_handler
<1>2. size' = size /\ term' = term
  BY DEF Scan, Rejects, forth_get_token, paren_immediate_handler,
         dot_quote_immediate_handler, LineUnchanged
<1>3. phase' \in Phases
  BY <1>1 DEF Scan, Rejects, forth_get_token, paren_immediate_handler,
              dot_quote_immediate_handler, Phases
<1>4. ASSUME size <= BufSize - 2
      PROVE  Scans(phase', data', in', tokens', Line, size)
  <2>1. Shows(Line, size) /\ Scans(phase, data, in, tokens, Line, size)
    BY <1>1, <1>4, LineIs
  <2>2. CASE forth_get_token
    BY <2>1, <2>2, TokenKeepsScans
  <2>3. CASE paren_immediate_handler
    BY <2>1, <2>3, ParenKeepsScans
  <2>4. CASE dot_quote_immediate_handler
    BY <2>1, <2>4, QuoteKeepsScans
  <2>5. CASE Rejects
    BY <2>1, <2>5, RejectKeepsScans
  <2>6. QED
    BY <2>2, <2>3, <2>4, <2>5 DEF Scan
<1>5. Entered'
  BY <1>1, <1>2, <1>4, LineStays
<1>6. QED
  BY <1>3, <1>5 DEF TokenInv

\* A key keeps the editor's invariant, and writes into the sandbox only where
\* the line leaves one cell of the buffer.
LEMMA TypingKeepsInv ==
    ASSUME TokenInv, Typing
    PROVE  TokenInv'
<1>1. phase = "typing" /\ Types /\ Key /\ in' = in /\ tokens' = tokens /\ phase' = phase
  BY DEF TokenInv, Typing, Phases
<1>2. ScreenInv'
  BY <1>1, NextKeepsScreen DEF Types, Next
<1>3. PICK n \in Cell : OnScreen(data, i, n, term)
  BY <1>1 DEF Types, ScreenInv
<1>4. Length = n /\ n \in Nat /\ n <= BufSize - 1 /\ BufSize \in Nat
      /\ Holds(data, n) /\ i \in 0 .. n /\ IsBuffer(data)
  BY <1>3, LengthIs, EditorAssumption DEF OnScreen, Cell, Holds, IsBuffer
<1>5. status = "editing"
  BY <1>1 DEF Key, newline, return, ctrl_c, backspace, escape, character, bracket, letter, tilde,
              Awaiting
<1>6. data[BufSize] = SandboxByte
  BY <1>1, <1>5 DEF Types
<1>7. ASSUME NEW from, NEW to \in Int, to < BufSize
      PROVE  ShiftedLeft(from, to)[BufSize] = SandboxByte
  <2>1. BufSize \in 0 .. BufSize /\ BufSize \notin from .. to
    BY <1>4, <1>7
  <2>2. QED
    BY <1>6, <2>1 DEF ShiftedLeft
<1>8. data'[BufSize] = SandboxByte \/ (status' = "done" /\ Length' = BufSize - 1)
  <2>1. CASE newline
    <3>1. data' = [data EXCEPT ![n] = NUL, ![n + 1] = NUL] /\ status' = "done"
      BY <1>4, <2>1 DEF newline, Returns
    <3>2. CASE n = BufSize - 1
      <4>1. Holds(data', n)
        BY <1>4, <3>1, <3>2, EditorAssumption DEF Holds, Cell
      <4>2. Length' = n
        BY <1>4, <4>1, StrlenIs DEF Length
      <4>3. QED
        BY <3>1, <3>2, <4>2
    <3>3. CASE n # BufSize - 1
      <4>1. BufSize # n /\ BufSize # n + 1 /\ BufSize \in 0 .. BufSize
        BY <1>4, <3>3
      <4>2. data'[BufSize] = data[BufSize]
        BY <1>4, <3>1, <4>1 DEF IsBuffer
      <4>3. QED
        BY <1>6, <4>2
    <3>4. QED
      BY <3>2, <3>3
  <2>2. CASE backspace
    <3>1. CASE data' = data
      BY <1>6, <3>1
    <3>2. CASE i > 0 /\ data' = Backspaced
      <4>1. i - 1 + strlen(data, i) < BufSize /\ i - 1 + strlen(data, i) \in Int
        <5>1. strlen(data, i) = n - i
          BY <1>3, <1>4, StrlenIs
        <5>2. QED
          BY <1>4, <5>1
      <4>2. QED
        BY <1>7, <3>2, <4>1 DEF Backspaced
    <3>3. QED
      BY <2>2, <3>1, <3>2 DEF backspace
  <2>3. CASE \E ch \in EscapeKeys : letter(ch)
    <3>1. CASE data' = data
      BY <1>6, <3>1
    <3>2. CASE data' = Deleted
      <4>1. n - 1 < BufSize /\ n - 1 \in Int
        BY <1>4
      <4>2. QED
        BY <1>4, <1>7, <3>2, <4>1 DEF Deleted
    <3>3. QED
      BY <2>3, <3>1, <3>2 DEF letter
  <2>4. CASE \E ch \in Text : character(ch)
    <3>1. CASE data' = data
      BY <1>6, <3>1
    <3>2. CASE Length < BufSize - 1 /\ \E ch \in Text : data' = Inserted(ch)
      <4>1. BufSize # i /\ BufSize \notin (i + 1) .. Length /\ BufSize \in 0 .. BufSize
        BY <1>4, <3>2
      <4>2. QED
        BY <1>6, <3>2, <4>1 DEF Inserted
    <3>3. QED
      BY <2>4, <3>1, <3>2 DEF character
  <2>5. CASE return \/ ctrl_c \/ escape \/ \E ch \in EscapeKeys : bracket(ch) \/ tilde(ch)
    <3>1. data' = data
      BY <2>5 DEF return, ctrl_c, escape, bracket, tilde
    <3>2. QED
      BY <1>6, <3>1
  <2>6. QED
    BY <1>1, <2>1, <2>2, <2>3, <2>4, <2>5 DEF Key
<1>9. QED
  BY <1>1, <1>2, <1>8 DEF TokenInv, Types

\* The line entered is on the screen, and none of it is taken yet.
LEMMA SubmitKeepsInv ==
    ASSUME TokenInv, Submit
    PROVE  TokenInv'
<1>1. /\ phase = "typing" /\ Types /\ phase' = "scanning" /\ size' = Length
      /\ data' = data /\ term' = term /\ in' = in /\ tokens' = tokens
  BY DEF TokenInv, Submit, Phases, editVars
<1>2. PICK n \in Cell : OnScreen(data, i, n, term)
  BY <1>1 DEF Types, ScreenInv
<1>3. size' = n /\ Holds(data, n) /\ OfText(data, n) /\ term = Picture(data, i, n)
  BY <1>1, <1>2, LengthIs DEF OnScreen
<1>4. n \in Nat /\ BufSize \in Nat /\ n <= BufSize - 1 /\ size' \in Cell
  BY <1>3, EditorAssumption DEF Cell
<1>5. \A k \in 0 .. BufSize : term.row[k] = IF k < n THEN data[k] ELSE Blank
  BY <1>3 DEF Picture
<1>6. \A k \in 0 .. (n - 1) : term.row[k] = data[k] /\ term.row[k] \in Text
  <2>1. \A k \in 0 .. (n - 1) : k \in 0 .. BufSize /\ k < n
    BY <1>4
  <2>2. QED
    BY <1>3, <1>5, <2>1 DEF OfText
<1>7. \A k \in n .. (BufSize - 1) : term.row[k] = Blank /\ data[k] = NUL
  <2>1. \A k \in n .. (BufSize - 1) : k \in 0 .. BufSize /\ ~(k < n)
    BY <1>4
  <2>2. QED
    BY <1>3, <1>5, <2>1 DEF Holds
<1>8. ASSUME n <= BufSize - 2
      PROVE  Scans("scanning", data, 0, <<>>, Line, n)
  <2>1. Shows(Line, n)
    <3>1. \A k \in 1 .. BufSize : Line[k] = term.row[k - 1]
      BY <1>4 DEF Line
    <3>2. ASSUME NEW k \in 1 .. n PROVE Line[k] \in Text
      <4>1. k - 1 \in 0 .. (n - 1) /\ k \in 1 .. BufSize
        BY <1>4
      <4>2. QED
        BY <1>6, <3>1, <4>1
    <3>3. ASSUME NEW k \in (n + 1) .. BufSize PROVE Line[k] = Blank
      <4>1. k - 1 \in n .. (BufSize - 1) /\ k \in 1 .. BufSize
        BY <1>4
      <4>2. QED
        BY <1>7, <3>1, <4>1
    <3>4. IsLine(Line, BufSize)
      <4>1. \A k \in 1 .. BufSize : k \in 1 .. n \/ k \in (n + 1) .. BufSize
        BY <1>4
      <4>2. \A k \in 1 .. BufSize : term.row[k - 1] \in Chars
        BY <3>1, <3>2, <3>3, <4>1 DEF Chars
      <4>3. Line \in Seq(Chars) /\ Len(Line) = BufSize
        BY <1>4, <4>2 DEF Line
      <4>4. QED
        BY <4>3 DEF IsLine
    <3>5. n \in 0 .. (BufSize - 2)
      BY <1>4, <1>8
    <3>6. QED
      BY <3>2, <3>3, <3>4, <3>5 DEF Shows
  <2>2. \A k \in 0 .. (BufSize - 1) : data[k] = AsTyped(Line, n, k)
    <3> SUFFICES ASSUME NEW k \in 0 .. (BufSize - 1) PROVE data[k] = AsTyped(Line, n, k)
      OBVIOUS
    <3>1. CASE k < n
      <4>1. k \in 0 .. (n - 1) /\ k + 1 \in 1 .. BufSize /\ (k + 1) - 1 = k
        BY <1>4, <3>1
      <4>2. Line[k + 1] = term.row[k]
        BY <4>1 DEF Line
      <4>3. QED
        BY <1>6, <3>1, <4>1, <4>2 DEF AsTyped
    <3>2. CASE ~(k < n)
      <4>1. k \in n .. (BufSize - 1)
        BY <1>4, <3>2
      <4>2. QED
        BY <1>7, <3>2, <4>1 DEF AsTyped
    <3>3. QED
      BY <3>1, <3>2
  <2>3. data[BufSize] = SandboxByte /\ IsBuffer(data) /\ 0 \in 0 .. n
    <3>1. Length # BufSize - 1
      BY <1>1, <1>3, <1>4, <1>8
    <3>2. QED
      BY <1>1, <1>3, <1>4, <3>1 DEF Types, Holds, IsBuffer
  <2>4. Ahead(data, 0, Line, n) /\ Left(data, 0, Line) = WordsFrom(Line)[0 + 1]
    BY <2>1, <2>2, <2>3, StartsAt
  <2>5. LineWords(Line) = <<>> \o Left(data, 0, Line)
    <3>1. WordsFrom(Line)[1] \in Seq(Words)
      <4>1. IsLine(Line, BufSize) /\ 1 \in Places(BufSize)
        BY <1>4, <2>1 DEF Shows, Places
      <4>2. QED
        BY <1>4, <4>1, WordsFromIs
    <3>2. LineWords(Line) = WordsFrom(Line)[1] /\ 0 + 1 = 1
      BY DEF LineWords
    <3>3. QED
      BY <2>4, <3>1, <3>2, ConcatEmptySeq
  <2>6. <<>> \in Seq(Words)
    OBVIOUS
  <2>7. QED
    BY <2>4, <2>5, <2>6 DEF Scans
<1>9. Entered'
  <2>1. Line' = Line
    BY <1>1 DEF Line
  <2>2. in' = 0 /\ tokens' = <<>>
    BY <1>1 DEF Types
  <2>3. n <= BufSize - 2 => Scans(phase', data', in', tokens', Line', size')
    BY <1>1, <1>3, <1>8, <2>1, <2>2
  <2>4. QED
    BY <1>1, <1>3, <1>4, <1>6, <1>7, <2>3 DEF Entered, Cell
<1>10. QED
  BY <1>1, <1>9 DEF TokenInv, Phases

\* A new line starts with an empty buffer and an empty screen.
LEMMA NextLineKeepsInv ==
    ASSUME NextLine
    PROVE  TokenInv'
<1>1. BufSize \in Nat /\ 0 \in Cell
  BY EditorAssumption DEF Cell
<1>2. data' = Emptied
  <2>1. data' = [Reloaded EXCEPT ![BufSize] = SandboxByte]
    BY DEF NextLine
  <2>2. \A k \in 0 .. BufSize : k < BufSize <=> k # BufSize
    BY <1>1
  <2>3. [Reloaded EXCEPT ![BufSize] = SandboxByte] = Emptied
    BY <2>2 DEF Reloaded, Emptied
  <2>4. QED
    BY <2>1, <2>3
<1>3. OnScreen(data', i', 0, term')
  <2>1. Holds(data', 0) /\ OfText(data', 0) /\ i' \in 0 .. 0
    <3>1. Holds(Emptied, 0)
      BY EmptiedHolds
    <3>2. OfText(Emptied, 0)
      BY DEF OfText
    <3>3. i' = 0
      BY DEF NextLine
    <3>4. QED
      BY <1>2, <3>1, <3>2, <3>3
  <2>2. term' = Picture(data', 0, 0)
    <3>1. \A x \in 0 .. BufSize : ~(x < 0)
      OBVIOUS
    <3>2. QED
      BY <3>1 DEF NextLine, Picture
  <2>3. QED
    BY <2>1, <2>2 DEF OnScreen, NextLine
<1>4. ScreenInv'
  BY <1>1, <1>3 DEF ScreenInv, Cell
<1>5. data'[BufSize] = SandboxByte
  BY <1>1, <1>2 DEF Emptied
<1>6. QED
  BY <1>4, <1>5 DEF NextLine, TokenInv, Types

\* At the start of the session.
LEMMA InitTokens == InputInit => TokenInv
<1> SUFFICES ASSUME InputInit PROVE TokenInv
  OBVIOUS
<1>1. ScreenInv
  BY InitScreen DEF InputInit
<1>2. data[BufSize] = SandboxByte
  BY EditorAssumption DEF InputInit, Init, Emptied
<1>3. QED
  BY <1>1, <1>2 DEF InputInit, TokenInv, Types

\* Every step keeps the invariant.
LEMMA NextKeepsTokens == TokenInv /\ [InputNext]_tokenVars => TokenInv'
<1> SUFFICES ASSUME TokenInv, [InputNext]_tokenVars PROVE TokenInv'
  OBVIOUS
<1>1. CASE UNCHANGED tokenVars
  <2>1. /\ data' = data /\ i' = i /\ term' = term /\ in' = in /\ phase' = phase
        /\ tokens' = tokens /\ size' = size /\ status' = status
    BY <1>1 DEF tokenVars, editVars
  <2>2. Types' = Types
    BY <2>1 DEF Types, ScreenInv, Length, Cell
  <2>3. Entered' = Entered
    BY <2>1 DEF Entered, Line, Cell
  <2>4. QED
    BY <2>1, <2>2, <2>3 DEF TokenInv
<1>2. CASE Typing
  BY <1>2, TypingKeepsInv
<1>3. CASE Submit
  BY <1>3, SubmitKeepsInv
<1>4. CASE Scan \/ Rejects
  BY <1>4, ScanKeepsInv
<1>5. CASE NextLine
  BY <1>5, NextLineKeepsInv
<1>6. QED
  BY <1>1, <1>2, <1>3, <1>4, <1>5 DEF InputNext, SessionEnd

\* A beginning of a sequence.
LEMMA BeginningIs ==
    ASSUME NEW ts \in Seq(Words), NEW rest \in Seq(Words)
    PROVE  IsPrefix(ts, ts \o rest)
<1> DEFINE m == Len(ts)
           u == ts \o rest
<1>1. /\ m \in Nat /\ Len(rest) \in Nat /\ u \in Seq(Words) /\ Len(u) = m + Len(rest)
      /\ \A k \in 1 .. (m + Len(rest)) : u[k] = IF k <= m THEN ts[k] ELSE rest[k - m]
  BY ConcatProperties
<1>2. \A k \in 1 .. m : u[k] = ts[k] /\ u[k] \in Words
  <2>1. \A k \in 1 .. m : k \in 1 .. (m + Len(rest)) /\ k <= m
    BY <1>1
  <2>2. \A k \in 1 .. m : ts[k] \in Words
    OBVIOUS
  <2>3. QED
    BY <1>1, <2>1, <2>2
<1>3. \A k \in 1 .. m : ts[k] \in Words
  BY <1>2
<1>4. m <= Len(u)
  BY <1>1
<1> HIDE DEF m, u
<1>5. SubSeq(ts, 1, m) = SubSeq(u, 1, m)
  BY <1>1, <1>2
<1>6. QED
  BY <1>4, <1>5 DEF IsPrefix, m, u

-----------------------------------------------------------------------------
(* The theorem. *)

\* The tokens taken from a line are the words that stood on the screen when it
\* was entered, in order, each once and whole, up to one that was rejected.
THEOREM TokensShown == InputSpec => []TokensAreShown
<1>1. TokenInv => TokensAreShown
  <2> SUFFICES ASSUME TokenInv, size <= BufSize - 2
               PROVE  /\ phase = "scanned" => tokens = LineWords(Line)
                      /\ phase = "rejected" => IsPrefix(tokens, LineWords(Line))
    BY DEF TokensAreShown, Line
  <2>1. CASE phase = "typing"
    BY <2>1
  <2>2. CASE phase \in Phases /\ Entered
    <3>1. Scans(phase, data, in, tokens, Line, size)
      BY <2>2, LineIs
    <3>2. phase = "rejected" => IsPrefix(tokens, LineWords(Line))
      BY <3>1, BeginningIs DEF Scans
    <3>3. QED
      BY <3>1, <3>2 DEF Scans
  <2>3. QED
    BY <2>1, <2>2 DEF TokenInv
<1>2. QED
  BY <1>1, InitTokens, NextKeepsTokens, PTL DEF InputSpec
=============================================================================
