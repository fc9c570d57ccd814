----------------------------- MODULE ForthLayout -----------------------------
(***************************************************************************)
(* The dictionary in RAM byte by byte (forth_dict.c, the forth_add_*       *)
(* functions of forth.c, and the words that move HERE): where flags, name, *)
(* link and contents of a word lie, for every alignment of HERE.           *)
(*                                                                         *)
(*     | flags | name, NUL, padding | link cell | value or code ...        *)
(*                                                                         *)
(* HERE holds the address of the last cell in use, and a header starts one *)
(* cell behind it, aligned or not.  Nothing records the length of a name:  *)
(* the link is found behind its NUL.  strncpy copies at most NameCap       *)
(* characters, and puts a NUL behind a shorter name only; the room for the *)
(* name is that of its full length.                                        *)
(*                                                                         *)
(* ForthDict has the same dictionary in cells, with names that all fit.    *)
(* A cell of code is a number here; the numbers mean nothing.              *)
(***************************************************************************)
EXTENDS Integers, Sequences

CONSTANTS
    CELL,      \* sizeof(size_t)
    NameCap,   \* 31, the characters of a name that are kept and compared
    DictBase,  \* FORTH_DICT_OFFSET
    RamEnd,    \* the first address behind the RAM
    Names,     \* the names a user defines, sequences of character codes
    Texts,     \* the texts of ."
    Codes,     \* the cells a user compiles
    Lengths,   \* the arguments of ALLOT
    MaxWords,  \* bounds: on the words a user defines,
    MaxItems,  \* on the cells and texts in one before its last,
    MaxAllots  \* and on the calls of ALLOT

FORTH == <<70, 79, 82, 84, 72>>
HERE  == <<72, 69, 82, 69>>

IMMEDIATE == 2
VAR       == 4
CONST     == 8
TEXT      == 0

\* The least multiple of a cell that is not below a.
Aligned(a) == CELL * ((a + CELL - 1) \div CELL)

\* w without its lowest k bytes, for k up to CELL.
Shifted(w) ==
    LET above[k \in 0 .. CELL] == IF k = 0 THEN w ELSE above[k - 1] \div 256
    IN  above

\* The values of a cell.
FitsCell(w) == w \in Nat /\ Shifted(w)[CELL] = 0

ASSUME CellAssumption == CELL \in Nat \ {0} /\ FitsCell(RamEnd)
ASSUME NameAssumption ==
    /\ NameCap \in Nat /\ NameCap >= Len(FORTH)
    /\ \A n \in Names : /\ n \in Seq(1 .. 255) /\ n \notin {<<>>, FORTH, HERE}
    /\ \A t \in Texts : t \in Seq(1 .. 255)
    /\ \A w \in Codes : FitsCell(w)
    /\ Lengths \subseteq Nat

VARIABLES
    bytes,     \* the RAM from DictBase on
    compiling, \* STATE
    defined,   \* history: the words, oldest first, and what was compiled in them
    allots     \* history: the calls of ALLOT

layoutVars == <<bytes, compiling, defined, allots>>

Ram == DictBase .. (RamEnd - 1)

-----------------------------------------------------------------------------
(* Cells: CELL bytes, the low one first. *)

Cell(b, a) ==
    LET from[k \in 0 .. CELL] == IF k = CELL THEN 0 ELSE b[a + k] + 256 * from[k + 1]
    IN  from[0]

\* The cells ws from a on.
Stored(b, a, ws) ==
    [x \in DOMAIN b |->
        IF x \in a .. (a + CELL * Len(ws) - 1)
        THEN Shifted(ws[1 + ((x - a) \div CELL)])[(x - a) % CELL] % 256
        ELSE b[x]]

\* memcpy of s to a.
Copied(b, a, s) ==
    [x \in DOMAIN b |-> IF x \in a .. (a + Len(s) - 1) THEN s[x - a + 1] ELSE b[x]]

-----------------------------------------------------------------------------
(* forth_dict.c. *)

\* strncpy(a, s, NameCap).
Strncpy(b, a, s) ==
    Copied(b, a, [k \in 1 .. NameCap |-> IF k <= Len(s) THEN s[k] ELSE 0])

LinkPlace(h, name) == Aligned(h + 1 + Len(name) + 1)

forth_dict_add_header(b, h, flags, name, link) ==
    Stored(Strncpy([b EXCEPT ![h] = flags], h + 1, name), LinkPlace(h, name), <<link>>)

\* The name of the header h: a C string.
NameEnd(b, h) == CHOOSE a \in (h + 1) .. RamEnd :
    /\ a = RamEnd \/ b[a] = 0
    /\ \A x \in (h + 1) .. (a - 1) : b[x] # 0

NameAt(b, h) == [k \in 1 .. (NameEnd(b, h) - h - 1) |-> b[h + k]]
LinkAt(b, h) == Aligned(NameEnd(b, h) + 1)
TextAt(b, h) == LinkAt(b, h) + CELL
Link(b, h)   == Cell(b, LinkAt(b, h))

\* All of a name compared.
ComparedFully(name) == name

\* What strncmp(name, ..., NameCap) looks at.
Compared(name) == SubSeq(name, 1, IF Len(name) < NameCap THEN Len(name) ELSE NameCap)

\* The headers the links lead to from the header h on, and 0 behind the last.
Hops(b, h) ==
    LET next == [a \in 0 .. RamEnd |-> IF a = 0 THEN 0 ELSE Link(b, a)]
        hop[n \in 0 .. RamEnd] == IF n = 0 THEN h ELSE next[hop[n - 1]]
    IN  hop

\* The first turn of the loop over the headers where it stops.
FirstTurn(stops) == CHOOSE n \in 0 .. RamEnd :
    stops[n] /\ \A m \in 0 .. (n - 1) : ~stops[m]

\* From the header h: the newest one with the name, or 0.
forth_dict_search(b, h, name) ==
    LET hop == Hops(b, h)
        stops == [n \in 0 .. RamEnd |->
                     hop[n] = 0 \/ Compared(NameAt(b, hop[n])) = Compared(name)]
    IN  hop[FirstTurn(stops)]

Zeros == [a \in Ram |-> 0]
FirstHeader  == DictBase
FirstText    == LinkPlace(FirstHeader, FORTH) + CELL
SecondHeader == FirstText + CELL
SecondText   == LinkPlace(SecondHeader, HERE) + CELL

ASSUME RamAssumption ==
    /\ DictBase \in Nat \ {0} /\ DictBase % CELL = 0
    /\ RamEnd \in Nat /\ SecondText + CELL <= RamEnd

\* The words FORTH and HERE, at fixed places: they are found by their names,
\* which no user takes.
forth_dict_init ==
    LET first == forth_dict_add_header(Zeros, FirstHeader, VAR, FORTH, 0)
        second == forth_dict_add_header(Stored(first, FirstText, <<SecondHeader>>),
                                        SecondHeader, VAR, HERE, FirstHeader)
    IN  Stored(second, SecondText, <<SecondText>>)

Newest(b)   == Cell(b, FirstText)
LastUsed(b) == Cell(b, SecondText)
SetNewest(b, a)   == Stored(b, FirstText, <<a>>)
SetLastUsed(b, a) == Stored(b, SecondText, <<a>>)

-----------------------------------------------------------------------------
(* The words that define. *)

Remembered(name, h, kind) ==
    Append(defined, [name |-> name, at |-> h, kind |-> kind, items |-> <<>>])

\* The link of a longer name may lie where the search does not look for it:
\* such a name hides the words before it, and is not defined here.
FoundAgain(h, name) == LinkPlace(h, name) = LinkPlace(h, Compared(name))

\* strncpy's padding and the cells behind it lie inside the RAM.
RoomFor(h, name) ==
    /\ FoundAgain(h, name)
    /\ h + 1 + NameCap <= RamEnd
    /\ LinkPlace(h, name) + 2 * CELL <= RamEnd
    /\ Len(defined) < MaxWords + 2

\* A header laid over the last cell in use.
HeaderPlaceOver(b) == LastUsed(b)

HeaderPlace(b) == LastUsed(b) + CELL

\* A header one cell behind the last one, and HERE at its link.
AddedHeader(kind, name) ==
    LET h == HeaderPlace(bytes)
    IN  SetLastUsed(SetNewest(forth_dict_add_header(bytes, h, kind, name, Newest(bytes)), h),
                    LinkPlace(h, name))

\* forth_add_variable and forth_add_constant: one more cell, with its value.
AddValue(kind, name, value) ==
    LET h == HeaderPlace(bytes)
        b == AddedHeader(kind, name)
        a == LastUsed(b) + CELL
    IN  /\ ~compiling /\ RoomFor(h, name)
        /\ bytes' = Stored(SetLastUsed(b, a), a, <<value>>)
        /\ defined' = Remembered(name, h, kind)
        /\ UNCHANGED <<compiling, allots>>

\* : and forth_add_definition.
colon_handler(name) ==
    LET h == HeaderPlace(bytes)
    IN  /\ ~compiling /\ RoomFor(h, name)
        /\ bytes' = AddedHeader(TEXT, name)
        /\ compiling' = TRUE
        /\ defined' = Remembered(name, h, TEXT)
        /\ UNCHANGED allots

\* += instead of |=.
WithImmediateAdded(flags) == flags + IMMEDIATE

WithImmediate(flags) ==
    IF (flags \div IMMEDIATE) % 2 = 1 THEN flags ELSE flags + IMMEDIATE

immediate_handler ==
    /\ bytes' = [bytes EXCEPT ![Newest(bytes)] = WithImmediate(@)]
    /\ UNCHANGED <<compiling, defined, allots>>

-----------------------------------------------------------------------------
(* The words that move HERE, and the compiler. *)

\* ALIGNED, on the length of what is to be allotted.
aligned_handler(len) == Aligned(len)

\* ALLOT counts bytes.
allot_handler(n) ==
    /\ ~compiling /\ LastUsed(bytes) + n + CELL <= RamEnd /\ allots < MaxAllots
    /\ bytes' = SetLastUsed(bytes, LastUsed(bytes) + n)
    /\ allots' = allots + 1
    /\ UNCHANGED <<compiling, defined>>

align_handler ==
    /\ ~compiling /\ Aligned(LastUsed(bytes)) + CELL <= RamEnd
    /\ bytes' = SetLastUsed(bytes, Aligned(LastUsed(bytes)))
    /\ UNCHANGED <<compiling, defined, allots>>

Compiled(item) == [defined EXCEPT ![Len(defined)].items = Append(@, item)]

\* *(++*here) = w, and ; which compiles a last cell.
Compiles(w) ==
    LET a == LastUsed(bytes) + CELL
    IN  /\ compiling /\ a + CELL <= RamEnd
        /\ bytes' = SetLastUsed(Stored(bytes, a, <<w>>), a)
        /\ defined' = Compiled(<<w>>)
        /\ UNCHANGED allots

MayCompile   == Len(defined[Len(defined)].items) < MaxItems
Compile(w)   == MayCompile /\ Compiles(w) /\ UNCHANGED compiling
semicolon(w) == Compiles(w) /\ compiling' = FALSE

\* The cells of ." in front of its text: the length, twice, and the distance
\* from the cell that loads pc to the text.
QuoteCode(n) == <<1, n, 1, n, 1, 1, 1, 10 * CELL, 1, 1, 1, 1, 1, 1, 1>>

\* HERE on the cell behind the text's last; on its last byte; on the last cell
\* that the text fills.
QuoteEndPadded(a, n) == Aligned(a + n)
QuoteEndUnaligned(a, n) == a + n - 1
QuoteEndFloor(a, n) == a + CELL * (n \div CELL) - CELL

\* HERE on the cell with the text's last character; an empty text has none.
QuoteEnd(a, n) == (a + n - 1) - ((a + n - 1) % CELL)

\* What forth_dot_quote_post_handler adds to pc, in cells.
QuoteSkip(n) == Aligned(n) \div CELL

dot_quote_immediate_handler(text) ==
    LET n == Len(text)
        code == LastUsed(bytes) + CELL
        a == code + CELL * Len(QuoteCode(n))
    IN  /\ compiling /\ MayCompile /\ Aligned(a + n) + CELL <= RamEnd
        /\ bytes' = SetLastUsed(Copied(Stored(bytes, code, QuoteCode(n)), a, text),
                                QuoteEnd(a, n))
        /\ defined' = Compiled(<<"text", text>>)
        /\ UNCHANGED <<compiling, allots>>

Init ==
    /\ bytes = forth_dict_init /\ compiling = FALSE /\ allots = 0
    /\ defined = <<[name |-> FORTH, at |-> FirstHeader, kind |-> VAR, items |-> <<>>],
                   [name |-> HERE, at |-> SecondHeader, kind |-> VAR, items |-> <<>>]>>

Next ==
    \/ \E name \in Names :
          \/ \E value \in Codes : AddValue(VAR, name, value) \/ AddValue(CONST, name, value)
          \/ colon_handler(name)
    \/ \E w \in Codes : Compile(w) \/ semicolon(w)
    \/ \E text \in Texts : dot_quote_immediate_handler(text)
    \/ \E n \in Lengths : allot_handler(n) \/ allot_handler(aligned_handler(n))
    \/ align_handler \/ immediate_handler

Spec == Init /\ [][Next]_layoutVars

-----------------------------------------------------------------------------
(* Properties. *)

\* Types of the layout's state.  Code is compiled into whole cells: whatever
\* was allotted before the definition, and whatever texts are in it.
LayoutTypeOK ==
    /\ bytes \in [Ram -> 0 .. 255]
    /\ compiling \in BOOLEAN
    /\ LastUsed(bytes) \in SecondText .. (RamEnd - CELL)
    /\ compiling => LastUsed(bytes) % CELL = 0

\* Behind the last cell in use the RAM is zero.  A name of NameCap characters
\* or more ends there: nothing else puts a NUL behind it.
FreshAboveHere == \A a \in (LastUsed(bytes) + CELL) .. (RamEnd - 1) : bytes[a] = 0

\* A search returns the newest word with the name, by the characters that
\* count, or nothing: for the user's words and for the two the system looks up.
SearchFindsNewest ==
    \A name \in Names \cup {FORTH, HERE} :
        LET same == {k \in DOMAIN defined : Compared(defined[k].name) = Compared(name)}
        IN  forth_dict_search(bytes, Newest(bytes), name) =
               IF same = {} THEN 0
               ELSE defined[CHOOSE k \in same : \A l \in same : l <= k].at

\* Control that starts at the code of a word meets exactly what was compiled
\* for it, in order: each text is printed where its code says it is, and the
\* step over it ends at the cell compiled next, for every length of text.
CodeReadsBack ==
    \A k \in DOMAIN defined :
        LET items == defined[k].items
            at[j \in 1 .. (Len(items) + 1)] ==
                IF j = 1 THEN TextAt(bytes, defined[k].at)
                ELSE LET a == at[j - 1] IN
                     IF Len(items[j - 1]) = 1 THEN a + CELL
                     ELSE a + CELL * (15 + QuoteSkip(Cell(bytes, a + 3 * CELL)))
        IN  \A j \in 1 .. Len(items) :
               IF Len(items[j]) = 1 THEN Cell(bytes, at[j]) = items[j][1]
               ELSE LET n == Cell(bytes, at[j] + CELL)
                        text == at[j] + 5 * CELL + Cell(bytes, at[j] + 7 * CELL)
                    IN  items[j][2] = [x \in 1 .. n |-> bytes[text + x - 1]]

\* A step writes behind the last cell in use only, apart from FORTH, HERE and
\* the flags of the newest word: no header, with strncpy's padding, and no text
\* reaches back into an older word or into memory that was allotted.
WritesBehindHere ==
    [][\A a \in DictBase .. (LastUsed(bytes) + CELL - 1) :
          \/ bytes'[a] = bytes[a]
          \/ a \in FirstText .. (FirstText + CELL - 1)
          \/ a \in SecondText .. (SecondText + CELL - 1)
          \/ a = Newest(bytes)]_layoutVars

\* The words as the links lead through them.
ListedWords(b) ==
    LET hop == Hops(b, Newest(b))
        atEnd == [n \in 0 .. RamEnd |-> hop[n] = 0]
        word == [a \in Ram |-> [name |-> Compared(NameAt(b, a)),
                                kind |-> 4 * (b[a] \div 4),
                                immediate |-> (b[a] \div IMMEDIATE) % 2 = 1]]
    IN  [k \in 1 .. FirstTurn(atEnd) |-> word[hop[k - 1]]]

\* Through its bytes the dictionary is a list of words that grows at its head.
Listed == INSTANCE ForthWordList WITH
    words <- ListedWords(bytes),
    Spelled <- {Compared(name) : name \in Names},
    Kinds <- {VAR, CONST, TEXT},
    Initial <- ListedWords(forth_dict_init)

ListsWords == Listed!Spec
=============================================================================
