------------------------------ MODULE ForthRom ------------------------------
(***************************************************************************)
(* The compiled-in dictionary: the arrays of src/forth/forth_core, linked  *)
(* from the oldest word, POSTPONE, to the newest, ".".                     *)
(*                                                                         *)
(* A header is the flag byte, the name and the link to the older word; the *)
(* model gives each a cell, and the text of the word follows.  The flag    *)
(* cell also holds HeaderMark, as the C cell holds the first letters of    *)
(* the name: neither is ever an opcode.                                    *)
(***************************************************************************)
EXTENDS ForthVM, Sequences

CONSTANTS
    Name,      \* tokens: a function from every spelling in use to a word
    Numeral    \* to_numeric: the value of the spellings that are numbers

Tokens == DOMAIN Name

\* Flags of a header.
COMPILE_ONLY == 1
IMMEDIATE    == 2
TEXT         == 0
VAR          == 4
CONST        == 8
HeaderMark   == 64

\* Addresses of the C functions the words call.
Fn == [postpone |-> 1, literal |-> 2, right_bracket |-> 3, left_bracket |-> 4,
       immediate |-> 5, drop |-> 6, exit |-> 7, recurse |-> 8, cr |-> 9,
       paren |-> 10, execute |-> 11, tick |-> 12, allot |-> 13,
       bracket_tick |-> 14, constant_post |-> 15, constant |-> 16,
       variable |-> 17, words |-> 18, swap |-> 19, invert |-> 20,
       negate |-> 21, dup_if_no_zero |-> 22, abs |-> 23, rshift |-> 24,
       lshift |-> 25, max |-> 26, min |-> 27, equal |-> 28, colon |-> 29,
       semicolon |-> 30, do |-> 31, do_immediate |-> 32, loop |-> 33,
       loop_immediate |-> 34, leave |-> 35, leave_immediate |-> 36,
       unloop |-> 37, unloop_immediate |-> 38, if_immediate |-> 39,
       else_immediate |-> 40, then_immediate |-> 41, dot_quote_post |-> 42,
       dot_quote_immediate |-> 43, dot |-> 44, emit |-> 45, key |-> 46,
       output |-> 47, custom |-> 48]
Functions == {Fn[f] : f \in DOMAIN Fn}

\* The three shapes of a text: a C function, an opcode, a datum.
Calling(f) == <<Op.PUSH, Fn[f], Op.C_EXEC, Op.RET>>
Being(op)  == <<op, Op.RET>>
Datum(v)   == <<v>>

Entry(name, flag, text) == [name |-> name, flags |-> flag, text |-> text]
CO_IM == COMPILE_ONLY + IMMEDIATE

\* The four stretches of the list, oldest first.  ALIGNED and ALIGN, which see
\* bytes, are not in the model.
OldWords == <<
    Entry("POSTPONE", CO_IM, Calling("postpone")),
    Entry("LITERAL", CO_IM, Calling("literal")),
    Entry("]", IMMEDIATE, Calling("right_bracket")),
    Entry("[", CO_IM, Calling("left_bracket")),
    Entry("IMMEDIATE", TEXT, Calling("immediate")),
    Entry("DROP", TEXT, Calling("drop")),
    Entry("EXIT", CO_IM, Calling("exit")),
    Entry("RECURSE", CO_IM, Calling("recurse")),
    Entry("BL", CONST, Datum(32)),
    Entry("CR", TEXT, Calling("cr")),
    Entry("(", IMMEDIATE, Calling("paren")),
    Entry("EXECUTE", TEXT, Calling("execute")),
    Entry("'", IMMEDIATE, Calling("tick")),
    Entry("ALLOT", TEXT, Calling("allot")),
    Entry("[']", CO_IM, Calling("bracket_tick")),
    Entry("CONSTANT", IMMEDIATE, Calling("constant")),
    Entry("VARIABLE", IMMEDIATE, Calling("variable")),
    Entry("@", TEXT, Being(Op.LOAD)),
    Entry("!", TEXT, Being(Op.STR)),
    Entry("WORDS", TEXT, Calling("words")),
    Entry("DUP", TEXT, <<Op.SP, Op.LOAD, Op.PUSH, 1, Op.ADD, Op.LOAD, Op.RET>>),
    Entry("SWAP", TEXT, Calling("swap")),
    Entry("FALSE", CONST, Datum(False))>>

ArithmeticWords == <<
    Entry("INVERT", TEXT, Calling("invert")),
    Entry("NEGATE", TEXT, Calling("negate")),
    Entry("?DUP", TEXT, Calling("dup_if_no_zero")),
    Entry("XOR", TEXT, Being(Op.XOR)),
    Entry("ABS", TEXT, Calling("abs")),
    Entry("MOD", TEXT, Being(Op.MOD)),
    Entry("RSHIFT", TEXT, Calling("rshift")),
    Entry("LSHIFT", TEXT, Calling("lshift")),
    Entry("/", TEXT, Being(Op.DIV)),
    Entry("*", TEXT, Being(Op.MUL)),
    Entry("-", TEXT, Being(Op.SUB)),
    Entry("+", TEXT, Being(Op.ADD))>>

LogicWords == <<
    Entry("MAX", TEXT, Calling("max")),
    Entry("MIN", TEXT, Calling("min")),
    Entry("=", TEXT, Calling("equal")),
    Entry("OR", TEXT, Being(Op.OR)),
    Entry("AND", TEXT, Being(Op.AND)),
    Entry(">", TEXT, Being(Op.GREATER)),
    Entry("<", TEXT, Being(Op.LESS))>>

NewWords == <<
    Entry("TRUE", CONST, Datum(True)),
    Entry(":", IMMEDIATE, Calling("colon")),
    Entry(";", CO_IM, Calling("semicolon")),
    Entry("DO", CO_IM, Calling("do_immediate")),
    Entry("LOOP", CO_IM, Calling("loop_immediate")),
    Entry("LEAVE", CO_IM, Calling("leave_immediate")),
    Entry("UNLOOP", CO_IM, Calling("unloop_immediate")),
    Entry("IF", CO_IM, Calling("if_immediate")),
    Entry("ELSE", CO_IM, Calling("else_immediate")),
    Entry("THEN", CO_IM, Calling("then_immediate")),
    Entry(".\"", IMMEDIATE, Calling("dot_quote_immediate")),
    Entry(".", TEXT, Calling("dot"))>>

RomWords == OldWords \o ArithmeticWords \o LogicWords \o NewWords
RomNames == {RomWords[i].name : i \in 1 .. Len(RomWords)}

\* Word i starts at RomAt(i); ten cells hold the longest, DUP.
RomBase == 100
RomAt(i) == RomBase + 10 * (i - 1)
RomCells(i) ==
    <<HeaderMark + RomWords[i].flags, Name[RomWords[i].name],
      IF i = 1 THEN 0 ELSE RomAt(i - 1)>> \o RomWords[i].text

\* FORTH_LAST_ROM_ADDRESS
LastRom == RomAt(Len(RomWords))

RomImage ==
    [a \in UNION {RomAt(i) .. (RomAt(i) + Len(RomCells(i)) - 1) : i \in 1 .. Len(RomWords)} |->
        LET k == a - RomBase IN RomCells((k \div 10) + 1)[(k % 10) + 1]]
=============================================================================
