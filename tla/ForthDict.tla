------------------------------ MODULE ForthDict ------------------------------
(***************************************************************************)
(* The dictionary in RAM (forth_dict.c and the forth_add_* functions of    *)
(* forth.c), the input buffer, and what every C function that a word calls *)
(* has in common.                                                          *)
(*                                                                         *)
(* RAM holds the sandbox, where a line is compiled before it is run, and   *)
(* behind it the dictionary, which HERE, the address of its last used      *)
(* cell, extends.  The input buffer is a sequence of tokens and >IN counts *)
(* the tokens read; a string literal is one token and occupies one cell.   *)
(*                                                                         *)
(* The words forth_init and forth_interpreter_init define are found by     *)
(* name in C.  Here they have fixed addresses: no session redefines one of *)
(* them, and DictionaryIntact (ForthShellProperties) says that their       *)
(* headers stay where they are in the list.                                *)
(*                                                                         *)
(* A C function runs inside C_EXEC: vm->sp has dropped the function's      *)
(* address (Top), vm->pc is the C_EXEC cell, and the loop adds one to it   *)
(* afterwards.  Cells below vm->sp are dead; what passes through them on   *)
(* its way to the terminal is not recorded.                                *)
(***************************************************************************)
EXTENDS ForthRom

CONSTANTS
    SandboxBase, SandboxSize, \* the sandbox, in cells
    DictBase,                 \* FORTH_DICT_OFFSET
    StrbufSize,               \* FORTH_STRBUF_SIZE, in tokens
    StrbufBase,               \* address of the input buffer
    Texts,                    \* tokens that end with the quote of ." ..."
    Keys                      \* what the terminal may send to KEY

\* What the cells behind the buffer look like to the tokenizer: their first
\* byte is an opcode, a control character that spells no word.
SandboxBytes == "(sandbox bytes)"
NoToken == "(no token)"

ASSUME DictAssumption ==
    /\ SandboxBase \in Nat \ {0} /\ SandboxSize \in Nat
    /\ DictBase = SandboxBase + SandboxSize
    /\ StrbufSize \in Nat /\ StrbufBase \in Nat /\ StrbufBase + StrbufSize < Modulus
    /\ Texts \subseteq Tokens /\ Keys \subseteq Word
    /\ SandboxBytes \in Tokens \ (RomNames \cup DOMAIN Numeral)

\* A word has whole bytes; a spelling is a word in a name field.
ASSUME WordAssumption ==
    /\ Modulus % 256 = 0
    /\ Name \in [Tokens -> Word]
    /\ \A token \in DOMAIN Numeral : Numeral[token] \in Int

VARIABLES
    strbuf,    \* the tokens in the input buffer
    screen,    \* what has been printed since process was entered
    brackets   \* the calls of ] whose nested vm_start has not returned

wordVars == <<strbuf, screen, brackets>>
WordsUnchanged == UNCHANGED wordVars

-----------------------------------------------------------------------------
(* The system's own words, as forth_init and forth_interpreter_init lay     *)
(* them out.                                                                *)

forth_ptr   == DictBase + 3     \* the newest header
here_ptr    == DictBase + 7     \* the last used cell
in_ptr      == DictBase + 11    \* >IN
state_ptr   == DictBase + 15
sandbox_ptr == DictBase + 19    \* the last cell compiled into the sandbox
base_ptr    == DictBase + 23
i_var       == DictBase + 27
j_var       == DictBase + 31
emit_text   == DictBase + 35    \* the texts of the three custom functions
key_text    == DictBase + 42
output_text == DictBase + 49
LastSystemCell == DictBase + 52

SystemWords == <<
    Entry("FORTH", VAR, <<DictBase + 46>>),
    Entry("HERE", VAR, <<LastSystemCell>>),
    Entry(">IN", VAR, <<0>>),
    Entry("STATE", VAR, <<False>>),
    Entry("SANDBOX", VAR, <<SandboxBase - 1>>),
    Entry("BASE", VAR, <<10>>),
    Entry("I", CONST, <<True>>),
    Entry("J", CONST, <<True>>),
    Entry("EMIT", TEXT, Calling("emit")),
    Entry("KEY", TEXT, Calling("key")),
    Entry("OUTPUT", TEXT, Calling("output"))>>

SystemAt(i) == IF i <= 9 THEN DictBase + 4 * (i - 1) ELSE DictBase + 32 + 7 * (i - 9)
SystemCells(i) ==
    <<HeaderMark + SystemWords[i].flags, Name[SystemWords[i].name],
      IF i = 1 THEN LastRom ELSE SystemAt(i - 1)>> \o SystemWords[i].text

\* They are in the RAM, one array, and lead to the compiled-in words outside.
ASSUME SystemAssumption ==
    /\ \E last \in Word : Ram = SandboxBase .. last
    /\ DictBase .. LastSystemCell \subseteq Ram
    /\ \A i \in 1 .. Len(SystemWords) : SystemWords[i].name \in Tokens
    /\ {LastRom, LastRom + 1, LastRom + 2} \subseteq DOMAIN Rom /\ LastRom \in Word
    /\ Rom[LastRom] \in HeaderMark .. (HeaderMark + 15)

\* The RAM once the shell has been set up: the rest of it is zero.
RamImage ==
    [a \in Ram |->
        IF a \notin DictBase .. LastSystemCell THEN 0
        ELSE LET i == CHOOSE k \in 1 .. Len(SystemWords) :
                        a \in SystemAt(k) .. (SystemAt(k) + Len(SystemCells(k)) - 1)
             IN  SystemCells(i)[a - SystemAt(i) + 1]]

-----------------------------------------------------------------------------
(* Headers and the search of the dictionary. *)

HasFlag(h, flag) == (Load(h) \div flag) % 2 = 1
NameField(h) == Load(h + 1)
LinkField(h) == Load(h + 2)
TextPtr(h)   == (h + 3) % Modulus

IsHeader(a) == /\ {a, a + 1, a + 2} \subseteq DOMAIN mem
               /\ Load(a) \in HeaderMark .. (HeaderMark + 15)

\* A walk over links that a program has led away from the headers, or in a
\* circle: what it finds, and whether it ends, is undefined.
Lost == -1

\* Along the links from a, and over at most as many headers as there are
\* addresses: the first header with one of the names, or 0 behind the oldest.
Walked(names) ==
    LET walk[n \in 0 .. Modulus] ==
            [a \in Word |-> IF a = 0 THEN 0
                            ELSE IF n = 0 \/ ~IsHeader(a) THEN Lost
                            ELSE IF NameField(a) \in names THEN a
                            ELSE walk[n - 1][LinkField(a)]]
    IN  walk[Modulus]

\* forth_dict_search from the header h: the newest header with the name, or 0.
forth_dict_search(h, token) == Walked({Name[token]})[h]

forth_search(token) == forth_dict_search(mem[forth_ptr], token)

\* The headers from h down to the oldest word, newest first, as far as a walk goes.
Chain(h) ==
    LET from[n \in 0 .. Modulus] ==
            [a \in Word |-> IF a = 0 \/ n = 0 THEN <<>>
                            ELSE <<a>> \o from[n - 1][LinkField(a)]]
    IN  from[Modulus][h]

-----------------------------------------------------------------------------
(* Compiling: *(++*copy_ptr) = w, for each w of ws. *)

Fits(m, p, n) == m[p] + 1 .. m[p] + n \subseteq Ram \ {p}

Appended(m, p, ws) ==
    [a \in DOMAIN m |-> IF a = p THEN m[p] + Len(ws)
                        ELSE IF a \in m[p] + 1 .. m[p] + Len(ws) THEN ws[a - m[p]]
                        ELSE m[a]]

\* A header linked to itself.
AddedUnlinked(m, flag, token, ws) ==
    [Appended(m, here_ptr, <<HeaderMark + flag, Name[token], m[here_ptr] + 1>> \o ws)
        EXCEPT ![forth_ptr] = m[here_ptr] + 1]

\* A header laid over the last cell in use.
AddedOverLast(m, flag, token, ws) ==
    [Appended([m EXCEPT ![here_ptr] = @ - 1], here_ptr,
              <<HeaderMark + flag, Name[token], m[forth_ptr]>> \o ws)
        EXCEPT ![forth_ptr] = m[here_ptr]]

\* forth_add_definition, _variable, _constant: a header and the cells behind it.
Added(m, flag, token, ws) ==
    [Appended(m, here_ptr, <<HeaderMark + flag, Name[token], m[forth_ptr]>> \o ws)
        EXCEPT ![forth_ptr] = m[here_ptr] + 1]

\* Where ', ['] and CONSTANT compile to, and where ." does.
CopyPtr     == IF mem[state_ptr] = True THEN here_ptr ELSE sandbox_ptr
TextCopyPtr == IF mem[state_ptr] = False THEN sandbox_ptr ELSE here_ptr

-----------------------------------------------------------------------------
(* The input buffer. *)

\* forth_get_token, and the memory with >IN behind the token.
Token == IF mem[in_ptr] >= StrbufSize THEN SandboxBytes
         ELSE IF mem[in_ptr] < Len(strbuf) THEN strbuf[mem[in_ptr] + 1]
         ELSE NoToken
TokenRead == IF Token = NoToken THEN mem ELSE [mem EXCEPT ![in_ptr] = (@ + 1) % Modulus]

-----------------------------------------------------------------------------
(* A C function called by C_EXEC. *)

Calls(f) == NativeCall(Fn[f])
Top      == sp + 1
Arg(i)   == mem[Top + i]
Has(n)   == Top <= StackTop - n
RHas(n)  == rsp <= RStackTop - n
RRoom(n) == rsp - n >= RStackLo /\ rsp <= RStackTop

\* It returns, having left memory as m and the data stack pointer as s.
Returns(m, s) == mem' = m /\ sp' = s /\ UNCHANGED rsp /\ Goto(pc + 1)

\* It raises e, leaving memory as m and the data stack pointer as s.
Raises(e, m, s) ==
    /\ flags' = flags \cup {e}
    /\ mem' = m /\ sp' = s /\ pc' = (pc + 1) % Modulus
    /\ UNCHANGED <<rsp, status, code>>

Short(n) == ~Has(n) /\ Raises("STACK_UNDERFLOW", mem, Top)

\* It compiles ws at the pointer p of memory m and returns.
Compiles(m, p, ws, s) ==
    \/ Fits(m, p, Len(ws)) /\ Returns(Appended(m, p, ws), s)
    \/ ~Fits(m, p, Len(ws)) /\ Undefined

\* It replaces the argument, or the two arguments, by v.
Unary(f, v) == Calls(f) /\ (Short(1) \/ (Has(1) /\ Returns([mem EXCEPT ![Top] = v], Top)))
Pair(f, v)  == Calls(f) /\ (Short(2) \/ (Has(2) /\ Returns([mem EXCEPT ![Top + 1] = v], Top + 1)))
=============================================================================
