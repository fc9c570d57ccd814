# A verification of forth_shell

forth_shell is a Forth-like shell for microcontrollers: a small virtual machine
(`src/src/vm`), a dictionary and a compiler for lines of Forth (`src/src/forth`),
and an example program around them (`src/examples/interpreter`).  This directory
models it in TLA+, checks the model on small instances with TLC and proves with
TLAPS, for all instances, the safety properties of the virtual machine, of the line
editor, of the tokenizer behind it, of numbers read and printed, and of the dictionary
in bytes; of the shell that its values keep their types and each line finds a clean
machine; and, for programs that leave finished words alone, that the shell's
dictionary is never broken and only grows, and that the shell keeps up its end of the
session, stack and screen included.

## 1. The system

Everything runs on one thread.  What makes the program hard is not concurrency
but reuse and self-modification: one sandbox for every line, one data stack for
the user's numbers, the compiler's holes and the shell's own output, one virtual
machine entered from the loop, from the compiler and (by `]`) from inside itself,
and a dictionary that is extended at the place where code is being compiled.

| Component | State | Operations | Interacts with |
|---|---|---|---|
| Virtual machine, `vm.c` | cells of memory, `sp`, `rsp`, `pc`, exception flags | 27 opcode handlers, `vm_init`, `vm_start` | calls C functions through `C_EXEC`; is called by its host |
| Compiled-in dictionary, `forth_core/*.c` | none (read-only arrays) | – | executed by the machine, searched by the compiler |
| Dictionary in RAM, `forth_dict.c`, `forth.c` | headers, `FORTH`, `HERE`, the control variables `>IN STATE SANDBOX BASE I J` | set-up, search, `forth_add_*` | written by defining words, searched for every token |
| Words, `forth_core/*.c` | – | 44 C functions: arithmetic, compiling and defining words, control structures, output | called by the machine; write dictionary, sandbox, both stacks, `pc`; `]` starts the machine again |
| Outer interpreter, `forth.c` | – | `forth_compile`, `forth_start_compiling`, `forth_vm_reload` | compiles tokens into sandbox or dictionary; runs immediate words |
| Interpreter loop, `forth_inter.c`, `main.c` | input buffer | prompt, read, compile, run, report | prints by compiling and running lines of Forth |
| Line editor, `get_string` | the buffer while it is typed | keys, cursor, deletion, echo | `KEY` and `EMIT`, through the data stack |
| Tokenizer, `forth_inter_token`, `to_numeric` | `>IN` | cut the next token, read a number | the input buffer |
| Terminal, `main.c` | – | `EMIT`, `KEY` | the words |

What must be right in each:

* machine: both stacks keep their discipline, an exception stops the run at once
  and leaves its operands, and no run sees anything of the one before it;
* dictionary: the list of words is never broken and only grows, finished
  definitions are final;
* compiler and control structures: a definition does what its text says;
* loop: a line executes only what was compiled for it, leaves the return stack as
  it found it, is answered correctly and never ends the session; prompts and
  reports cost the user nothing;
* line editor: the buffer is the line the keys describe, and the screen shows it;
* tokenizer: what is compiled is what stands on the screen, and a number is the
  number that was written.

The hazards behind these, each at its line, are in PROJECT.json.

## 2. The modules

    ForthVM <- ForthVMHost <- MCForthVM, MCForthVMTests, ForthVMProofs
       ^
       |    ForthVM <- ForthVMSteps <- ForthVMProofs, ForthShellProofs
       |
    ForthRom <- ForthDict <- ForthWords <- ForthShell <- ForthShellProperties
                                                             ^          ^
                 MCForth  <-  MCForthSession, MCForthStructures,   ForthShellInvariants
                              MCForthHiding,                        ^
                              MCForthTranscripts, MCForthTestClaims     ^
                                                                   ForthShellProofs

    LineEditor <- MCLineEditor, LineEditorProofs
       ^                              ^
    ForthTokens <- MCForthTokens, ForthTokensProofs

    ForthLayout <- MCForthLayout, ForthLayoutProofs

    ForthNumbers <- MCForthNumbers, ForthNumbersProofs

    Iteration <- LineEditorProofs, ForthLayoutProofs, ForthNumbersProofs, ForthShellProofs

Abstract specifications, and what implements them:

| Abstract | Promise | Implemented by |
|---|---|---|
| EditedLine | two strings around a cursor | LineEditor (`EditsLine`): checked and proved |
| ForthWordList | a list of words that grows at its head | ForthShell's memory in cells (`ListsWords`): checked, and proved for tame programs; ForthLayout's in bytes (`ListsWords`): checked and proved |
| ForthSession | greet; prompt, wait, work, answer; the stack is the user's | ForthShell (`ServesSession`): checked, and proved for tame programs that leave `."` alone |

**ForthVM** is `vm.c`: one action per handler, each with its test, its effect and
its cases of undefined behaviour; `vm_start` (entry), `Executing` (the loop's
test and fetch), `Leave` (the loop's exit).  The program is data in `mem`, as in
C.  **ForthVMHost** puts a host around it: load, push arguments, start, perhaps
clear the flags, start again.

**ForthRom** is the compiled-in dictionary, **ForthDict** the one in RAM, the
input buffer and what C functions have in common, **ForthWords** the C functions,
one action each.  **ForthShell** is `forth_compile` (an action per outcome of a
token), `forth_start_compiling`, `forth_vm_reload`, `forth_interpreter_process`
and `main`'s loop.  The C call stack is the pair `job` (which line: banner,
prompt, the user's, report) and `at` (where in its processing), and `brackets`
for the nested runs of `]`.  **ForthShellProperties** states what the shell
promises, and maps its state to a list of words and to a session;
**ForthShellInvariants** holds the inductive invariants behind the proofs.

**LineEditor** is `get_string`: one action per case of its switch, with `expect`
for the three further calls of `KEY` inside an escape sequence.  The array is the
state, as in C; every action computes its lengths with `strlen`.  The echo goes to
a terminal of a row and a column.  **ForthTokens** puts `forth_get_token`, `(` and
`."` behind the editor, on the same array of characters, and around both the
loop that empties the buffer and starts again; of the compiler it keeps the byte it
writes at the start of the sandbox and that it may refuse a token.

**ForthLayout** is `forth_dict.c` and the `forth_add_*` functions in bytes, with the
words that move HERE: names of any length and `strncpy`'s limit and padding,
links found behind a name's NUL, `align_for`, ALLOT by bytes, ALIGN, ALIGNED, and
the text laid behind the code of `."`.  **ForthNumbers** is `to_numeric`, the number
branch of `forth_compile`, and `.`.

### Abstractions

* **Cells.**  In the shell's modules the unit of addresses is a cell; `ALLOT` counts
  cells.  A header is three cells: flags (with a mark, as in C the cell also holds
  letters), name, link.  A text after `."` is one cell.  ForthLayout has the bytes,
  and shares with the cells the specification both implement, ForthWordList.
* **Tokens.**  In the shell's modules the input buffer is a sequence of tokens and
  `>IN` counts them; the text after `."` is a token of its own.  `Numeral` says which
  tokens are numbers.  ForthTokens justifies this (the tokens are the words of the
  line), ForthNumbers the numbers.
  Behind the buffer's end the tokenizer reads the sandbox, whose first byte is an
  opcode: `SandboxBytes`, a token no word has.
* **System words at fixed addresses.**  C finds `STATE`, `HERE`, ... by name at
  every use; no session redefines them, and `DictionaryIntact` says their
  headers stay in their places.
* **Whole lines.**  In the shell's modules `get_string` delivers a line or control-C.
* **Word width.**  `size_t` has `Modulus` values and `int` has `IntModulus`: where the
  code casts (comparisons, DO, MAX, MIN, ABS, CONSTANT, the length of OUTPUT) the
  model takes the low part with its sign (`AsInt`).  In every instance an int is
  one bit narrower than a word, enough for the two to differ.
* **The buffer's end.**  `get_string` ignores its limit.  A text that would fill the
  buffer to its last cell, and a `."` without its quote, set the status "overrun",
  after which LineEditor and ForthTokens claim nothing.
* **Code in ForthLayout** is numbers without meaning: what matters there is where
  they lie.  `FORTH` and `HERE` are at fixed places, as no name hides them.  Not
  taken: names so long that their link lies where no search looks (`FoundAgain`),
  and headers or ALLOT inside an open definition.
* **Undefined behaviour** (access outside memory, a call of something that is not
  a function, a full stack, a shift by the word's width, a null name) sets the
  status "undefined", where the model stops and claims nothing more.
* **Addresses wrap** at `Modulus`, as `size_t` does.  A search walks the links for at most
  `Modulus` steps (`Walked`); one that a program has led into a circle or out of memory
  (`Lost`) is undefined too.
* Cells below `sp` are dead: what C functions move through them to the terminal is
  not recorded; `screen` records what reaches it, line breaks left out.
* The trace callback is left out.

## 3. What is checked

| Run | Instance | Distinct states | Properties |
|---|---|---|---|
| vm_programs | all programs of two cells over all 31 opcode numbers and 4 operands, then RET; data stack of 3, return stack of 2 cells; 2 starts, 3 argument values | 712,703 | `TypeOK` `CleanRStack` `FaultKeepsOperands` `FaultEndsRun` `SwapExchanges` |
| vm_tests | the programs of `tests/vm_test.cpp` | 254 | `TestsPass` `RunsEnd` |
| shell_sessions | every pair of 15 lines, and 11 longer sessions | 15,410 | `ShellTypeOK` `DictionaryIntact` `RunsOnlyItsLine` `ReturnStackBalanced` `StartsFresh` `CodeFrozen` `DictionaryGrows` `SessionsAreTame` `ListsWords` `ServesSession` |
| shell_hiding | every three of 15 lines, 8 of which define a `."` or a way to it, and a longer session | 59,898 | `AnswersOrLeaves` |
| shell_structures | 69 definitions generated as trees of IF, ELSE, DO, LOOP, LEAVE, UNLOOP EXIT, I, J and a call | 15,699 | `CompiledMeaning` `LineEnds` |
| shell_transcripts | 44 sessions of the README, the tests, and at least one for every word, report and cast | 5,104 | `TranscriptsMatch` |
| line_editor | all key sequences on a buffer of 6 characters | 25,457 | `EditorTypeOK` `CleanTail` `ScreenShowsLine` `EditsLine` |
| line_tokens | all successions of lines in a buffer of 7 characters, escapes mistyped among the keys | 548,490 | `TokensAreShown` |
| dictionary_layout | 2 user words with names of 1, 7, 8 and 10 characters where 7 count, 2 items in each, one ALLOT, any ALIGN, in 132 bytes | 53,486 | `LayoutTypeOK` `FreshAboveHere` `SearchFindsNewest` `CodeReadsBack` `WritesBehindHere` `ListsWords` |
| numbers | all tokens of 3 characters; cells of 6 bits, ints of 5 | 53,704 | `ReadsNumerals` `ReadsBackPrinted` |
| shell_looptest | `forth_loop_test` | – | `LoopTestPops` is violated |
| shell_sandboxtest | `forth_compile_test` | – | `SandboxTestStoresRet` is violated |

**What the refinements say.**  `ServesSession`: the shell greets, prompts, waits,
works and answers in turn; banner, prompts and reports (programs on the user's own
stack) print their text once and whole and leave the stack alone; inside a
definition there is no prompt and an answer is swallowed; nothing but work touches
the stack, and no line ends the session, unless a program overwrites STATE.  (It is said
of sessions that leave `."` alone; for the others there is `AnswersOrLeaves`: an answer is
seen once and whole, or it ends the session because it could not be compiled.)
`ListsWords`: no step loses, renames or retypes a word, or makes any but the newest
immediate, in cells and in bytes.  `EditsLine`: the copying loops over the
NUL-terminated array do to the two strings around the cursor what the key means,
with the exception the abstract line states: typing before the end of the line turns
the text behind the cursor into copies of its first character.  That is what the
code does; no document of the repository speaks of editing inside a line.

**Why the bounds are enough.**  *vm_programs*: every handler is reached with an empty, a
short, a sufficient and a full data stack and return stack, in both positions of the
program and in a second run after every way the first can end; a third cell or start
meets no new situation of a single handler.  *shell_sessions*: the fifteen lines contain
every reply of the shell, a definition left open, one that fails while it is compiled
(so that the error stays set), each kind of defining word, a comment without end and
compile-only words outside a definition; every pair puts each of them before and after
each other one.  The longer sessions write through stack addresses, overwrite STATE,
leave a loop by EXIT and fail inside a loop, put a VARIABLE into an open definition, and
run UNLOOP outside a loop, which takes `rsp` past the top of its stack: C does not look
(forth_core.c:996), the next RET ends the run, and Leave puts `rsp` back, so that
`ShellTypeOK` bounds `rsp` from below only.  *shell_structures*: zero, one and several
turns, leaving in the first, a middle and no turn, at either level, a loop after, around
and inside a branch, loops entered through another word, and three loops deep with I and
J read in the innermost (further out the two cells that hold them no longer can).
*shell_hiding*: the user's `."` is code, a variable, a constant, immediate or left open,
defined before and after any line that is answered and any that opens or closes a
definition; one immediate `."` still reaches the compiled-in word, in either mode, so
that there are hidden words that answer and hidden words that do not.  The memory of
these four runs, 60 cells of sandbox, 200 of dictionary and stacks of 20, is never
exhausted by their sessions; `MaxStarts` and the finite set `Sessions` are the only
other bounds.  *line_editor*: every handler at the start, in the middle and at the end
of texts from none to the longest; two characters tell a moved text from one left
standing.  *line_tokens*: six characters hold two words, a comment with something behind
it, an empty text, their unclosed forms, and leave one, two or more NULs at the end;
lines follow each other without a bound.  An escape followed by two wrong keys may come
anywhere in a line: it sets `get_string`'s error, with which the line must be taken all
the same (a line lost for it would be a deadlock). *dictionary_layout*: names below, at
and above the limit, two of which differ behind it only; texts that are empty, fill a
cell and begin another; HERE off its alignment by three; the run stops where the RAM is
full, which is why it does not check for deadlock.  *numbers*: three characters reach
past both the int and the cell.

Control-C may come instead of any line.  Where a program, or the set of sessions,
has come to its end the model stutters (`Stopped`, `Over`), so that deadlock
checking stays on everywhere else.

**Fairness.**  The machine's loop and the shell run on the only thread, with
nothing that could keep them from running: `WF(Machine)` and `WF(Running)`.
Waiting for a line is exempt (`LineEnds`): a user owes the shell nothing.  `RunsEnd`
and `LineEnds` are claims about the programs of their instances, none of which is
written to loop forever; what they exclude is that wrong jumps, returns or loop
bookkeeping make them do so, or lead them into undefined behaviour.

**Two findings** about the tests, both places where a test says something the code
does not do and cannot fail: see PROJECT.json and `MCForthTestClaims`.

**What sessions do not contain**, because the code defines no behaviour for it:
redefinitions of system words other than `."` (which only *shell_hiding* has), control
words out of balance over numbers of the user, a run of a word with a header inside it,
defining words without a name, negative `ALLOT`, text without its closing quote, I and J
read behind a third loop, lines longer than the sandbox.  (`SessionsAreTame` checks what
of this the theorems about the dictionary rest on.)  Several of these are hazards listed
with a note.

## 4. What is proved

### The machine

`ForthVMProofs` proves five theorems about `Spec` of ForthVMHost, for every word
size, memory layout, program, set of C functions and host, from the assumptions
named in ForthVM and ForthVMHost (disjoint regions, addresses below the
modulus, and that exclusive or is its own inverse):

* `TypeCorrect`: `TypeOK`, including both stack pointers' bounds;
* `RStackCleanBetweenRuns`: `CleanRStack`;
* `FaultsEndRuns`, `FaultsKeepOperands`, `SwapIsExchange`: the three action properties.

`TypeOK` is inductive as it stands once the underflow guards are seen to bound `sp` and
`rsp`: a push needs `~Full`, a pop `Holds`, and the host's push the same; the proof has
a lemma per group of handlers, which rest on lemmas about `Push`, `Raise`, `Goto`,
`Binary`, `Dividing` and `Load`.  Those that hold whatever runs around the machine stand
in `ForthVMSteps`, which the proofs about the shell use too; they ask nothing of the top
of the return stack, which a C function of the shell may pass.  `CleanRStack` needs no
strengthening: only `Leave` makes the machine idle while it is running, and nothing
moves `rsp` while it is idle.  The action properties are proved for a single step, by
cases on the step: for `FaultKeepsOperands` on which disjunct of which handler raises;
for `SwapExchanges` under `TypeOK`, which makes the two cells words, from the order of
the three exclusive ors and `XorAssumption`; for `FaultEndsRun` from the test of the
flags that every instruction makes.

### The line editor

`LineEditorProofs` proves four theorems about `Spec` of LineEditor, for every size
of the buffer, alphabet, set of control keys and sequence of keys, from
`EditorAssumption` (NUL is no text, and neither a character nor a blank is one of
the terminal's control codes):

* `EditorTyped`: `EditorTypeOK`; `TailIsClean`: `CleanTail`;
* `ScreenIsLine`: `ScreenShowsLine`, that the terminal shows the text of the buffer
  and nothing else, with its cursor at the editor's;
* `EditorImplementsLine`: `EditsLine`, that is, LineEditor implements EditedLine.

The inductive invariant `Inv` names what the code never stores, the length n of the
text: n cells without a NUL, then NULs only, and a cursor in 0 .. n.  Neither
`EditorTypeOK` nor `CleanTail` is inductive alone: that a handler's strlen finds
the end needs the clean tail, and that the tail stays clean needs the cursor inside
the text.  `StrlenIs` turns every strlen into n; `ShiftShortens` and
`InsertLengthens` say what the two kinds of copying loop make of a text.

`ScreenInv` adds two things: that the terminal is the `Picture` of the buffer, and
that the text holds nothing but text, since a control code in it would steer the
terminal when the characters behind the cursor are echoed again.  The echo is a
string folded over the terminal; `WentOver` says what is left of a string that goes
some columns back, prints and goes back again (`GoesOver`), by exhibiting the
terminals in between, and one lemma per key says that its echo is such a string.

For the refinement the strings of EditedLine are `First(data, i)` and `Rest(data, i, n)`;
four lemmas say what Append, Front, Tail and prefixing make of them, one lemma per
key that a step of the editor is the step of the line, and `QuietKeyRefines` that
all other keys are stuttering or the closing of the line.

### The tokens

`ForthTokensProofs` proves `TokensShown`: `TokensAreShown` for `InputSpec`, that is,
for every buffer, alphabet, sequence of keys and succession of lines, from
`EditorAssumption` and `TokenAssumption` (the characters `(` `)` `.` `"` are text, the
blank and NUL are none of them, and the byte in front of the sandbox is neither text
nor blank nor NUL).

While a line is typed `TokenInv` is the editor's `ScreenInv` and that the sandbox's
byte is in its place; entering the line turns "the screen shows the buffer" into a
fact about the screen alone, which then stands still while the scanner writes into
the buffer.  From there on the words of the line on the screen, `LineWords(Line)`,
are a constant, and the invariant says that they are the tokens taken so far
followed by the words from the scanner's place on (`WordsFrom(Line)[p]`); that what
the scanner has not reached is as it was typed; and that at its place there is what
was typed or the NUL with which the last token was cut.  This last distinction is
what makes the invariant subtle: the scanner cannot tell its own NUL from the
end of the line, which is why a line that leaves only one cell of the buffer is
excepted.  `WordsFromIs` shows that the recursive definition of the words has the
value its equations say, `SkipIs`, `EndIs` and `TokenIs` what the scanner's three loops
find, and one lemma for each of `(` and `."` that its handler stops where the
definition of the words does.

### The dictionary in bytes

`ForthLayoutProofs` proves that every property the run checks holds of `Spec` of
ForthLayout for every size of a cell, limit of names, RAM and set of names, texts, codes
and lengths.  Assumed are `CellAssumption` (an address fits a cell), `NameAssumption`
(the limit does not cut the name FORTH; names and texts are strings without NUL; a user
does not redefine FORTH and HERE; codes fit a cell) and `RamAssumption` (the dictionary
starts aligned and has room for its first two words).

* `LayoutInOrder`: the invariant `LayoutInv`.  The words lie in order, each header whole
  and with a link to the one before it, FORTH holds the newest, HERE the last cell in
  use, RAM behind it is zero, and HERE is aligned while a definition is open.
* `LayoutTyped`, `FreshAbove`, `WritesBehind`: `LayoutTypeOK`, `FreshAboveHere` and the
  action property `WritesBehindHere`.
* `SearchNewest`: `SearchFindsNewest`.
* `CodeStaysReadable`: `CodeReadsBack`.
* `LayoutListsWords`: `ListsWords`, that the bytes implement ForthWordList.

None of the properties is inductive alone.  `strncpy` leaves a name cut at the limit
without a NUL of its own, so that to find its link needs the zeros behind HERE;
that they stay zero needs that every write ends before the new HERE, that is, the
arithmetic of alignment; and that a store to FORTH or HERE hits no header needs
the order of the words.  The flags of the newest word are the only bytes behind HERE that
are written twice.  `CodeInv`, for `CodeReadsBack`, says where the items of each word
lie: without a gap from its code on, ending before the next header, those of an open
definition exactly at HERE.  The step over a text is computed by the code from the
text's length twice, when it is laid down and when it is run; `SkipIs` shows that the
two agree for every length.

For what is read back, `Hops` follows the links; `WordAfter` shows that n hops from
FORTH lead to the n-th word from the newest, and the first hop at which the name
agrees is the newest word with it.

### Numbers

`ForthNumbersProofs` proves the run's two properties of `Spec` of ForthNumbers, for every
width of cells and ints, alphabet and length of tokens, from `NumberAssumption` (both
moduli even, an int no wider than a cell, digits and the minus among the characters):

* `NumeralsRead`: `ReadsNumerals`, that exactly the decimal numerals are taken for numbers
  and that where an int holds the number, the cell is the sum of the digits times the
  weights of their places, with its sign;
* `PrintedReadsBack`: `ReadsBackPrinted`.

The invariant `NumberInv` says of each phase what made the token and the cell: typed,
printed from `shown`, compiled from the token by atoi and the casts, or refused.
The work is in the data.  `ReadIsSum` compares the reading, digit by digit from the
left, with the sum of weights, by induction on the digits read: what is read so far
times the weight of the next place, and the weights still to come, always add up to
the sum (`ReadingWeighs`).  Printing is by division, a recursion on smaller numbers:
`UnsignedRecurs` shows with `Descends` that there is such a function,
`UnsignedReadsBack` by the same induction that reading its digits gives the number back.
`CellKeepsInt` is about the casts: int32_t to size_t to long keeps every int, for every
two widths.

### The shell

`ForthShellProofs` proves seven theorems about `Spec` of ForthShell, for every layout of
memory, spelling of tokens and set of sessions, from the assumptions on the layout named
in ForthVM and ForthDict (`SystemAssumption` says where the shell's own words lie),
`ShellAssumption` (the buffer holds the shell's own lines and every line a user types) and
`OwnLinesAssumption` (the word `."` lies in the compiled-in dictionary as forth_core.c writes
it, every function of the model can be called, an int holds more than 0 and -1, and the
shell's texts are texts).
Two of them need nothing of the user's programs, whatever these do to memory, the
stacks and the words, within what the model takes in: the control variables are those
set up at the start (a user's own `STATE` or `SANDBOX`, which C would find instead, does not
hide them; see 2 and 5), and nothing is said from a prompt on that cannot be compiled,
where the model stops.

* `LinesStartFresh`: `StartsFresh`;
* `ShellTyped`: `ShellTypeOK`.

No invariant can say what is in memory while a user's program runs.  `FreshInv` therefore
ties only the control together: the machine runs, or `]` waits for it, inside a line
or an immediate word and nowhere else; at rest the return stack is empty; and where
the shell waits for a line, or is about to, the flags, the buffer, `>IN` and the sandbox
are as the reload left them.  Its proof goes through every opcode handler and every
C function, but needs of them one thing, `Stays`: that they keep the set of cells
and do not stop the machine.  The machine stops in `Leave`, which empties the
return stack, and what a line has left in the shell's variables is overwritten by the
reload before the next one.  The flags are the subtle part: the loop clears them, a
run that ends with one set does not, and an immediate word's stay until the line is
answered.

`ShellTypeOK` is inductive.  What has to be seen is that every cell written is a word,
whatever the cast it went through and however addresses wrap, that each C function that
pops more than it pushes has tested the depth of the stack for it, and that a search or
a store that has been led astray ends undefined instead of in memory that is not there.

Four are about the dictionary:

* `DictionaryStaysIntact`, `CodeStaysFrozen`, `DictionaryOnlyGrows`: `DictionaryIntact`,
  `CodeFrozen` and `DictionaryGrows`;
* `ShellListsWords`: `ListsWords`, that the cells implement ForthWordList.

**Their hypothesis.**  They do not hold of every program: `!` stores wherever it is told to,
and `5 THEN` inside a definition stores into cell 5.  Each is therefore stated of
`Spec /\ SessionsAreTame`, that every step is `Tame`: where the program itself
says at which cell the next step stores (`!`, a control word's hole taken from the
stack, a constant's value by name), the cell is neither part of a header or of
finished code, nor FORTH or HERE; where it moves HERE (ALLOT, and THEN after it) it
stays in the RAM and above the newest header; and what is compiled into the sandbox
stays in it.  The first two speak of the program's operands only.  What the compiler,
defining words, failing words, nested runs, prompts and reports do is not assumed but
proved.  The run checks `SessionsAreTame` of its sessions, good and bad lines alike, so the
hypothesis is met by everything they contain; its mutant shows that the shell itself can
break it, where a reload forgets to empty the sandbox.

**The argument.**  `DictInv` is `ShellTypeOK`, the compiled-in dictionary as it was, and that
there is a chain of headers: a sequence from FORTH through the RAM, each cell of it the
link of the one before and lower than it, ending with the shell's own words and the
newest compiled-in one, its first header below HERE.  The words left of a chain are
kept only if headers are never written twice, which is a statement about every store
in the program.  It is proved in two halves.  For an arbitrary set P of cells about which
the step is careful, one lemma per handler says that the step either leaves P as it
is, adds a header above HERE, or sets the flag of the newest word (`ShellSteps`: `Leaves`,
`Adds`, `Marks`); this half knows nothing of lists.  Then `TameIsCareful` shows that a tame
step is careful about the cells the headers and the finished code are made of, and
`Progress` what each of the three does to the chain.  The chain is the list: `WordList`,
a recursive function, is evaluated along it by `LinkedIsList`.  For the refinement
`TameLists` turns the three kinds of step into those of ForthWordList.

**The session.**  `ShellServesSession`: `ServesSession`, that the shell implements
ForthSession, of `Spec /\ SessionsAreTame /\ []DotQuoteIsSeen`.  The second hypothesis says
that the search for `."` still finds the compiled-in word: a user who defines a `."` of
his own makes the shell speak through it, and nothing can be promised of all that he then sees.
*shell_sessions* checks the first hypothesis of its sessions, and they meet the second, as none
of them defines a `."`.  Sessions that do are not sessions of ForthSession: a report in a
hidden `."` is not understood, is run as far as it was compiled, and its error ends the
loop of `main`.  What remains true of those in *shell_hiding* is `AnswersOrLeaves`, and only TLC
checks it: it is false of a `."` that takes the answer's text off the line and does not print it.

Banner, prompts and reports are lines of Forth, tokenized, compiled into the sandbox and run
on the user's stack by the machine the user's last line has left.  What has to be seen is that
all of it (the search, the immediate word `."`, the cells it lays, the call of OUTPUT,
and the function that at last drops a cell and steps over the text) comes out even
whatever the user has done before: any depth of stack, any mode, an open definition, an
error left behind by the line.
`OwnInv` has four parts, none inductive without the others:

* `Speaking`: a line of the shell is at one of the points that its compilation and its code
  pass through, and at each the invariant says what is in the sandbox, which cells lie
  on top of the user's and where they begin, where the call returns to, and whether
  the text is on the screen;
* `OutputStands`: OUTPUT is as it was compiled at set-up, which is where tameness is needed;
* `WaitsClean`: where the shell waits, or is about to, `>IN` and the sandbox are as its next
  line must find them;
* `LineErr`: that a line's `err` says ERR only where STATE has been spoilt, without which a
  failed line could end the session.

`OwnLineGoes` then says that a step within such a line stutters, moves to the next point, ends
the line, or stops where the model is undefined (a stack with no room for the line's four
cells), and `StepServes` that each of these, and every step of the user's, is a step of
ForthSession.

### Induction

The library's induction theorems take an operator as a parameter, which the provers
at hand cannot instantiate.  `Iteration` states what is needed of them with a set in
the place of the predicate and a function in that of the step (`SetInduction`,
`IntervalInduction`, `Iterates`, `Descends`), and proves it from the one theorem that
does not need an operator, that a set of numbers has a least member.  A recursive function
is a CHOOSE of a function that satisfies its equation; each proof about one first
shows that there is such a function, with `Iterates` or `Descends`, so that the equation
may be used.

### What is only model-checked

* Of the shell: `RunsOnlyItsLine` and `ReturnStackBalanced` say where control gets and
  what the return stack holds while compiled code runs.  Their invariant would have to
  describe all code in the dictionary, holes and addresses on the stack included, and a
  user who leaves control words out of balance breaks them.  `SessionsAreTame` and
  `AnswersOrLeaves` speak of the user's sessions.
* `CompiledMeaning`, `TranscriptsMatch` and `TestsPass` speak of the programs of their
  instances; `LoopTestPops` and `SandboxTestStoresRet` are violated.
* `RunsEnd` and `LineEnds` are liveness properties, outside the prover's reach.

## 5. Not modelled

* The build files, the termios set-up and the trace callback: no behaviour of the
  system's own.
* The end of standard input and the key 0 (see the hazards), which no line of the
  code deals with.
* What happens behind the buffer, behind the sandbox and behind a stack: C leaves it
  undefined, and so do the models, each with a status that says so.
* System words shadowed by the user's: the shell finds STATE, HERE and the others by
  name.  The model gives them fixed addresses; only `."` is looked up, as in C.
* A prompt that cannot be compiled: C goes on and lets the user type into what is left of
  the prompt.  It takes a `."` with which the report before it could be compiled and the
  prompt cannot; no session checked gets there (it would be a deadlock, see `LineCompiled`).

## 6. Plan

Done: the machine, the editor, the tokens, the numbers and the dictionary in bytes, each
checked and proved; the dictionary in cells, all words, compiler and loop, checked, with
their types, the fresh start of each line, the integrity of the dictionary and the
shell's own lines proved; and the three abstract specifications with their refinements,
all proved.  What is left:

1. `ReturnStackBalanced` for compiled code that comes from balanced text.
2. System words found by name, with a user's words shadowing them.
