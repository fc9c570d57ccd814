------------------------ MODULE ForthShellProperties ------------------------
(***************************************************************************)
(* What the shell of ForthShell promises, whatever its user types within   *)
(* the limits the README names.                                            *)
(***************************************************************************)
EXTENDS ForthShell

\* The values the shell's control variables and the machine under it may have;
\* the data stack pointer stays inside its stack though C functions move it too,
\* and so does the base of the return stack.  (UNLOOP outside a loop takes vm->rsp
\* past its top, where RET ends the run.)
ShellTypeOK ==
    /\ RegistersOK
    /\ strbuf \in Seq(Tokens) /\ Len(strbuf) < StrbufSize
    /\ brackets \in Seq(Word)
    /\ job \in {"banner", "prompt", "line", "report"}
    /\ at \in {"process", "word", "immediate", "compiled", "run", "line", "exit"}
    /\ err \in {"OK", "ERR", "WORD_NOT_FOUND", "COMPILE_ONLY", "EXIT"}
    /\ typed \in Seq(Seq(Tokens))

-----------------------------------------------------------------------------
(* The dictionary. *)

\* The headers from FORTH on, newest first, as long as the links lead to older
\* words; the last one is the first outside the RAM, or whose link does not.
WordList(m) ==
    LET from[a \in Word] ==
            IF ~({a, a + 2} \subseteq Ram) THEN <<a>>
            ELSE IF m[a + 2] \notin Ram THEN <<a, m[a + 2]>>
            ELSE IF m[a + 2] < a THEN <<a>> \o from[m[a + 2]]
            ELSE <<a>>
    IN  from[m[forth_ptr]]

SystemHeaders == [i \in 1 .. Len(SystemWords) |-> SystemAt(Len(SystemWords) + 1 - i)]
Last(s) == s[Len(s)]

\* The list of words is never broken: it leads from FORTH over headers, all of
\* them below HERE, down through the shell's own words to the compiled-in
\* dictionary.  (forth_add_* and the handlers write headers, links, FORTH and
\* HERE separately, between code that is being compiled at the same HERE.)
DictionaryIntact ==
    LET list == WordList(mem)
        ours == Len(SystemHeaders)
    IN  /\ Last(list) = LastRom
        /\ Len(list) > ours
        /\ SubSeq(list, Len(list) - ours, Len(list) - 1) = SystemHeaders
        /\ \A i \in 1 .. Len(list) : IsHeader(list[i])
        /\ list[1] + 2 <= mem[here_ptr]

\* The cells of the words with code: all of a word from its flags to the next
\* newer header, but for the word that is being defined, whose holes are still
\* to be filled in.
CodeCells ==
    LET list == WordList(mem)
        end(i) == IF i = 1 THEN mem[here_ptr] ELSE list[i - 1] - 1
    IN  UNION {list[i] .. end(i) :
                  i \in {k \in 1 .. (Len(list) - 1) :
                            /\ ~HasFlag(list[k], VAR) /\ ~HasFlag(list[k], CONST)
                            /\ k = 1 => mem[state_ptr] = False}}

\* What a program must leave alone if its words are to stay: the headers, the
\* code that is finished, and the two variables that say where both are.
HeaderCells ==
    LET list == WordList(mem)
    IN  UNION {list[i] .. (list[i] + 2) : i \in 1 .. (Len(list) - 1)}
Protected == HeaderCells \cup CodeCells \cup {forth_ptr, here_ptr}

\* Where the program, not the shell, says what the next step stores at: with !,
\* with a hole it has put on the stack itself, or as the value of a constant.
StoresAt(a) ==
    \/ Executing(Op.STR) /\ Holds(2) /\ a = TOS
    \/ /\ Calls("else_immediate") \/ Calls("then_immediate") \/ Calls("loop_immediate")
       /\ HoleOnStack /\ a = Hole
    \/ /\ Calls("constant_post") /\ Has(2) /\ Arg(0) - StrbufBase \in DOMAIN strbuf
       /\ a = TextPtr(forth_search(strbuf[Arg(0) - StrbufBase]))

\* A program that stores at nothing protected, keeps HERE in the RAM and above
\* the newest header when it moves it, and whose lines fit into the sandbox.
Tame ==
    /\ \A a \in Protected : ~StoresAt(a)
    /\ Calls("allot") \/ Calls("then_immediate") =>
          mem'[here_ptr] \in Ram /\ mem[forth_ptr] + 2 <= mem'[here_ptr]
    /\ mem'[sandbox_ptr] < DictBase

\* All that the sessions do is tame, whatever the shell runs between their lines
\* on the same memory: its own lines leave the sandbox as empty as they found it.
SessionsAreTame == [][Tame]_shellVars

\* A definition that ; has closed is final: compiling, running, reporting and
\* failing never change a cell of it.  IMMEDIATE may set its flag.
CodeFrozen ==
    [][mem' # mem =>
         \A a \in CodeCells :
            \/ mem'[a] = mem[a]
            \/ a = mem[forth_ptr] /\ mem'[a] = mem[a] + IMMEDIATE]_shellVars

\* A step leaves the list of words as it is, or puts one new word before it,
\* above everything compiled so far: no word is lost or hidden by half a header.
DictionaryGrows ==
    [][mem' # mem =>
         LET old == WordList(mem)
             new == WordList(mem')
         IN \/ new = old
            \/ Tail(new) = old /\ Head(new) > mem[here_ptr]]_shellVars

\* The RAM's part of the list, as words.
ListedWords(m) ==
    LET list == WordList(m)
        bits(a) == m[a] - HeaderMark
    IN  [i \in 1 .. (Len(list) - 1) |->
            [name |-> m[list[i] + 1],
             kind |-> 4 * (bits(list[i]) \div 4),
             immediate |-> (bits(list[i]) \div IMMEDIATE) % 2 = 1]]

\* Through its headers the dictionary of the shell is the list of words of
\* ForthWordList.  No step renames a word, changes its kind, loses it or makes
\* an older one immediate.
Listed == INSTANCE ForthWordList WITH
    words <- ListedWords(mem),
    Spelled <- {Name[token] : token \in Tokens},
    Kinds <- {VAR, CONST, TEXT},
    Initial <- ListedWords(RamImage)

ListsWords == Listed!Spec

-----------------------------------------------------------------------------
(* Running a line. *)

InSandbox == pc \in SandboxBase .. (DictBase - 1)
Fetching == status = "running" /\ flags = {}

\* What is executed in the sandbox was compiled for this line (or this prompt
\* or report): control never reaches cells an earlier line has left behind,
\* neither at the end of a line, nor after an error, nor in the nested run of ].
RunsOnlyItsLine == Fetching /\ InSandbox => pc <= mem[sandbox_ptr]

\* Whenever control is in the line itself the return stack is empty: every
\* word, loop and early exit has taken off exactly what it had put on, so the
\* RET at the end of the line ends the run.
ReturnStackBalanced == Fetching /\ InSandbox /\ brackets = <<>> => rsp = RStackTop

\* The next line finds nothing of the lines before it, whatever they did to the
\* machine, to the shell's variables or to its words, and wherever they were
\* stopped: no exception, nothing on the return stack, no token in the buffer, >IN
\* at its start and the sandbox empty.  (forth_vm_reload clears the flags, the
\* buffer and the variables, but only vm_start, where it ends, the return stack.)
StartsFresh ==
    HostIdle /\ at = "line" /\ typed # <<>> =>
        /\ flags = {} /\ rsp = RStackTop
        /\ strbuf = <<>> /\ mem[in_ptr] = 0 /\ mem[sandbox_ptr] = SandboxBase - 1

\* Through the banner, the prompts and the reports, lines of Forth that run on
\* the user's own stack, the shell is the session of ForthSession: it asks and
\* answers in turn, each time with exactly its text (or, inside a definition,
\* none), it leaves on the stack what the user had there, whatever the line
\* before did, and no line ends it, unless a program has overwritten STATE.
ShellSpeaks == at \notin {"process", "line", "exit"} /\ job # "line"
SessionPhase ==
    CASE at = "exit" -> "left"
      [] at = "process" -> "ready"
      [] at = "line" -> "waiting"
      [] ShellSpeaks -> (CASE job = "banner" -> "greeting"
                           [] job = "prompt" -> "asking"
                           [] job = "report" -> "answering")
      [] OTHER -> "working"

Served == INSTANCE ForthSession WITH
    Greeting <- Name[Banner[2]],
    Asked <- Name[Prompt[2]],
    Answers <- {Name[line[2]] : line \in {OkReport, StackUnderflowReport,
                    ZeroDivisionReport, NotFoundReport, CompileOnlyReport}},
    phase <- SessionPhase,
    mode <- CASE mem[state_ptr] = False -> "interpret"
              [] mem[state_ptr] = True -> "compile"
              [] OTHER -> "unknown",
    stack <- IF ShellSpeaks THEN kept.stack ELSE UserStack,
    answer <- IF SessionPhase = "answering" THEN Name[strbuf[2]] ELSE "(none)",
    said <- IF ShellSpeaks
            THEN [i \in 1 .. (Len(screen) - kept.printed) |-> screen[kept.printed + i][2]]
            ELSE <<>>

ServesSession == Served!Spec

\* The word in which the banner, the prompts and the reports are written is the
\* compiled-in one: no word of the user's hides it.  (C looks it up anew for every
\* line of its own, in the dictionary the user extends.)
DotQuoteIsSeen == forth_search(Banner[1]) = DotQuote

\* What has been printed since the job began.
SaidInJob == SubSeq(screen, kept.printed + 1, Len(screen))

\* A user who hides ." is never left without the answer to a line and asked for
\* the next: where the loop goes round again, the answer has been printed once and
\* whole (or swallowed by the definition that is open), through his own word if it
\* comes to that; otherwise the session is over, and no answer ends it in any other
\* case (but where STATE is spoilt).
\* (For words named ." that do not take the text of the answer off the line: a report
\* is compiled, so its text is then not understood, and process hands that to main.)
AnswersOrLeaves ==
    [][ReportPrinted /\ StateKnown =>
          \/ /\ at' = "process"
             /\ SaidInJob = IF CompileState THEN <<>> ELSE <<<<"text", Name[strbuf[2]]>>>>
          \/ at' = "exit" /\ ~DotQuoteIsSeen]_shellVars

\* A line comes to an end (for programs without endless loops): the shell gets
\* back to reading, or the user has left.
LineEnds ==
    (at = "word" /\ job = "line") ~> (HostIdle /\ at \in {"process", "line", "exit"})
=============================================================================
