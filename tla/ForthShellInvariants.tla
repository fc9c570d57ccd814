------------------------ MODULE ForthShellInvariants ------------------------
(***************************************************************************)
(* What holds of the shell at every instruction and every return of a C    *)
(* function: the inductive invariants of ForthShellProofs, and the         *)
(* predicates on memory and the screen they are made of.                   *)
(***************************************************************************)
EXTENDS ForthShellProperties

-----------------------------------------------------------------------------
(* A line finds nothing of the lines before it.                             *)

\* Nothing is left of the line before.
Clean == strbuf = <<>> /\ mem[in_ptr] = 0 /\ mem[sandbox_ptr] = SandboxBase - 1

\* The machine runs, or ] waits for it, inside a line or an immediate word only;
\* where it is at rest the return stack is empty.  Where the shell waits, or is
\* about to, the flags are cleared, and after the banner so is all else.
FreshInv ==
    /\ DOMAIN mem = Memory
    /\ status \in {"idle", "running", "undefined"}
    /\ status = "running" \/ (status = "idle" /\ brackets # <<>>) => at \in {"immediate", "run"}
    /\ status = "idle" => rsp = RStackTop
    /\ status # "undefined" /\ job = "banner" /\ at # "exit" => typed = <<>>
    /\ status # "undefined" /\ at \in {"process", "line"} =>
          flags = {} /\ (typed # <<>> => Clean)

-----------------------------------------------------------------------------
(* The dictionary is a chain of headers.                                    *)

\* The shell's cells are in the RAM, each at a place of its own.
Places == {forth_ptr, here_ptr, in_ptr, state_ptr, sandbox_ptr, i_var, j_var}

\* The variables that C functions write, and the two pointers of the dictionary.
Variables == {in_ptr, state_ptr, sandbox_ptr, i_var}
Pointers == {forth_ptr, here_ptr}

\* The cells of P lie in the dictionary as far as it is in use, none of them a
\* variable, or in the compiled-in one; HERE is in the RAM, behind the newest
\* header and the shell's own words.
Roomy(m, P) ==
    /\ DOMAIN m = Memory
    /\ \A a \in P : /\ a \in DOMAIN Rom \/ (a \in Ram /\ DictBase <= a /\ a <= m[here_ptr])
                    /\ a \notin Variables \cup Pointers
    /\ m[here_ptr] \in Ram /\ m[forth_ptr] + 2 <= m[here_ptr]
    /\ DictBase + 48 <= m[here_ptr]

\* The headers s lead from FORTH down through the shell's own words into the
\* compiled-in dictionary, each in the RAM above the one it is linked to.
Linked(m, s) ==
    /\ s \in Seq(Word) /\ Len(s) > 11
    /\ s[1] = m[forth_ptr] /\ s[Len(s)] = LastRom
    /\ \A i \in 1 .. (Len(s) - 1) : /\ {s[i], s[i] + 1, s[i] + 2} \subseteq Ram
                                    /\ m[s[i] + 2] = s[i + 1]
    /\ \A i, j \in 1 .. (Len(s) - 1) : i < j => s[j] + 2 < s[i]

\* The headers s are the list of words of memory m, the shell's own words at its
\* end, and all below HERE.
Chained(m, s) ==
    /\ Linked(m, s)
    /\ \A i \in 1 .. 11 : s[Len(s) - i] = SystemAt(i)
    /\ \A i \in 1 .. 8 : m[SystemAt(i)] \in {HeaderMark + VAR, HeaderMark + CONST}
    /\ \A i \in 1 .. (Len(s) - 1) : /\ m[s[i]] \in HeaderMark .. (HeaderMark + 15)
                                    /\ DictBase <= s[i]
    /\ s[1] + 2 <= m[here_ptr] /\ m[here_ptr] \in Ram

\* The cells of the headers s, and the cells of the i-th word.
Heads(s) == UNION {s[i] .. (s[i] + 2) : i \in 1 .. (Len(s) - 1)}
Body(m, s, i) == s[i] .. (IF i = 1 THEN m[here_ptr] ELSE s[i - 1] - 1)

\* What a careful step keeps.
KeptCells == HeaderCells \cup CodeCells \cup DOMAIN Rom

\* The headers are in order and the compiled-in words as they were compiled.
DictInv ==
    /\ ShellTypeOK
    /\ \E s : Chained(mem, s)
    /\ \A a \in DOMAIN Rom : mem[a] = Rom[a]

\* The list of words the shell starts with.
FirstList == [i \in 1 .. 12 |-> IF i = 12 THEN LastRom ELSE SystemAt(12 - i)]

\* The word whose header is at a.
ListedAt(m, a) ==
    [name |-> m[a + 1],
     kind |-> 4 * ((m[a] - HeaderMark) \div 4),
     immediate |-> ((m[a] - HeaderMark) \div IMMEDIATE) % 2 = 1]

-----------------------------------------------------------------------------
(* The shell's own lines.                                                   *)

\* The text of the line in the buffer, and where the user's stack begins under it.
OwnText == strbuf[2]
Base == StackTop - Len(kept.stack)

\* The mode, and the five reports.
Interprets == mem[state_ptr] = False
OwnReports == {OkReport, StackUnderflowReport, ZeroDivisionReport, NotFoundReport, CompileOnlyReport}

\* The line, and the mode in which it is issued.
OwnLine ==
    \/ job = "banner" /\ strbuf = Banner /\ Interprets
    \/ job = "prompt" /\ strbuf = Prompt /\ Interprets
    \/ job = "report" /\ strbuf \in OwnReports

\* The user's stack lies where it lay.
UserKept ==
    /\ kept.stack \in Seq(Word) /\ Base >= StackLo
    /\ \A i \in 1 .. Len(kept.stack) : mem[Base + i - 1] = kept.stack[i]

\* The n cells x, y, ... that the line has put on it, the newest last.
OnTop(n) == sp = Base - n
Cell(n) == mem[Base - n]

\* It has not spoken yet, or has printed its text and nothing else.
Silent == Len(screen) = kept.printed
Spoken == Len(screen) = kept.printed + 1 /\ screen[kept.printed + 1][2] = Name[OwnText]

\* The sandbox before the line is compiled, then what ." leaves in it, while the
\* shell interprets, then what the end of the line adds.
Empty == mem[sandbox_ptr] = SandboxBase - 1

TextLaid ==
    /\ mem[SandboxBase] = Op.PUSH /\ mem[SandboxBase + 1] = 1
    /\ mem[SandboxBase + 2] = Op.PUSH /\ mem[SandboxBase + 3] = 1
    /\ mem[SandboxBase + 4] = Op.PC /\ mem[SandboxBase + 5] = Op.LOAD
    /\ mem[SandboxBase + 6] = Op.PUSH /\ mem[SandboxBase + 7] = 10
    /\ mem[SandboxBase + 8] = Op.ADD
    /\ mem[SandboxBase + 9] = Op.PUSH /\ mem[SandboxBase + 10] = output_text
    /\ mem[SandboxBase + 11] = Op.CALL
    /\ mem[SandboxBase + 12] = Op.PUSH /\ mem[SandboxBase + 13] = Fn.dot_quote_post
    /\ mem[SandboxBase + 14] = Op.C_EXEC /\ mem[SandboxBase + 15] = Name[OwnText]

Laid == IF Interprets THEN TextLaid /\ mem[sandbox_ptr] = SandboxBase + 15 /\ SandboxBase + 15 < DictBase
        ELSE Empty

Closed == IF Interprets
          THEN TextLaid /\ mem[SandboxBase + 16] = Op.RET /\ SandboxBase + 16 < DictBase
          ELSE mem[SandboxBase] = Op.RET /\ SandboxBase < DictBase

\* What the compilation of the line came to.
Taken == err = "OK" /\ StateKnown
Spoilt == err = "ERR" /\ ~StateKnown

\* Where the machine stands.
Runs(a) == status = "running" /\ flags = {} /\ pc = a
Stopping == status = "running" /\ flags = {"BYE"}
Rests(f) == status = "idle" /\ flags = f

\* From the issue of the line to its compilation.
Begun == at = "word" /\ Rests({}) /\ err = "OK" /\ OnTop(0) /\ Silent /\ mem[in_ptr] = 0 /\ Empty
Refused == at = "word" /\ Rests({}) /\ err = "ERR" /\ ~StateKnown /\ OnTop(0) /\ Silent /\ Empty

\* The immediate word ." runs, and lays down the code that will print the text.
Quoting ==
    /\ at = "immediate" /\ err = "OK" /\ StateKnown /\ Silent
    /\ status = "running" => rsp = RStackTop
    /\ \/ Runs(DotQuote + 3) /\ OnTop(0) /\ mem[in_ptr] = 1 /\ Empty
       \/ /\ Runs(DotQuote + 5) /\ OnTop(1) /\ Cell(1) = Fn.dot_quote_immediate
          /\ mem[in_ptr] = 1 /\ Empty
       \/ /\ Runs(DotQuote + 6) \/ Stopping \/ Rests({"BYE"})
          /\ OnTop(0) /\ mem[in_ptr] = 2 /\ Laid

\* The text is laid; then the whole line is compiled.
Quoted == at = "word" /\ Rests({}) /\ err = "OK" /\ StateKnown /\ OnTop(0) /\ Silent /\ mem[in_ptr] = 2 /\ Laid

Finished == at = "compiled" /\ Rests({}) /\ (Taken \/ Spoilt)
            /\ OnTop(0) /\ Silent /\ Closed

\* The line runs: it prints its text if the shell interprets.
FirstRuns ==
    \/ Runs(SandboxBase) /\ OnTop(0)
    \/ Runs(SandboxBase + 2) /\ OnTop(1) /\ Cell(1) = 1
    \/ Runs(SandboxBase + 4) /\ OnTop(2) /\ Cell(1) = 1 /\ Cell(2) = 1
    \/ Runs(SandboxBase + 5) /\ OnTop(3) /\ Cell(1) = 1 /\ Cell(2) = 1 /\ Cell(3) = RegPC
    \/ Runs(SandboxBase + 6) /\ OnTop(3) /\ Cell(1) = 1 /\ Cell(2) = 1 /\ Cell(3) = SandboxBase + 5
    \/ Runs(SandboxBase + 8) /\ OnTop(4) /\ Cell(1) = 1 /\ Cell(2) = 1 /\ Cell(3) = SandboxBase + 5 /\ Cell(4) = 10
    \/ Runs(SandboxBase + 9) /\ OnTop(3) /\ Cell(1) = 1 /\ Cell(2) = 1 /\ Cell(3) = SandboxBase + 15
    \/ Runs(SandboxBase + 11) /\ OnTop(4) /\ Cell(1) = 1 /\ Cell(2) = 1 /\ Cell(3) = SandboxBase + 15 /\ Cell(4) = output_text

OutputRuns ==
    /\ rsp = RStackTop - 1 /\ mem[rsp] = SandboxBase + 11
    /\ \/ Runs(output_text) /\ OnTop(3) /\ Cell(1) = 1 /\ Cell(2) = 1 /\ Cell(3) = SandboxBase + 15 /\ Silent
       \/ Runs(output_text + 2) /\ OnTop(4) /\ Cell(1) = 1 /\ Cell(2) = 1 /\ Cell(3) = SandboxBase + 15 /\ Cell(4) = Fn.output /\ Silent
       \/ Runs(output_text + 3) /\ OnTop(1) /\ Cell(1) = 1 /\ Spoken

LastRuns ==
    \/ Runs(SandboxBase + 12) /\ OnTop(1) /\ Cell(1) = 1
    \/ Runs(SandboxBase + 14) /\ OnTop(2) /\ Cell(1) = 1 /\ Cell(2) = Fn.dot_quote_post
    \/ Runs(SandboxBase + 16) /\ OnTop(0)
    \/ Stopping /\ OnTop(0)
    \/ Rests({"BYE"}) /\ OnTop(0)

PrintPoint ==
    \/ FirstRuns /\ rsp = RStackTop /\ Silent
    \/ OutputRuns
    \/ LastRuns /\ rsp = RStackTop /\ Spoken

\* It runs at an instruction of its own, or of OUTPUT, which it calls.
Printing == at = "run" /\ err = "OK" /\ Interprets /\ Closed /\ PrintPoint

\* Outside interpretation the line is only a RET: the machine passes over it.
Passing ==
    /\ at = "run" /\ ~Interprets /\ Closed /\ Silent /\ OnTop(0)
    /\ (Taken \/ Spoilt)
    /\ rsp = RStackTop
    /\ Runs(SandboxBase) \/ Stopping \/ Rests({"BYE"})

\* A line of the shell is at one of these points as long as it is not over.
Speaking ==
    /\ OwnLine /\ UserKept /\ brackets = <<>> /\ kept.printed \in Nat
    /\ Begun \/ Refused \/ Quoting \/ Quoted \/ Finished \/ Printing \/ Passing

\* A line of the user's that goes on has met no error, and the compiler's ERR
\* means that STATE has been spoilt.
LineErr ==
    job = "line" =>
        /\ at \in {"immediate", "run"} => err = "OK"
        /\ at \in {"word", "compiled"} /\ err = "ERR" => ~StateKnown

\* OUTPUT is as it was compiled, and stands behind the other words of the system.
OutputCells ==
    /\ mem[output_text - 3] = HeaderMark + TEXT
    /\ mem[output_text] = Op.PUSH /\ mem[output_text + 1] = Fn.output
    /\ mem[output_text + 2] = Op.C_EXEC /\ mem[output_text + 3] = Op.RET

OutputStands ==
    /\ OutputCells
    /\ IF ShellSpeaks /\ job = "banner"
       THEN mem[forth_ptr] = SystemAt(11) /\ mem[here_ptr] = LastSystemCell
       ELSE \E s \in {WordList(mem)} : Len(s) > 12 /\ s[Len(s) - 12] > LastSystemCell

\* Before a line the sandbox is empty.
WaitsClean == at \in {"process", "line"} => mem[in_ptr] = 0 /\ Empty

\* The four together, as long as the machine is defined.
OwnInv == status # "undefined" => (ShellSpeaks => Speaking) /\ LineErr /\ OutputStands /\ WaitsClean

\* What every point of such a line has in common.
OwnSetting == OwnLine /\ UserKept /\ brackets = <<>> /\ kept.printed \in Nat

-----------------------------------------------------------------------------
(* The session the shell's user sees.                                       *)

\* What the abstract session sees, and the phase that goes with each place.
SessionMode == CASE mem[state_ptr] = False -> "interpret"
                 [] mem[state_ptr] = True -> "compile"
                 [] OTHER -> "unknown"

SessionStack == IF ShellSpeaks THEN kept.stack ELSE UserStack
SessionAnswer == IF SessionPhase = "answering" THEN Name[strbuf[2]] ELSE "(none)"

SessionSaid == IF ShellSpeaks
               THEN [i \in 1 .. (Len(screen) - kept.printed) |-> screen[kept.printed + i][2]]
               ELSE <<>>

PhaseTells ==
    /\ at = "exit" => SessionPhase = "left"
    /\ at = "process" => SessionPhase = "ready"
    /\ at = "line" => SessionPhase = "waiting"
    /\ ShellSpeaks /\ job = "banner" => SessionPhase = "greeting"
    /\ ShellSpeaks /\ job = "prompt" => SessionPhase = "asking"
    /\ ShellSpeaks /\ job = "report" => SessionPhase = "answering"
    /\ ~ShellSpeaks /\ at \notin {"process", "line", "exit"} => SessionPhase = "working"
    /\ ~ShellSpeaks => SessionAnswer = "(none)" /\ SessionStack = UserStack /\ SessionSaid = <<>>
    /\ ShellSpeaks => SessionStack = kept.stack
    /\ ShellSpeaks /\ job = "report" => SessionAnswer = Name[strbuf[2]]
    /\ ShellSpeaks /\ job \in {"banner", "prompt"} => SessionAnswer = "(none)"

=============================================================================
