----------------------------- MODULE ForthShell -----------------------------
(***************************************************************************)
(* The shell: forth_compile and forth_start_compiling (forth.c), the       *)
(* interpreter loop forth_interpreter_process (forth_inter.c) around them, *)
(* and main's loop around that, which ends when process returns an error.  *)
(*                                                                         *)
(* forth_interpreter_process prints a prompt, reads a line, compiles it    *)
(* into the sandbox and runs it, and prints a report.  Prompt and report   *)
(* are lines of Forth themselves, compiled and run the same way: "job" is  *)
(* what is being compiled or run, "at" where control stands.  The virtual  *)
(* machine is entered for the sandbox (at "run") and for every immediate   *)
(* word met while compiling (at "immediate"); all of it is one thread.     *)
(***************************************************************************)
EXTENDS ForthWords

CONSTANTS
    Sessions     \* what a user may type: sequences of lines of tokens

\* The shell's own lines.
Banner == <<".\"", "Forth_shell \"">>
Prompt == <<".\"", "> \"">>
OkReport == <<".\"", "OK \"">>
StackUnderflowReport == <<".\"", "STACK UNDERFLOW \"">>
ZeroDivisionReport == <<".\"", "ZERO DIVISION \"">>
NotFoundReport == <<".\"", "WORD NOT FOUND \"">>
CompileOnlyReport == <<".\"", "THIS WORD IS COMPILE-ONLY \"">>

ASSUME ShellAssumption ==
    /\ Sessions \subseteq Seq(Seq(Tokens))
    /\ \A session \in Sessions : \A i \in 1 .. Len(session) : Len(session[i]) < StrbufSize
    /\ {Banner, Prompt, OkReport, StackUnderflowReport, ZeroDivisionReport, NotFoundReport,
        CompileOnlyReport} \subseteq Seq(Tokens)
    /\ 2 < StrbufSize /\ "CUSTOM" \in Tokens

\* The header of .", the word they are written in, and its cells in the compiled-in
\* dictionary; the functions it leads to can be called, an int has values beside
\* 0 and -1, and the texts of the shell's lines are texts.
DotQuote == RomAt(Len(RomWords) - 1)

ASSUME OwnLinesAssumption ==
    /\ DotQuote .. (DotQuote + 6) \subseteq DOMAIN Rom \cap (Word \ {0})
    /\ Rom[DotQuote] = HeaderMark + IMMEDIATE
    /\ \A i \in 1 .. 4 : Rom[DotQuote + 2 + i] = Calling("dot_quote_immediate")[i]
    /\ Functions \subseteq Natives /\ IntModulus > 2
    /\ {Banner[2], Prompt[2], OkReport[2], StackUnderflowReport[2], ZeroDivisionReport[2],
        NotFoundReport[2], CompileOnlyReport[2]} \subseteq Texts

VARIABLES
    job,    \* "banner", "prompt", "line" or "report"
    at,     \* "process", "word", "immediate", "compiled", "run", "line", "exit"
    err,    \* what forth_compile returned last
    typed,  \* history: the lines read so far
    kept    \* history: the user's stack and what had been printed when the job began

shellVars == <<vmVars, wordVars, job, at, err, typed, kept>>

HostIdle == status = "idle" /\ brackets = <<>>
UserStack == [i \in 1 .. (StackTop - sp) |-> mem[sp + i - 1]]
MachineUnchanged == UNCHANGED <<sp, rsp, pc, code>>

-----------------------------------------------------------------------------
(* forth_compile: one token of the line. *)

\* forth_start_compiling asks for the next token.
Compiling == HostIdle /\ at = "word" /\ err = "OK" /\ Token # NoToken

CompileState == mem[state_ptr] = True
StateKnown == mem[state_ptr] \in {True, False}
CompileTo == IF CompileState THEN here_ptr ELSE sandbox_ptr

Rejects(e) ==
    /\ err' = e
    /\ mem' = TokenRead
    /\ MachineUnchanged /\ WordsUnchanged
    /\ UNCHANGED <<flags, status, job, at, typed, kept>>

\* What the compiler does is undefined.
StopsUndefined ==
    /\ Undefined
    /\ WordsUnchanged
    /\ UNCHANGED <<job, at, err, typed, kept>>

CompilesCode(ws) ==
    /\ \/ /\ Fits(mem, CompileTo, Len(ws))
          /\ mem' = Appended(TokenRead, CompileTo, ws)
          /\ UNCHANGED status
       \/ ~Fits(mem, CompileTo, Len(ws)) /\ status' = "undefined" /\ UNCHANGED mem
    /\ MachineUnchanged /\ WordsUnchanged
    /\ UNCHANGED <<flags, job, at, err, typed, kept>>

\* STATE holds neither of its two values.
RejectState == ~StateKnown /\ Rejects("ERR")

\* Compile-only words let through in either state.
AllowedAlways(command) == TRUE
Allowed(command) == HasFlag(command, COMPILE_ONLY) => CompileState
Immediate(command) == HasFlag(command, IMMEDIATE)
IsVariable(command) == HasFlag(command, VAR)
IsConstant(command) == HasFlag(command, CONST)

RejectCompileOnly(command) == ~Allowed(command) /\ Rejects("COMPILE_ONLY")

\* An immediate word is run at once ...
RunImmediate(command) ==
    /\ Allowed(command) /\ Immediate(command)
    /\ ~IsVariable(command) /\ ~IsConstant(command)
    /\ mem' = TokenRead
    /\ vm_start(TextPtr(command))
    /\ at' = "immediate"
    /\ WordsUnchanged
    /\ UNCHANGED <<sp, rsp, code, flags, job, err, typed, kept>>

\* ... and only the exception BYE, its normal end, is forgotten afterwards.
ImmediateReturns ==
    /\ HostIdle /\ at = "immediate"
    /\ flags' = flags \ {"BYE"}
    /\ at' = "word"
    /\ MachineUnchanged /\ WordsUnchanged
    /\ UNCHANGED <<mem, status, job, err, typed, kept>>

\* An immediate variable or constant leaves its address or value on the stack.
PushImmediate(command) ==
    /\ Allowed(command) /\ Immediate(command)
    /\ IsVariable(command) \/ IsConstant(command)
    /\ LET datum == TextPtr(command)
       IN \/ /\ Full \/ (IsConstant(command) /\ ~Readable(datum))
             /\ status' = "undefined" /\ UNCHANGED <<mem, sp>>
          \/ /\ ~Full /\ (IsConstant(command) => Readable(datum))
             /\ sp' = sp - 1
             /\ mem' = [TokenRead EXCEPT ![sp - 1] =
                           IF IsVariable(command) THEN datum ELSE Load(datum)]
             /\ UNCHANGED status
    /\ WordsUnchanged
    /\ UNCHANGED <<rsp, pc, code, flags, job, at, err, typed, kept>>

\* Any other word: its address, its value or a call of it is compiled.
CompileWord(command) ==
    /\ Allowed(command) /\ ~Immediate(command)
    /\ CompilesCode(<<Op.PUSH, TextPtr(command)>> \o
            (IF IsVariable(command) THEN <<>>
             ELSE IF IsConstant(command) THEN <<Op.LOAD>> ELSE <<Op.CALL>>))

CompileNumber ==
    /\ Token \in DOMAIN Numeral
    /\ CompilesCode(<<Op.PUSH, Numeral[Token] % Modulus>>)

RejectUnknown == Token \notin DOMAIN Numeral /\ Rejects("WORD_NOT_FOUND")

forth_compile ==
    /\ Compiling
    /\ \E command \in {forth_search(Token)} :
          \/ RejectState
          \/ StateKnown /\ command = Lost /\ StopsUndefined
          \/ /\ StateKnown /\ command \notin {0, Lost}
             /\ \/ RejectCompileOnly(command) \/ RunImmediate(command)
                \/ PushImmediate(command) \/ CompileWord(command)
          \/ /\ StateKnown /\ command = 0
             /\ CompileNumber \/ RejectUnknown

\* The line ends without its RET.
EndOfLineWithoutRet ==
    /\ HostIdle /\ at = "word" /\ (Token = NoToken \/ err # "OK")
    /\ at' = "compiled"
    /\ MachineUnchanged /\ WordsUnchanged
    /\ UNCHANGED <<mem, status, flags, job, err, typed, kept>>

\* The line ends, or an error has ended it: a RET closes the sandbox.
EndOfLine ==
    /\ HostIdle /\ at = "word" /\ (Token = NoToken \/ err # "OK")
    /\ \/ /\ Fits(mem, sandbox_ptr, 1)
          /\ mem' = Appended(mem, sandbox_ptr, <<Op.RET>>)
          /\ UNCHANGED status
       \/ ~Fits(mem, sandbox_ptr, 1) /\ status' = "undefined" /\ UNCHANGED mem
    /\ at' = "compiled"
    /\ MachineUnchanged /\ WordsUnchanged
    /\ UNCHANGED <<flags, job, err, typed, kept>>

CompileLine == forth_compile \/ ImmediateReturns \/ EndOfLine

-----------------------------------------------------------------------------
(* forth_interpreter_process. *)

\* forth_vm_reload that leaves what is compiled in the sandbox.
ReloadedKeepingSandbox == [mem EXCEPT ![in_ptr] = 0]

\* forth_vm_reload, apart from the input buffer.
Reloaded == [mem EXCEPT ![sandbox_ptr] = SandboxBase - 1, ![in_ptr] = 0]

Now == [stack |-> UserStack, printed |-> Len(screen')]

\* A report whose compilation does not replace the error reported.
IssuesKeepingErr(j, line) ==
    strbuf' = line /\ job' = j /\ at' = "word" /\ UNCHANGED err /\ kept' = Now

\* strcpy of one of the shell's lines into the buffer, and its compilation.
Issues(j, line) ==
    strbuf' = line /\ job' = j /\ at' = "word" /\ err' = "OK" /\ kept' = Now

RunSandbox ==
    /\ vm_start(SandboxBase)
    /\ at' = "run"
    /\ WordsUnchanged
    /\ UNCHANGED <<mem, sp, rsp, code, flags, job, err, typed, kept>>

\* The head of process: the prompt, unless a definition is open.
PromptUser ==
    /\ HostIdle /\ at = "process"
    /\ screen' = <<>>
    /\ \/ mem[state_ptr] = False /\ Issues("prompt", Prompt)
       \/ mem[state_ptr] # False /\ at' = "line" /\ UNCHANGED <<strbuf, job, err, kept>>
    /\ MachineUnchanged
    /\ UNCHANGED <<mem, flags, status, brackets, typed>>

Prefixed(session) == /\ Len(session) > Len(typed)
                     /\ SubSeq(session, 1, Len(typed)) = typed
NextLines == {session[Len(typed) + 1] : session \in {s \in Sessions : Prefixed(s)}}

\* get_string: a line is typed, or control-C; its echo needs a stack cell.
ReadLine ==
    /\ HostIdle /\ at = "line"
    /\ UNCHANGED screen
    /\ \E line \in NextLines :
          /\ typed' = Append(typed, line)
          /\ \/ Full /\ status' = "undefined" /\ UNCHANGED <<strbuf, job, at, err, kept>>
             \/ ~Full /\ Issues("line", line) /\ UNCHANGED status
             \/ /\ ~Full /\ at' = "exit" /\ err' = "EXIT"
                /\ UNCHANGED <<strbuf, job, status, kept>>
    /\ MachineUnchanged
    /\ UNCHANGED <<mem, flags, brackets>>

\* The line is run whatever its compilation returned.
LineRunAnyway ==
    /\ HostIdle /\ at = "compiled" /\ job # "report"
    /\ RunSandbox

\* The line is compiled: it is run if nothing was wrong with it.  (In every
\* session checked the banner and the prompt are: the report before a prompt is written
\* in the same word, and one that is not understood has ended the session.  After a
\* prompt that is not, C would go on with the prompt still in the buffer; the model,
\* in which a buffer of tokens cannot be typed into, stops.)
LineCompiled ==
    /\ HostIdle /\ at = "compiled" /\ job # "report" /\ err = "OK"
    /\ RunSandbox

\* The shell's own line is run whatever its compilation returned.
ReportCompiled ==
    /\ HostIdle /\ at = "compiled" /\ job = "report"
    /\ RunSandbox

\* forth_vm_reload, after which the shell issues a report.
Reports(line) ==
    /\ mem' = Reloaded
    /\ flags' = {}
    /\ UNCHANGED screen
    /\ Issues("report", line)
    /\ MachineUnchanged
    /\ UNCHANGED <<status, brackets, typed>>

\* main goes on whatever process returns.
ReturningDeaf ==
    /\ mem' = Reloaded
    /\ flags' = {}
    /\ strbuf' = <<>>
    /\ at' = "process"
    /\ MachineUnchanged
    /\ UNCHANGED <<status, screen, brackets, job, err, typed, kept>>

\* forth_vm_reload, after which process returns err, and main goes on or ends.
Returning ==
    /\ mem' = Reloaded
    /\ flags' = {}
    /\ strbuf' = <<>>
    /\ at' = IF err = "OK" THEN "process" ELSE "exit"
    /\ MachineUnchanged
    /\ UNCHANGED <<status, screen, brackets, job, err, typed, kept>>

\* The line was rejected.
LineRejected ==
    /\ HostIdle /\ at = "compiled" /\ job = "line" /\ err # "OK"
    /\ \/ err = "WORD_NOT_FOUND" /\ Reports(NotFoundReport)
       \/ err = "COMPILE_ONLY" /\ Reports(CompileOnlyReport)
       \/ err = "ERR" /\ Returning

\* The prompt was printed: reload, and read a line.
PromptPrinted ==
    /\ HostIdle /\ at = "run" /\ job = "prompt"
    /\ mem' = Reloaded
    /\ flags' = {}
    /\ strbuf' = <<>>
    /\ at' = "line"
    /\ MachineUnchanged
    /\ UNCHANGED <<status, screen, brackets, job, err, typed, kept>>

\* The line was run: only two of the exceptions are looked at.
LineRan ==
    /\ HostIdle /\ at = "run" /\ job = "line"
    /\ \/ "STACK_UNDERFLOW" \in flags /\ Reports(StackUnderflowReport)
       \/ /\ "STACK_UNDERFLOW" \notin flags /\ "ZERO_DIVISION" \in flags
          /\ Reports(ZeroDivisionReport)
       \/ /\ {"STACK_UNDERFLOW", "ZERO_DIVISION"} \cap flags = {}
          /\ IF mem[state_ptr] = False THEN Reports(OkReport) ELSE Returning

\* The report was printed.
ReportPrinted ==
    /\ HostIdle /\ at = "run" /\ job = "report"
    /\ Returning

\* The banner was printed: forth_interpreter_init returns to main, which adds
\* its own word and enters its loop.
BannerPrinted ==
    /\ HostIdle /\ at = "run" /\ job = "banner"
    /\ \/ /\ Fits(mem, here_ptr, 7)
          /\ mem' = Added(Reloaded, TEXT, "CUSTOM", Calling("custom"))
          /\ UNCHANGED status
       \/ ~Fits(mem, here_ptr, 7) /\ status' = "undefined" /\ UNCHANGED mem
    /\ flags' = {}
    /\ strbuf' = <<>>
    /\ at' = "process"
    /\ MachineUnchanged
    /\ UNCHANGED <<screen, brackets, job, err, typed, kept>>

Process ==
    \/ PromptUser \/ ReadLine \/ LineCompiled \/ ReportCompiled
    \/ LineRejected \/ PromptPrinted \/ LineRan \/ ReportPrinted \/ BannerPrinted

-----------------------------------------------------------------------------
(* The whole. *)

\* forth_interpreter_init up to the compilation of the banner.
Init ==
    /\ vm_init(RamImage)
    /\ strbuf = Banner /\ screen = <<>> /\ brackets = <<>>
    /\ job = "banner" /\ at = "word" /\ err = "OK" /\ typed = <<>>
    /\ kept = [stack |-> <<>>, printed |-> 0]

VMStep    == (Instruction \/ Leave) /\ WordsUnchanged /\ UNCHANGED <<job, at, err, typed, kept>>
NativeStep == (Native \/ right_bracket_returns) /\ UNCHANGED <<job, at, err, typed, kept>>

\* The session is over, or anything may happen.
Over ==
    /\ \/ status = "undefined"
       \/ HostIdle /\ at = "exit"
       \/ HostIdle /\ at = "line" /\ NextLines = {}
    /\ UNCHANGED shellVars

Running == VMStep \/ NativeStep \/ CompileLine \/ Process
Next == Running \/ Over

Spec == Init /\ [][Next]_shellVars

\* The only thread keeps running; nobody owes the shell a line.
FairSpec == Spec /\ WF_shellVars(Running /\ ~(at = "line" /\ HostIdle))
=============================================================================
