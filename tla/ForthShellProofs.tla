-------------------------- MODULE ForthShellProofs --------------------------
(***************************************************************************)
(* For every layout of memory and every session, in four parts.            *)
(*                                                                         *)
(* A line finds nothing of the lines before it.  A user's program may do   *)
(* anything to memory, so the proof needs of all instructions and C        *)
(* functions only that they keep the cells in their places and do not stop *)
(* the machine: the machine stops in Leave, which empties the return       *)
(* stack, and the shell reloads its variables before it waits.             *)
(*                                                                         *)
(* Whatever the program does, words stay words and the stack pointers in   *)
(* their stacks, as long as the machine is defined: ShellTypeOK, which is  *)
(* inductive.                                                              *)
(*                                                                         *)
(* The dictionary of a tame program stays a list of words that only grows, *)
(* and its code frozen.  First what each handler may store, for any set P  *)
(* of cells that the step is careful about; then the invariant, a chain of *)
(* headers from FORTH down to the compiled-in words, and that a tame step  *)
(* is careful about the cells it and the finished code are made of.        *)
(*                                                                         *)
(* The shell keeps up its end of the session.  Its banner, prompts and     *)
(* reports are lines of Forth, compiled and run on the user's stack by the *)
(* user's machine: the invariant says where such a line stands at each of  *)
(* its instructions, and what it owes the user until it is over.           *)
(***************************************************************************)
EXTENDS ForthShellInvariants, ForthVMSteps, SequenceTheorems, Iteration

-----------------------------------------------------------------------------
(* The instructions. *)

-----------------------------------------------------------------------------
(* The C functions. *)

\* What a C function compiles, adds or reads keeps the cells in their places.
LEMMA CellsStay ==
    /\ DOMAIN TokenRead = DOMAIN mem
    /\ \A m, p, ws : DOMAIN Appended(m, p, ws) = DOMAIN m
    /\ \A m, flag, token, ws : DOMAIN Added(m, flag, token, ws) = DOMAIN m
  BY DEF TokenRead, Appended, Added

LEMMA CallsRun ==
    ASSUME NEW f, Calls(f)
    PROVE  status = "running"
  BY DEF Calls, NativeCall, Executing

LEMMA ReturnsStays ==
    ASSUME NEW m, NEW s, Returns(m, s), DOMAIN m = DOMAIN mem
    PROVE  Stays
  BY DEF Returns, Goto, Stays

LEMMA RaisesStays ==
    ASSUME NEW e, NEW m, NEW s, Raises(e, m, s), DOMAIN m = DOMAIN mem
    PROVE  Stays
  BY DEF Raises, Stays

LEMMA UndefinedStays ==
    ASSUME Undefined
    PROVE  Stays
  BY DEF Undefined, Stays

LEMMA ShortStays ==
    ASSUME NEW n, Short(n)
    PROVE  Stays
  BY RaisesStays DEF Short

LEMMA CompilesStays ==
    ASSUME NEW m, NEW p, NEW ws, NEW s, Compiles(m, p, ws, s), DOMAIN m = DOMAIN mem
    PROVE  Stays
<1>1. CASE Undefined
  BY <1>1, UndefinedStays
<1>2. CASE Returns(Appended(m, p, ws), s)
  BY <1>2, CellsStay, ReturnsStays
<1>3. QED
  BY <1>1, <1>2 DEF Compiles

LEMMA UnaryStays ==
    ASSUME NEW f, NEW v, Unary(f, v)
    PROVE  status = "running" /\ Stays
<1>1. DOMAIN [mem EXCEPT ![Top] = v] = DOMAIN mem
  OBVIOUS
<1>2. QED
  BY <1>1, CallsRun, ShortStays, ReturnsStays DEF Unary

LEMMA PairStays ==
    ASSUME NEW f, NEW v, Pair(f, v)
    PROVE  status = "running" /\ Stays
<1>1. DOMAIN [mem EXCEPT ![Top + 1] = v] = DOMAIN mem
  OBVIOUS
<1>2. QED
  BY <1>1, CallsRun, ShortStays, ReturnsStays DEF Pair

\* Arithmetic and logic.
LEMMA ArithmeticStays ==
    ASSUME ArithmeticWord
    PROVE  status = "running" /\ Stays
<1>1. CASE invert_handler
  BY <1>1, UnaryStays DEF invert_handler
<1>2. CASE negate_handler
  BY <1>2, UnaryStays DEF negate_handler
<1>3. CASE abs_handler
  BY <1>3, CallsRun, ShortStays, ReturnsStays, RaisesStays, UndefinedStays, CompilesStays, CellsStay DEF abs_handler
<1>4. CASE max_handler
  BY <1>4, PairStays DEF max_handler
<1>5. CASE min_handler
  BY <1>5, PairStays DEF min_handler
<1>6. CASE equal_handler
  BY <1>6, PairStays DEF equal_handler
<1>7. CASE rshift_handler
  BY <1>7, CallsRun, UndefinedStays, PairStays DEF rshift_handler, Shift
<1>8. CASE lshift_handler
  BY <1>8, CallsRun, UndefinedStays, PairStays DEF lshift_handler, Shift
<1>9. CASE dup_if_no_zero_handler
  BY <1>9, CallsRun, ShortStays, ReturnsStays, RaisesStays, UndefinedStays, CompilesStays, CellsStay DEF dup_if_no_zero_handler
<1>10. CASE drop_handler
  BY <1>10, CallsRun, ShortStays, ReturnsStays, RaisesStays, UndefinedStays, CompilesStays, CellsStay DEF drop_handler
<1>11. CASE forth_swap_handler
  BY <1>11, CallsRun, ShortStays, ReturnsStays, RaisesStays, UndefinedStays, CompilesStays, CellsStay DEF forth_swap_handler
<1>12. QED
  BY <1>1, <1>2, <1>3, <1>4, <1>5, <1>6, <1>7, <1>8, <1>9,
     <1>10, <1>11 DEF ArithmeticWord

\* Compiling and defining words.
LEMMA CompilingStays ==
    ASSUME CompilingWord
    PROVE  status = "running" /\ Stays
<1>1. CASE postpone_handler
  BY <1>1, CallsRun, ShortStays, ReturnsStays, RaisesStays, UndefinedStays, CompilesStays, CellsStay DEF postpone_handler
<1>2. CASE literal_handler
  BY <1>2, CallsRun, ShortStays, ReturnsStays, RaisesStays, UndefinedStays, CompilesStays, CellsStay DEF literal_handler
<1>3. CASE left_bracket_handler
  BY <1>3, CallsRun, ShortStays, ReturnsStays, RaisesStays, UndefinedStays, CompilesStays, CellsStay DEF left_bracket_handler
<1>4. CASE immediate_handler
  BY <1>4, CallsRun, ShortStays, ReturnsStays, RaisesStays, UndefinedStays, CompilesStays, CellsStay DEF immediate_handler
<1>5. CASE exit_handler
  BY <1>5, CallsRun, ShortStays, ReturnsStays, RaisesStays, UndefinedStays, CompilesStays, CellsStay DEF exit_handler
<1>6. CASE recurse_handler
  BY <1>6, CallsRun, ShortStays, ReturnsStays, RaisesStays, UndefinedStays, CompilesStays, CellsStay DEF recurse_handler
<1>7. CASE paren_immediate_handler
  <2>1. status = "running"
    BY <1>7, CallsRun DEF paren_immediate_handler
  <2>2. \A k : DOMAIN [mem EXCEPT ![in_ptr] = k] = DOMAIN mem
    OBVIOUS
  <2>3. \E k : \/ Raises("MEMFAULT", [mem EXCEPT ![in_ptr] = k], Top)
               \/ Returns([mem EXCEPT ![in_ptr] = k], Top)
    BY <1>7 DEF paren_immediate_handler
  <2>4. Stays
    BY <2>2, <2>3, ReturnsStays, RaisesStays
  <2>5. QED
    BY <2>1, <2>4
<1>8. CASE tick_handler
  BY <1>8, CallsRun, ShortStays, ReturnsStays, RaisesStays, UndefinedStays, CompilesStays, CellsStay DEF tick_handler
<1>9. CASE bracket_tick_handler
  BY <1>9, CallsRun, ShortStays, ReturnsStays, RaisesStays, UndefinedStays, CompilesStays, CellsStay DEF bracket_tick_handler
<1>10. CASE execute_handler
  BY <1>10, CallsRun, ShortStays, UndefinedStays DEF execute_handler, Goto, Stays
<1>11. CASE allot_handler
  BY <1>11, CallsRun, ShortStays, ReturnsStays, RaisesStays, UndefinedStays, CompilesStays, CellsStay DEF allot_handler
<1>12. CASE variable_handler
  BY <1>12, CallsRun, ShortStays, ReturnsStays, RaisesStays, UndefinedStays, CompilesStays, CellsStay DEF variable_handler
<1>13. CASE constant_handler
  BY <1>13, CallsRun, ShortStays, ReturnsStays, RaisesStays, UndefinedStays, CompilesStays, CellsStay DEF constant_handler
<1>14. CASE constant_post_handler
  BY <1>14, CallsRun, ShortStays, ReturnsStays, RaisesStays, UndefinedStays, CompilesStays, CellsStay DEF constant_post_handler
<1>15. CASE forth_colon_handler
  BY <1>15, CallsRun, ShortStays, ReturnsStays, RaisesStays, UndefinedStays, CompilesStays, CellsStay DEF forth_colon_handler
<1>16. CASE forth_semicolon_handler
  BY <1>16, CallsRun, ShortStays, ReturnsStays, RaisesStays, UndefinedStays, CompilesStays, CellsStay DEF forth_semicolon_handler
<1>17. QED
  BY <1>1, <1>2, <1>3, <1>4, <1>5, <1>6, <1>7, <1>8, <1>9,
     <1>10, <1>11, <1>12, <1>13, <1>14, <1>15, <1>16 DEF CompilingWord

\* Control structures.
LEMMA ControlStays ==
    ASSUME ControlWord
    PROVE  status = "running" /\ Stays
<1>1. CASE forth_if_immediate_handler
  BY <1>1, CallsRun, ShortStays, ReturnsStays, RaisesStays, UndefinedStays, CompilesStays, CellsStay DEF forth_if_immediate_handler, CompilesHole
<1>2. CASE forth_do_immediate_handler
  BY <1>2, CallsRun, ShortStays, ReturnsStays, RaisesStays, UndefinedStays, CompilesStays, CellsStay DEF forth_do_immediate_handler, CompilesHole
<1>3. CASE forth_else_immediate_handler
  BY <1>3, CallsRun, ShortStays, ReturnsStays, RaisesStays, UndefinedStays, CompilesStays, CellsStay DEF forth_else_immediate_handler
<1>4. CASE forth_then_immediate_handler
  BY <1>4, CallsRun, ShortStays, ReturnsStays, RaisesStays, UndefinedStays, CompilesStays, CellsStay DEF forth_then_immediate_handler
<1>5. CASE forth_loop_immediate_handler
  BY <1>5, CallsRun, ShortStays, ReturnsStays, RaisesStays, UndefinedStays, CompilesStays, CellsStay DEF forth_loop_immediate_handler
<1>6. CASE forth_leave_immediate_handler
  BY <1>6, CallsRun, ShortStays, ReturnsStays, RaisesStays, UndefinedStays, CompilesStays, CellsStay DEF forth_leave_immediate_handler
<1>7. CASE forth_unloop_immediate_handler
  BY <1>7, CallsRun, ShortStays, ReturnsStays, RaisesStays, UndefinedStays, CompilesStays, CellsStay DEF forth_unloop_immediate_handler
<1>8. CASE forth_do_handler
  BY <1>8, CallsRun, ShortStays, UndefinedStays DEF forth_do_handler, Goto, Stays
<1>9. CASE forth_loop_handler
  BY <1>9, CallsRun, UndefinedStays DEF forth_loop_handler, NextTurn, Goto, Stays
<1>10. CASE forth_leave_handler
  BY <1>10, CallsRun, UndefinedStays DEF forth_leave_handler, NextTurn, Goto, Stays
<1>11. CASE forth_unloop_handler
  BY <1>11, CallsRun DEF forth_unloop_handler, Goto, Stays
<1>12. QED
  BY <1>1, <1>2, <1>3, <1>4, <1>5, <1>6, <1>7, <1>8, <1>9,
     <1>10, <1>11 DEF ControlWord

\* All C functions that print nothing.
LEMMA SilentStays ==
    ASSUME SilentWord
    PROVE  status = "running" /\ Stays /\ WordsUnchanged
<1>1. WordsUnchanged
  BY DEF SilentWord
<1>2. ASSUME dot_quote_immediate_handler
      PROVE  status = "running" /\ Stays
  <2>1. status = "running"
    BY <1>2, CallsRun DEF dot_quote_immediate_handler
  <2>2. \A k : DOMAIN [mem EXCEPT ![in_ptr] = k] = DOMAIN mem
    OBVIOUS
  <2>3. Undefined \/ \E k, ws : Compiles([mem EXCEPT ![in_ptr] = k], TextCopyPtr, ws, Top)
    BY <1>2 DEF dot_quote_immediate_handler
  <2>4. QED
    BY <2>1, <2>2, <2>3, UndefinedStays, CompilesStays
<1>3. ASSUME forth_dot_quote_post_handler
      PROVE  status = "running" /\ Stays
  BY <1>3, CallsRun, UndefinedStays DEF forth_dot_quote_post_handler, Goto, Stays
<1>4. QED
  BY <1>1, <1>2, <1>3, ArithmeticStays, CompilingStays, ControlStays DEF SilentWord

LEMMA PrintsStays ==
    ASSUME NEW ok, NEW items, NEW s, PrintsIf(ok, items, s)
    PROVE  Stays
  BY UndefinedStays, ReturnsStays DEF PrintsIf

\* Those that print.
LEMMA PrintingStays ==
    ASSUME PrintingWord
    PROVE  status = "running" /\ Stays /\ UNCHANGED <<strbuf, brackets>>
<1>1. CASE forth_emit
  BY <1>1, CallsRun, PrintsStays DEF forth_emit, PrintingWord
<1>2. CASE cr_handler
  BY <1>2, CallsRun, PrintsStays DEF cr_handler, PrintingWord
<1>3. CASE forth_output_data
  BY <1>3, CallsRun, PrintsStays DEF forth_output_data, PrintingWord
<1>4. CASE forth_dot_handler
  BY <1>4, CallsRun, ShortStays, PrintsStays DEF forth_dot_handler, PrintingWord
<1>5. CASE words_handler
  BY <1>5, CallsRun, PrintsStays DEF words_handler, PrintingWord
<1>6. CASE forth_key
  BY <1>6, CallsRun, ReturnsStays DEF forth_key, PrintingWord
<1>7. CASE custom_function
  BY <1>7, CallsRun, PrintsStays DEF custom_function, PrintingWord
<1>8. QED
  BY <1>1, <1>2, <1>3, <1>4, <1>5, <1>6, <1>7 DEF PrintingWord

\* ] starts the machine inside itself.
LEMMA BracketStays ==
    ASSUME right_bracket_handler
    PROVE  status = "running" /\ Stays
<1>1. status = "running"
  BY CallsRun DEF right_bracket_handler
<1>2. CASE Undefined
  BY <1>1, <1>2, UndefinedStays
<1>3. CASE mem' = Appended(mem, sandbox_ptr, <<Op.QUIT>>) /\ vm_start(SandboxBase)
  BY <1>1, <1>3, CellsStay DEF vm_start, Stays
<1>4. QED
  BY <1>2, <1>3 DEF right_bracket_handler
-----------------------------------------------------------------------------
(* The invariant. *)

\* The shell's variables have cells of their own.
LEMMA ShellVariables ==
    /\ in_ptr \in Memory /\ sandbox_ptr \in Memory /\ state_ptr \in Memory
    /\ in_ptr # sandbox_ptr
<1>1. DictBase \in Nat
  BY DictAssumption
<1>2. DictBase .. LastSystemCell \subseteq Memory
  BY SystemAssumption DEF Memory, Cells
<1>3. /\ in_ptr \in DictBase .. LastSystemCell /\ sandbox_ptr \in DictBase .. LastSystemCell
      /\ state_ptr \in DictBase .. LastSystemCell /\ in_ptr # sandbox_ptr
  BY <1>1 DEF in_ptr, sandbox_ptr, state_ptr, LastSystemCell
<1>4. QED
  BY <1>2, <1>3

\* What forth_vm_reload leaves in the shell's variables.
LEMMA ReloadedIs ==
    ASSUME DOMAIN mem = Memory
    PROVE  /\ DOMAIN Reloaded = Memory
           /\ Reloaded[in_ptr] = 0 /\ Reloaded[sandbox_ptr] = SandboxBase - 1
  BY ShellVariables DEF Reloaded

LEMMA InitFresh == Init => FreshInv
  BY DEF Init, vm_init, FreshInv

-----------------------------------------------------------------------------
(* Steps of the machine. *)

\* A step of the machine, in a line or an immediate word.
LEMMA MachineKeepsInv ==
    ASSUME FreshInv, at \in {"immediate", "run"}, UNCHANGED <<job, at, typed>>,
           status # "undefined", DOMAIN mem' = DOMAIN mem,
           \/ status' \in {"running", "undefined"}
           \/ status' = "idle" /\ rsp' = RStackTop
    PROVE  FreshInv'
  BY DEF FreshInv

LEMMA VMStepKeepsInv ==
    ASSUME FreshInv, VMStep
    PROVE  FreshInv'
<1>1. UNCHANGED <<job, at, typed>>
  BY DEF VMStep
<1>2. CASE Instruction
  <2>1. status = "running" /\ Stays
    BY <1>2, InstructionStays
  <2>2. QED
    BY <1>1, <2>1, MachineKeepsInv DEF Stays, FreshInv
<1>3. CASE Leave
  BY <1>1, <1>3, MachineKeepsInv DEF Leave, FreshInv
<1>4. QED
  BY <1>2, <1>3 DEF VMStep

LEMMA NativeStepKeepsInv ==
    ASSUME FreshInv, NativeStep
    PROVE  FreshInv'
<1>1. UNCHANGED <<job, at, typed>>
  BY DEF NativeStep
<1>2. CASE Native
  <2>1. status = "running" /\ Stays
    BY <1>2, SilentStays, PrintingStays, BracketStays DEF Native
  <2>2. QED
    BY <1>1, <2>1, MachineKeepsInv DEF Stays, FreshInv
<1>3. CASE right_bracket_returns
  <2>1. status = "idle" /\ brackets # <<>> /\ status' = "running" /\ DOMAIN mem' = DOMAIN mem
    BY <1>3 DEF right_bracket_returns, vm_start
  <2>2. QED
    BY <1>1, <2>1, MachineKeepsInv DEF FreshInv
<1>4. QED
  BY <1>2, <1>3 DEF NativeStep

-----------------------------------------------------------------------------
(* Steps of the compiler. *)

\* A step of the compiler leaves the machine at rest, or starts it for an
\* immediate word.
CompilerStep ==
    /\ HostIdle /\ at = "word"
    /\ DOMAIN mem' = DOMAIN mem
    /\ UNCHANGED <<rsp, brackets, job, typed>>
    /\ \/ at' = "immediate" /\ status' = "running"
       \/ at' \in {"word", "compiled"} /\ status' \in {"idle", "undefined"}

LEMMA RejectsIs ==
    ASSUME NEW e, HostIdle, at = "word", Rejects(e)
    PROVE  CompilerStep
  BY CellsStay DEF HostIdle, Rejects, MachineUnchanged, WordsUnchanged, wordVars, CompilerStep

LEMMA CompilesCodeIs ==
    ASSUME NEW ws, HostIdle, at = "word", CompilesCode(ws)
    PROVE  CompilerStep
<1>1. DOMAIN mem' = DOMAIN mem
  BY CellsStay DEF CompilesCode
<1>2. status' \in {"idle", "undefined"}
  BY DEF CompilesCode, HostIdle
<1>3. UNCHANGED <<rsp, brackets, job, at, typed>>
  BY DEF CompilesCode, MachineUnchanged, WordsUnchanged, wordVars
<1>4. QED
  BY <1>1, <1>2, <1>3 DEF CompilerStep

LEMMA PushImmediateIs ==
    ASSUME NEW command, HostIdle, at = "word", PushImmediate(command)
    PROVE  CompilerStep
<1>1. \A v : DOMAIN [TokenRead EXCEPT ![sp - 1] = v] = DOMAIN mem
  BY CellsStay
<1>2. mem' = mem \/ \E v : mem' = [TokenRead EXCEPT ![sp - 1] = v]
  BY DEF PushImmediate
<1>3. status' \in {"idle", "undefined"}
  BY DEF PushImmediate, HostIdle
<1>4. UNCHANGED <<rsp, brackets, job, at, typed>>
  BY DEF PushImmediate, WordsUnchanged, wordVars
<1>5. QED
  BY <1>1, <1>2, <1>3, <1>4 DEF CompilerStep

LEMMA CompileIs ==
    ASSUME forth_compile
    PROVE  CompilerStep
<1>1. HostIdle /\ at = "word"
  BY DEF forth_compile, Compiling
<1>2. \/ \E e : Rejects(e)
      \/ \E ws : CompilesCode(ws)
      \/ \E command : RunImmediate(command) \/ PushImmediate(command)
      \/ StopsUndefined
  BY DEF forth_compile, RejectState, RejectCompileOnly, RejectUnknown, CompileWord, CompileNumber
<1>3. ASSUME NEW command, RunImmediate(command)
      PROVE  CompilerStep
  BY <1>1, <1>3, CellsStay DEF RunImmediate, vm_start, WordsUnchanged, wordVars, CompilerStep
<1>4. ASSUME StopsUndefined
      PROVE  CompilerStep
  BY <1>1, <1>4 DEF StopsUndefined, Undefined, WordsUnchanged, wordVars, CompilerStep
<1>5. QED
  BY <1>1, <1>2, <1>3, <1>4, RejectsIs, CompilesCodeIs, PushImmediateIs

LEMMA CompileLineKeepsInv ==
    ASSUME FreshInv, CompileLine
    PROVE  FreshInv'
<1>1. CASE CompilerStep
  BY <1>1 DEF CompilerStep, HostIdle, FreshInv
<1>2. CASE ImmediateReturns
  BY <1>2 DEF ImmediateReturns, HostIdle, MachineUnchanged, WordsUnchanged, wordVars, FreshInv
<1>3. CASE EndOfLine
  <2>1. HostIdle /\ at = "word" /\ at' = "compiled"
    BY <1>3 DEF EndOfLine
  <2>2. DOMAIN mem' = DOMAIN mem
    BY <1>3, CellsStay DEF EndOfLine
  <2>3. status' \in {"idle", "undefined"}
    BY <1>3 DEF EndOfLine, HostIdle
  <2>4. UNCHANGED <<rsp, brackets, job, typed>>
    BY <1>3 DEF EndOfLine, MachineUnchanged, WordsUnchanged, wordVars
  <2>5. CompilerStep
    BY <2>1, <2>2, <2>3, <2>4 DEF CompilerStep
  <2>6. QED
    BY <1>1, <2>5
<1>4. QED
  BY <1>1, <1>2, <1>3, CompileIs DEF CompileLine

-----------------------------------------------------------------------------
(* Steps of the loop. *)

\* Reports and returns reload.
LEMMA ReportsKeepInv ==
    ASSUME FreshInv, HostIdle, at \in {"compiled", "run"}, job # "banner", NEW line, Reports(line)
    PROVE  FreshInv'
<1>1. DOMAIN mem' = Memory
  BY ReloadedIs DEF Reports, FreshInv
<1>2. /\ status' = "idle" /\ brackets' = <<>> /\ rsp' = rsp /\ at' = "word" /\ job' = "report"
  BY DEF Reports, HostIdle, Issues, MachineUnchanged
<1>3. QED
  BY <1>1, <1>2 DEF FreshInv, HostIdle

LEMMA ReturningKeepsInv ==
    ASSUME FreshInv, HostIdle, job # "banner", Returning
    PROVE  FreshInv'
<1>1. DOMAIN mem' = Memory /\ Clean'
  <2>1. mem' = Reloaded /\ strbuf' = <<>> /\ DOMAIN mem = Memory
    BY DEF Returning, FreshInv
  <2>2. mem'[in_ptr] = 0 /\ mem'[sandbox_ptr] = SandboxBase - 1
    BY <2>1, ReloadedIs
  <2>3. QED
    BY <2>1, <2>2, ReloadedIs DEF Clean, in_ptr, sandbox_ptr
<1>2. status' = "idle" /\ brackets' = <<>> /\ rsp' = rsp /\ flags' = {} /\ job' = job
  BY DEF Returning, HostIdle, MachineUnchanged
<1>3. at' \in {"process", "exit"}
  BY DEF Returning
<1>4. QED
  BY <1>1, <1>2, <1>3 DEF FreshInv, HostIdle

LEMMA PromptUserKeepsInv ==
    ASSUME FreshInv, PromptUser
    PROVE  FreshInv'
<1>1. HostIdle /\ at = "process" /\ UNCHANGED <<sp, rsp, mem, flags, status, brackets, typed>>
  BY DEF PromptUser, MachineUnchanged
<1>2. CASE Issues("prompt", Prompt)
  BY <1>1, <1>2 DEF Issues, FreshInv, HostIdle
<1>3. CASE at' = "line" /\ UNCHANGED <<strbuf, job, err, kept>>
  <2>1. Clean => Clean'
    BY <1>1, <1>3 DEF Clean, in_ptr, sandbox_ptr
  <2>2. QED
    BY <1>1, <1>3, <2>1 DEF FreshInv, HostIdle
<1>4. QED
  BY <1>2, <1>3 DEF PromptUser

LEMMA ReadLineKeepsInv ==
    ASSUME FreshInv, ReadLine
    PROVE  FreshInv'
<1>1. HostIdle /\ at = "line" /\ UNCHANGED <<rsp, mem, flags, brackets>>
  BY DEF ReadLine, MachineUnchanged
<1>2. \/ status' = "undefined"
      \/ status' = status /\ at' = "word" /\ job' = "line"
      \/ status' = status /\ at' = "exit"
  BY DEF ReadLine, Issues
<1>3. QED
  BY <1>1, <1>2 DEF FreshInv, HostIdle

LEMMA RunKeepsInv ==
    ASSUME FreshInv, HostIdle, at = "compiled", RunSandbox
    PROVE  FreshInv'
  BY DEF RunSandbox, vm_start, WordsUnchanged, wordVars, FreshInv, HostIdle

LEMMA PromptPrintedKeepsInv ==
    ASSUME FreshInv, PromptPrinted
    PROVE  FreshInv'
<1>1. /\ HostIdle /\ job = "prompt" /\ mem' = Reloaded /\ strbuf' = <<>> /\ flags' = {}
      /\ at' = "line" /\ UNCHANGED <<rsp, status, brackets, job, typed>>
  BY DEF PromptPrinted, MachineUnchanged
<1>2. DOMAIN mem' = Memory /\ mem'[in_ptr] = 0 /\ mem'[sandbox_ptr] = SandboxBase - 1
  BY <1>1, ReloadedIs DEF FreshInv
<1>3. Clean'
  BY <1>1, <1>2 DEF Clean, in_ptr, sandbox_ptr
<1>4. QED
  BY <1>1, <1>2, <1>3 DEF FreshInv, HostIdle

LEMMA BannerPrintedKeepsInv ==
    ASSUME FreshInv, BannerPrinted
    PROVE  FreshInv'
<1>1. /\ HostIdle /\ job = "banner" /\ at = "run" /\ at' = "process" /\ flags' = {}
      /\ UNCHANGED <<rsp, brackets, job, typed>> /\ status' \in {"idle", "undefined"}
  BY DEF BannerPrinted, MachineUnchanged, HostIdle
<1>2. typed = <<>>
  BY <1>1 DEF FreshInv, HostIdle
<1>3. DOMAIN mem' = Memory
  BY ReloadedIs, CellsStay DEF BannerPrinted, FreshInv
<1>4. QED
  BY <1>1, <1>2, <1>3 DEF FreshInv, HostIdle

LEMMA ProcessKeepsInv ==
    ASSUME FreshInv, Process
    PROVE  FreshInv'
<1>1. CASE LineCompiled \/ ReportCompiled
  BY <1>1, RunKeepsInv DEF LineCompiled, ReportCompiled
<1>2. CASE LineRejected
  BY <1>2, ReportsKeepInv, ReturningKeepsInv DEF LineRejected
<1>3. CASE LineRan
  BY <1>3, ReportsKeepInv, ReturningKeepsInv DEF LineRan
<1>4. CASE ReportPrinted
  BY <1>4, ReturningKeepsInv DEF ReportPrinted
<1>5. QED
  BY <1>1, <1>2, <1>3, <1>4, PromptUserKeepsInv, ReadLineKeepsInv, PromptPrintedKeepsInv,
     BannerPrintedKeepsInv DEF Process

LEMMA NextKeepsFresh == FreshInv /\ [Next]_shellVars => FreshInv'
<1> SUFFICES ASSUME FreshInv, [Next]_shellVars PROVE FreshInv'
  OBVIOUS
<1>1. CASE UNCHANGED shellVars
  <2>1. UNCHANGED <<mem, rsp, flags, status, strbuf, brackets, job, at, typed>>
    BY <1>1 DEF shellVars, vmVars, wordVars
  <2>2. Clean' <=> Clean
    BY <2>1 DEF Clean, in_ptr, sandbox_ptr
  <2>3. QED
    BY <2>1, <2>2 DEF FreshInv
<1>2. CASE Over
  BY <1>1, <1>2 DEF Over
<1>3. QED
  BY <1>1, <1>2, VMStepKeepsInv, NativeStepKeepsInv, CompileLineKeepsInv, ProcessKeepsInv
     DEF Next, Running

-----------------------------------------------------------------------------
(* The theorem. *)

\* Whatever the lines before did, and wherever they were stopped, the next line
\* finds the flags cleared, an empty return stack, an empty buffer read from its
\* start and an empty sandbox: for every layout of memory, spelling and session.
THEOREM LinesStartFresh == Spec => []StartsFresh
<1>1. Spec => []FreshInv
  BY InitFresh, NextKeepsFresh, PTL DEF Spec
<1>2. FreshInv => StartsFresh
  BY DEF FreshInv, StartsFresh, Clean, HostIdle
<1>3. QED
  BY <1>1, <1>2, PTL

-----------------------------------------------------------------------------
(* Types: words.                                                            *)

\* Modulus is the number of values of some whole bytes.
LEMMA ModulusIs == Modulus \in Nat /\ Modulus >= 256 /\ Modulus % 256 = 0
<1>1. Modulus \in Nat /\ Modulus > 1 /\ Modulus % 256 = 0
  BY ModulusAssumption, WordAssumption
<1>2. Modulus = 256 * (Modulus \div 256) + (Modulus % 256) /\ Modulus \div 256 \in Int
  BY <1>1
<1>3. QED
  BY <1>1, <1>2

LEMMA ByteIsWord == \A n \in 0 .. 255 : n \in Word
  BY ModulusIs DEF Word

LEMMA OpIsWord == \A f \in DOMAIN Op : Op[f] \in Word
<1>1. \A f \in DOMAIN Op : Op[f] \in 0 .. 255
  BY DEF Op
<1>2. QED
  BY <1>1, ByteIsWord

LEMMA FnIsWord == \A f \in DOMAIN Fn : Fn[f] \in Word
<1>1. \A f \in DOMAIN Fn : Fn[f] \in 0 .. 255
  BY DEF Fn
<1>2. QED
  BY <1>1, ByteIsWord

LEMMA NameIsWord == \A token \in Tokens : Name[token] \in Word
  BY WordAssumption

LEMMA BasesAreWords ==
    /\ SandboxBase \in Word /\ SandboxBase - 1 \in Word /\ DictBase \in Word
    /\ DictBase + 52 \in Word /\ StrbufSize \in Word
<1>1. SandboxBase \in Nat \ {0} /\ SandboxSize \in Nat /\ DictBase = SandboxBase + SandboxSize
  BY DictAssumption
<1>2. DictBase + 52 \in DictBase .. LastSystemCell
  BY <1>1 DEF LastSystemCell
<1>3. DictBase + 52 \in Word
  BY <1>2, SystemAssumption, LayoutAssumption
<1>4. StrbufSize \in Word
  BY DictAssumption, ModulusIs DEF Word
<1>5. QED
  BY <1>1, <1>3, <1>4, ModulusIs DEF Word

LEMMA PlacesAreCells ==
    /\ \A p \in Places : p \in Ram /\ p \in Cells /\ p \in Memory /\ p \in Word
    /\ output_text \in Word
<1>1. DictBase \in Nat
  BY DictAssumption
<1>2. \A p \in Places \cup {output_text} : p \in DictBase .. LastSystemCell
  BY <1>1 DEF Places, forth_ptr, here_ptr, in_ptr, state_ptr, sandbox_ptr, i_var, j_var,
              output_text, LastSystemCell
<1>3. \A p \in Places \cup {output_text} : p \in Ram /\ p \in Word
  BY <1>2, SystemAssumption, LayoutAssumption
<1>4. QED
  BY <1>3 DEF Memory, Cells

LEMMA PlacesDiffer ==
    /\ here_ptr # forth_ptr /\ here_ptr # in_ptr /\ here_ptr # state_ptr
    /\ here_ptr # sandbox_ptr /\ sandbox_ptr # in_ptr /\ sandbox_ptr # state_ptr
    /\ forth_ptr # in_ptr /\ forth_ptr # state_ptr /\ forth_ptr # sandbox_ptr
    /\ in_ptr # state_ptr
<1>1. DictBase \in Nat
  BY DictAssumption
<1>2. QED
  BY <1>1 DEF forth_ptr, here_ptr, in_ptr, state_ptr, sandbox_ptr

\* The powers of two by which a word is shifted.
LEMMA PowerIs == \A n \in 0 .. Modulus : Power[n] \in Nat /\ Power[n] > 0
<1> DEFINE Pos == Nat \ {0}
           F == [n \in 1 .. Modulus |-> [x \in Pos |-> 2 * x]]
           Def(f) == f = [n \in 0 .. Modulus |-> IF n = 0 THEN 1 ELSE 2 * f[n - 1]]
           power == CHOOSE f : Def(f)
<1>1. Power = power
  BY DEF Power
<1>2. Steps(Modulus, Pos, 1, F)
  <2>1. [x \in Pos |-> 2 * x] \in [Pos -> Pos]
    OBVIOUS
  <2>2. QED
    BY <2>1, ModulusIs DEF Steps
<1>3. PICK f : Records(Modulus, Pos, 1, F, f)
  <2> HIDE DEF F, Pos
  <2>1. QED
    BY <1>2, Iterates
<1>4. /\ f \in [0 .. Modulus -> Pos] /\ f[0] = 1
      /\ \A n \in 1 .. Modulus : f[n] = 2 * f[n - 1]
  <2>1. \A n \in 1 .. Modulus : f[n - 1] \in Pos
    BY <1>3, ModulusIs DEF Records
  <2>2. QED
    BY <1>3, <2>1 DEF Records
<1> HIDE DEF F
<1>5. Def(f)
  <2>1. \A n \in 0 .. Modulus : n = 0 \/ n \in 1 .. Modulus
    BY ModulusIs
  <2>2. f = [n \in 0 .. Modulus |-> f[n]]
    BY <1>4
  <2>3. QED
    BY <1>4, <2>1, <2>2
<1>6. Def(power)
  <2> HIDE DEF Def
  <2>1. QED
    BY <1>5
<1> HIDE DEF power
<1> DEFINE T == {n \in 0 .. Modulus : power[n] \in Pos}
<1>7. 0 \in T
  BY <1>6, ModulusIs
<1>8. ASSUME NEW n \in 0 .. (Modulus - 1), n \in T
      PROVE  n + 1 \in T
  <2>1. n + 1 \in 0 .. Modulus /\ n + 1 # 0 /\ (n + 1) - 1 = n
    BY ModulusIs
  <2>2. power[n + 1] = 2 * power[n]
    BY <1>6, <2>1
  <2>3. QED
    BY <1>8, <2>1, <2>2
<1> HIDE DEF T
<1>9. \A n \in 0 .. Modulus : n \in T
  BY <1>7, <1>8, ModulusIs, IntervalInduction
<1>10. QED
  BY <1>1, <1>9 DEF T

\* A word divided by anything positive is a word.
LEMMA ShiftedIsWord == \A a \in Word : \A b \in Nat : b > 0 => a \div b \in Word
<1> SUFFICES ASSUME NEW a \in Word, NEW b \in Nat, b > 0 PROVE a \div b \in Word
  OBVIOUS
<1>1. a \in Nat /\ a < Modulus
  BY ModulusIs DEF Word
<1> DEFINE q == a \div b
<1>2. q \in Int /\ a = b * q + (a % b) /\ a % b \in 0 .. (b - 1)
  BY <1>1
<1>3. q >= 0
  BY <1>1, <1>2
<1> HIDE DEF q
<1>4. q <= b * q
  BY <1>2, <1>3
<1>5. q <= a
  BY <1>1, <1>2, <1>4
<1>6. q \in Word
  BY <1>1, <1>2, <1>3, <1>5, ModulusIs DEF Word
<1>7. QED
  BY <1>6 DEF q

\* A sum or a difference, reduced, is a word.
LEMMA SumIsWord == \A a, b \in Int : (a + b) % Modulus \in Word /\ (a - b) % Modulus \in Word
<1>1. \A a, b \in Int : a + b \in Int /\ a - b \in Int
  OBVIOUS
<1>2. QED
  BY <1>1, ModIsWord

LEMMA TextPtrIsWord == \A h \in Int : TextPtr(h) \in Word
  BY SumIsWord DEF TextPtr

-----------------------------------------------------------------------------
(* Types: what C functions do to memory.                                    *)

MemoryOK(m) == m \in [Memory -> Word]

\* What is compiled: words.
IsCode(ws) == Len(ws) \in Nat /\ \A i \in 1 .. Len(ws) : ws[i] \in Word

LEMMA WordsAreCode == \A ws \in Seq(Word) : IsCode(ws)
  BY DEF IsCode

LEMMA OneStored ==
    ASSUME NEW m, MemoryOK(m), NEW a, NEW v \in Word
    PROVE  MemoryOK([m EXCEPT ![a] = v])
  BY DEF MemoryOK

LEMMA TwoStored ==
    ASSUME NEW m, MemoryOK(m), NEW a, NEW v \in Word, NEW b, NEW w \in Word
    PROVE  MemoryOK([m EXCEPT ![a] = v, ![b] = w])
  BY DEF MemoryOK

LEMMA AppendedTyped ==
    ASSUME NEW m, MemoryOK(m), NEW p \in Memory, NEW ws, IsCode(ws), Fits(m, p, Len(ws))
    PROVE  MemoryOK(Appended(m, p, ws))
<1> DEFINE n == Len(ws)
           h == m[p]
<1>1. n \in Nat /\ h \in Word /\ h \in Int
  BY WordIsInt DEF IsCode, MemoryOK
<1>2. h + n \in Word
  <2>1. CASE n = 0
    BY <1>1, <2>1, ModulusIs DEF Word
  <2>2. CASE n # 0
    <3>1. h + n \in h + 1 .. h + n
      BY <1>1, <2>2
    <3>2. QED
      BY <3>1, LayoutAssumption DEF Fits
  <2>3. QED
    BY <2>1, <2>2
<1>3. \A a \in h + 1 .. h + n : a - h \in 1 .. n
  BY <1>1
<1>4. \A a \in h + 1 .. h + n : ws[a - h] \in Word
  BY <1>3 DEF IsCode
<1>5. DOMAIN m = Memory /\ \A a \in Memory : m[a] \in Word
  BY DEF MemoryOK
<1>6. Appended(m, p, ws) =
        [a \in Memory |-> IF a = p THEN h + n
                          ELSE IF a \in h + 1 .. h + n THEN ws[a - h] ELSE m[a]]
  BY <1>5 DEF Appended
<1> HIDE DEF n, h
<1>7. QED
  BY <1>2, <1>4, <1>5, <1>6 DEF MemoryOK

\* What is written behind the name and the link.
LEMMA HeaderIsCode ==
    ASSUME NEW flag \in 0 .. 15, NEW name \in Word, NEW link \in Word, NEW ws \in Seq(Word)
    PROVE  /\ IsCode(<<HeaderMark + flag, name, link>> \o ws)
           /\ Len(<<HeaderMark + flag, name, link>> \o ws) = Len(ws) + 3
<1>1. HeaderMark + flag \in 0 .. 255
  BY DEF HeaderMark
<1>2. HeaderMark + flag \in Word
  BY <1>1, ByteIsWord
<1> DEFINE hs == <<HeaderMark + flag, name, link>>
<1>3. hs \in Seq(Word) /\ Len(hs) = 3
  BY <1>2
<1> HIDE DEF hs
<1>4. hs \o ws \in Seq(Word) /\ Len(hs \o ws) = Len(hs) + Len(ws)
  BY <1>3, ConcatProperties
<1>5. Len(ws) \in Nat
  OBVIOUS
<1>6. Len(hs \o ws) = Len(ws) + 3
  BY <1>3, <1>4, <1>5
<1>7. QED
  BY <1>4, <1>6, WordsAreCode DEF hs

LEMMA AddedTyped ==
    ASSUME NEW m, MemoryOK(m), NEW flag \in 0 .. 15, NEW token \in Tokens, NEW ws \in Seq(Word),
           Fits(m, here_ptr, Len(ws) + 3)
    PROVE  MemoryOK(Added(m, flag, token, ws))
<1> DEFINE all == <<HeaderMark + flag, Name[token], m[forth_ptr]>> \o ws
<1>1. here_ptr \in Memory /\ forth_ptr \in Memory
  BY PlacesAreCells DEF Places
<1>2. Name[token] \in Word /\ m[forth_ptr] \in Word
  BY <1>1, NameIsWord DEF MemoryOK
<1>3. IsCode(all) /\ Len(all) = Len(ws) + 3
  BY <1>2, HeaderIsCode
<1>4. Added(m, flag, token, ws) = [Appended(m, here_ptr, all) EXCEPT ![forth_ptr] = m[here_ptr] + 1]
  BY DEF Added
<1> HIDE DEF all
<1>5. MemoryOK(Appended(m, here_ptr, all))
  BY <1>1, <1>3, AppendedTyped
<1>6. m[here_ptr] + 1 \in Word
  <2>1. m[here_ptr] \in Word /\ m[here_ptr] \in Int
    BY <1>1, WordIsInt DEF MemoryOK
  <2>2. Len(ws) \in Nat
    OBVIOUS
  <2>3. m[here_ptr] + 1 \in m[here_ptr] + 1 .. m[here_ptr] + (Len(ws) + 3)
    BY <2>1, <2>2
  <2>4. QED
    BY <2>3, LayoutAssumption DEF Fits
<1> DEFINE m2 == Appended(m, here_ptr, all)
           w  == m[here_ptr] + 1
<1> HIDE DEF m2, w
<1>7. MemoryOK(m2) /\ w \in Word
  BY <1>5, <1>6 DEF m2, w
<1>8. MemoryOK([m2 EXCEPT ![forth_ptr] = w])
  BY <1>7, OneStored
<1>9. QED
  BY <1>4, <1>8 DEF m2, w

\* The token read last is one that has a name.
LEMMA TokenIsToken ==
    ASSUME ShellTypeOK, Token # NoToken
    PROVE  Token \in Tokens
<1>1. mem[in_ptr] \in Nat
  BY PlacesAreCells, ModulusIs DEF Places, ShellTypeOK, RegistersOK, Word
<1>2. CASE mem[in_ptr] >= StrbufSize
  BY <1>2, DictAssumption DEF Token
<1>3. CASE ~(mem[in_ptr] >= StrbufSize)
  <2>1. mem[in_ptr] < Len(strbuf) /\ Token = strbuf[mem[in_ptr] + 1]
    BY <1>3 DEF Token
  <2>2. strbuf \in Seq(Tokens) /\ Len(strbuf) \in Nat
    BY DEF ShellTypeOK
  <2>3. mem[in_ptr] + 1 \in 1 .. Len(strbuf)
    BY <1>1, <2>1, <2>2
  <2>4. QED
    BY <2>1, <2>2, <2>3
<1>4. QED
  BY <1>2, <1>3

LEMMA TokenReadTyped ==
    ASSUME RegistersOK
    PROVE  MemoryOK(TokenRead)
<1>1. MemoryOK(mem) /\ mem[in_ptr] \in Word /\ mem[in_ptr] \in Int
  BY PlacesAreCells, WordIsInt DEF Places, MemoryOK, RegistersOK
<1>2. (mem[in_ptr] + 1) % Modulus \in Word
  BY <1>1, SumIsWord
<1>3. QED
  BY <1>1, <1>2, OneStored DEF TokenRead

\* Reading a token changes none of the other variables.
LEMMA TokenReadKeeps ==
    \A a : a # in_ptr /\ a \in DOMAIN mem => TokenRead[a] = mem[a]
  BY DEF TokenRead

\* The search of the dictionary ends: with a header, with 0, or Lost.
LEMMA WalkedTyped ==
    ASSUME RegistersOK, NEW names
    PROVE  Walked(names) \in [Word -> Word \cup {Lost}]
<1> DEFINE Found == [Word -> Word \cup {Lost}]
           Ends(a) == IF a = 0 THEN 0 ELSE Lost
           Step(f, a) == IF a = 0 THEN 0
                         ELSE IF ~IsHeader(a) THEN Lost
                         ELSE IF NameField(a) \in names THEN a
                         ELSE f[LinkField(a)]
           F == [n \in 1 .. Modulus |-> [f \in Found |-> [a \in Word |-> Step(f, a)]]]
           Def(w) == w = [n \in 0 .. Modulus |->
                            [a \in Word |-> IF a = 0 THEN 0
                            ELSE IF n = 0 \/ ~IsHeader(a) THEN Lost
                            ELSE IF NameField(a) \in names THEN a
                            ELSE w[n - 1][LinkField(a)]]]
           walk == CHOOSE w : Def(w)
<1>1. Walked(names) = walk[Modulus]
  BY DEF Walked
<1>2. 0 \in Word
  BY ByteIsWord
<1>3. [a \in Word |-> Ends(a)] \in Found
  BY <1>2
<1>4. ASSUME NEW f \in Found, NEW a \in Word
      PROVE  Step(f, a) \in Word \cup {Lost}
  <2>1. IsHeader(a) => LinkField(a) \in Word
    BY LoadIsWord DEF IsHeader, LinkField, Readable
  <2>2. QED
    BY <1>2, <2>1
<1>5. Steps(Modulus, Found, [a \in Word |-> Ends(a)], F)
  <2>1. \A f \in Found : [a \in Word |-> Step(f, a)] \in Found
    BY <1>4
  <2> HIDE DEF Found, Step
  <2>2. [f \in Found |-> [a \in Word |-> Step(f, a)]] \in [Found -> Found]
    BY <2>1
  <2>3. QED
    BY <1>3, <2>2, ModulusIs DEF Steps
<1>6. PICK w : Records(Modulus, Found, [a \in Word |-> Ends(a)], F, w)
  <2> HIDE DEF F, Found, Ends
  <2>1. QED
    BY <1>5, Iterates
<1>7. /\ w \in [0 .. Modulus -> Found] /\ w[0] = [a \in Word |-> Ends(a)]
      /\ \A n \in 1 .. Modulus : w[n] = [a \in Word |-> Step(w[n - 1], a)]
  <2> HIDE DEF Found, Step, Ends
  <2>1. \A n \in 1 .. Modulus : w[n - 1] \in Found
    BY <1>6, ModulusIs DEF Records
  <2>2. QED
    BY <1>6, <2>1 DEF Records
<1> HIDE DEF F
<1>8. Def(w)
  <2> DEFINE V(n) == [a \in Word |-> IF a = 0 THEN 0
                            ELSE IF n = 0 \/ ~IsHeader(a) THEN Lost
                            ELSE IF NameField(a) \in names THEN a
                            ELSE w[n - 1][LinkField(a)]]
  <2>1. w = [n \in 0 .. Modulus |-> w[n]]
    BY <1>7
  <2>2. w[0] = V(0)
    BY <1>7
  <2>3. ASSUME NEW n \in 1 .. Modulus PROVE w[n] = V(n)
    <3>1. n # 0
      BY ModulusIs
    <3>2. \A a \in Word : Step(w[n - 1], a) = V(n)[a]
      BY <3>1
    <3>3. V(n) = [a \in Word |-> V(n)[a]]
      OBVIOUS
    <3> HIDE DEF V, Step
    <3>4. QED
      BY <1>7, <3>2, <3>3
  <2>4. \A n \in 0 .. Modulus : n = 0 \/ n \in 1 .. Modulus
    BY ModulusIs
  <2> HIDE DEF V
  <2>5. \A n \in 0 .. Modulus : w[n] = V(n)
    BY <2>2, <2>3, <2>4
  <2>6. w = [n \in 0 .. Modulus |-> V(n)]
    BY <2>1, <2>5
  <2>7. QED
    BY <2>6 DEF V
<1>9. Def(walk)
  <2> HIDE DEF Def
  <2>1. QED
    BY <1>8
<1> HIDE DEF walk
<1> DEFINE T == {n \in 0 .. Modulus : walk[n] \in Found}
<1>10. 0 \in T
  <2>1. 0 \in 0 .. Modulus
    BY ModulusIs
  <2>2. walk[0] = [a \in Word |-> Ends(a)]
    BY <1>9, <2>1
  <2>3. QED
    BY <1>3, <2>1, <2>2
<1>11. ASSUME NEW n \in 0 .. (Modulus - 1), n \in T
       PROVE  n + 1 \in T
  <2>1. n + 1 \in 0 .. Modulus /\ n + 1 # 0 /\ (n + 1) - 1 = n
    BY ModulusIs
  <2> DEFINE V == [a \in Word |-> IF a = 0 THEN 0
                            ELSE IF n + 1 = 0 \/ ~IsHeader(a) THEN Lost
                            ELSE IF NameField(a) \in names THEN a
                            ELSE walk[(n + 1) - 1][LinkField(a)]]
  <2>7. walk[n + 1] = V
    BY <1>9, <2>1
  <2>8. \A a \in Word : V[a] = Step(walk[n], a)
    BY <2>1
  <2>9. V = [a \in Word |-> V[a]]
    OBVIOUS
  <2>10. [a \in Word |-> V[a]] = [a \in Word |-> Step(walk[n], a)]
    <3> HIDE DEF V, Step
    <3>1. QED
      BY <2>8
  <2>2. walk[n + 1] = [a \in Word |-> Step(walk[n], a)]
    <3> HIDE DEF V, Step
    <3>1. QED
      BY <2>7, <2>9, <2>10
  <2>3. walk[n] \in Found
    BY <1>11
  <2> HIDE DEF Found, Step, Def
  <2>4. \A a \in Word : Step(walk[n], a) \in Word \cup {Lost}
    BY <1>4, <2>3
  <2>5. [a \in Word |-> Step(walk[n], a)] \in Found
    BY <2>4 DEF Found
  <2>6. QED
    BY <2>1, <2>2, <2>5
<1> HIDE DEF T, Found, Def
<1>12. \A n \in 0 .. Modulus : n \in T
  BY <1>10, <1>11, ModulusIs, IntervalInduction
<1>13. Modulus \in 0 .. Modulus
  BY ModulusIs
<1>14. QED
  BY <1>1, <1>12, <1>13 DEF T, Found

LEMMA SearchTyped ==
    ASSUME RegistersOK, NEW token
    PROVE  forth_search(token) \in Word \cup {Lost}
<1>1. mem[forth_ptr] \in Word
  BY PlacesAreCells DEF Places, RegistersOK
<1>2. QED
  BY <1>1, WalkedTyped DEF forth_search, forth_dict_search

-----------------------------------------------------------------------------
(* Types: the C functions on the stack.                                     *)

SpOK(s) == s \in StackLo .. StackTop

\* The data stack as a C function finds it.
LEMMA NativeTop ==
    ASSUME RegistersOK, NEW f, Calls(f)
    PROVE  /\ SpOK(Top) /\ SpOK(Top - 1)
           /\ sp # StackLo => SpOK(Top - 2)
           /\ Has(1) => SpOK(Top + 1) /\ Arg(0) \in Word /\ Arg(0) \in Int
           /\ Has(2) => SpOK(Top + 2) /\ SpOK(Top + 1) /\ Arg(1) \in Word /\ Arg(1) \in Int
           /\ Has(2) => Has(1) /\ Arg(0) \in Word /\ Arg(0) \in Int
<1>1. StackLo \in Nat /\ StackTop \in Nat /\ StackLo < StackTop
  BY LayoutAssumption
<1>2. sp \in StackLo .. StackTop /\ sp <= StackTop - 1 /\ sp \in Int
  BY <1>1 DEF RegistersOK, Calls, NativeCall, Holds
<1>3. /\ Has(1) => Top + 0 \in Stack
      /\ Has(2) => Top + 1 \in Stack /\ Top + 0 \in Stack
  BY <1>1, <1>2 DEF Has, Top, Stack
<1>4. \A a \in Stack : mem[a] \in Word /\ mem[a] \in Int
  BY WordIsInt DEF RegistersOK, Memory, Cells
<1>5. /\ Has(1) => Arg(0) \in Word /\ Arg(0) \in Int
      /\ Has(2) => Arg(1) \in Word /\ Arg(1) \in Int /\ Arg(0) \in Word /\ Arg(0) \in Int
  BY <1>3, <1>4 DEF Arg
<1>6. /\ SpOK(Top) /\ SpOK(Top - 1)
      /\ sp # StackLo => SpOK(Top - 2)
      /\ Has(1) => SpOK(Top + 1)
      /\ Has(2) => SpOK(Top + 2) /\ SpOK(Top + 1) /\ Has(1)
  BY <1>1, <1>2 DEF Has, Top, SpOK
<1>7. QED
  BY <1>5, <1>6

LEMMA ReturnsTyped ==
    ASSUME RegistersOK, NEW m, MemoryOK(m), NEW s, SpOK(s), Returns(m, s)
    PROVE  RegistersOK'
<1>1. pc + 1 \in Int
  BY PcIsInt
<1>2. mem' \in [Memory -> Word] /\ sp' \in StackLo .. StackTop /\ Goto(pc + 1)
  BY DEF Returns, MemoryOK, SpOK
<1>3. rsp' \in Int /\ rsp' >= RStackLo
  BY DEF Returns, RegistersOK
<1>4. QED
  BY <1>1, <1>2, <1>3, GotoTyped

LEMMA RaisesTyped ==
    ASSUME RegistersOK, NEW m, MemoryOK(m), NEW s, SpOK(s), NEW e \in Exceptions, Raises(e, m, s)
    PROVE  RegistersOK'
<1>1. (pc + 1) % Modulus \in Word
  BY PcIsInt, ModIsWord
<1>2. mem' \in [Memory -> Word] /\ sp' \in StackLo .. StackTop /\ pc' \in Word
  BY <1>1 DEF Raises, MemoryOK, SpOK
<1>3. flags' \subseteq Exceptions
  BY DEF Raises, RegistersOK
<1>4. UNCHANGED <<rsp, status, code>>
  BY DEF Raises
<1>5. QED
  BY <1>2, <1>3, <1>4 DEF RegistersOK

LEMMA MemoryIsTyped == RegistersOK => MemoryOK(mem)
  BY DEF RegistersOK, MemoryOK

LEMMA ShortTyped ==
    ASSUME RegistersOK, NEW f, Calls(f), NEW n, Short(n)
    PROVE  RegistersOK'
<1>1. Raises("STACK_UNDERFLOW", mem, Top) /\ "STACK_UNDERFLOW" \in Exceptions
  BY DEF Short, Exceptions
<1>2. QED
  BY <1>1, RaisesTyped, NativeTop, MemoryIsTyped

LEMMA CompilesTyped ==
    ASSUME RegistersOK, NEW m, MemoryOK(m), NEW p \in Memory, NEW ws \in Seq(Word),
           NEW s, SpOK(s), Compiles(m, p, ws, s)
    PROVE  RegistersOK'
<1>1. CASE Undefined
  BY <1>1, UndefinedTyped
<1>2. CASE Fits(m, p, Len(ws)) /\ Returns(Appended(m, p, ws), s)
  BY <1>2, AppendedTyped, WordsAreCode, ReturnsTyped
<1>3. QED
  BY <1>1, <1>2 DEF Compiles

LEMMA UnaryTyped ==
    ASSUME RegistersOK, NEW f, NEW v, Unary(f, v), Has(1) => v \in Word
    PROVE  RegistersOK'
<1>1. CASE Short(1)
  BY <1>1, ShortTyped DEF Unary
<1>2. CASE Has(1) /\ Returns([mem EXCEPT ![Top] = v], Top)
  <2>1. MemoryOK([mem EXCEPT ![Top] = v])
    BY <1>2, OneStored, MemoryIsTyped
  <2>2. QED
    BY <1>2, <2>1, NativeTop, ReturnsTyped DEF Unary
<1>3. QED
  BY <1>1, <1>2 DEF Unary

LEMMA PairTyped ==
    ASSUME RegistersOK, NEW f, NEW v, Pair(f, v), Has(2) => v \in Word
    PROVE  RegistersOK'
<1>1. CASE Short(2)
  BY <1>1, ShortTyped DEF Pair
<1>2. CASE Has(2) /\ Returns([mem EXCEPT ![Top + 1] = v], Top + 1)
  <2>1. MemoryOK([mem EXCEPT ![Top + 1] = v])
    BY <1>2, OneStored, MemoryIsTyped
  <2>2. QED
    BY <1>2, <2>1, NativeTop, ReturnsTyped DEF Pair
<1>3. QED
  BY <1>1, <1>2 DEF Pair

\* (int)w is an integer; what an int turns into is a word.
LEMMA IntIsWord ==
    /\ \A w \in Int : AsInt(w) \in Int
    /\ \A n \in Int : Extended(n) \in Word /\ Extended(-n) \in Word
<1>1. \A w \in Int : AsInt(w) \in Int
  <2> SUFFICES ASSUME NEW w \in Int PROVE AsInt(w) \in Int
    OBVIOUS
  <2> DEFINE v == w % IntModulus
  <2>1. v \in Int /\ IntModulus \in Int
    BY ModulusAssumption
  <2>2. AsInt(w) = IF 2 * v >= IntModulus THEN v - IntModulus ELSE v
    BY DEF AsInt
  <2> HIDE DEF v
  <2>3. QED
    BY <2>1, <2>2
<1>2. \A n \in Int : n \in Int /\ -n \in Int
  OBVIOUS
<1>3. QED
  BY <1>1, <1>2, ModIsWord DEF Extended

LEMMA ShiftTyped ==
    ASSUME RegistersOK, NEW f, NEW v, Shift(f, v),
           Calls(f) /\ Has(2) /\ Arg(0) < Width => v \in Word
    PROVE  RegistersOK'
<1>1. CASE Undefined
  BY <1>1, UndefinedTyped
<1>2. CASE (Calls(f) /\ Has(2) => Arg(0) < Width) /\ Pair(f, v)
  <2>1. Calls(f)
    BY <1>2 DEF Pair
  <2>2. QED
    BY <1>2, <2>1, PairTyped
<1>3. QED
  BY <1>1, <1>2 DEF Shift

\* A shift by less than the width is a product or a quotient by a power of two.
LEMMA ShiftedTyped ==
    ASSUME RegistersOK, NEW f, Calls(f), Has(2), Arg(0) < Width
    PROVE  /\ Arg(1) \div Power[Arg(0)] \in Word
           /\ (Arg(1) * Power[Arg(0)]) % Modulus \in Word
<1>1. Arg(0) \in Word /\ Arg(1) \in Word /\ Arg(1) \in Int
  BY NativeTop
<1>2. Arg(0) \in 0 .. Modulus
  BY <1>1, ModulusIs DEF Word
<1>3. Power[Arg(0)] \in Nat /\ Power[Arg(0)] > 0
  BY <1>2, PowerIs
<1> DEFINE a == Arg(1)
           p == Power[Arg(0)]
<1>4. a \in Int /\ p \in Int
  BY <1>1, <1>3
<1> HIDE DEF a, p
<1>5. a * p \in Int
  BY <1>4
<1>6. (a * p) % Modulus \in Word
  BY <1>5, ModIsWord
<1>7. QED
  BY <1>1, <1>3, <1>6, ShiftedIsWord DEF a, p

LEMMA ArithmeticWordTyped ==
    ASSUME RegistersOK, ArithmeticWord
    PROVE  RegistersOK'
<1>1. CASE invert_handler
  <2>1. Calls("invert")
    BY <1>1 DEF invert_handler, Unary
  <2>2. Has(1) => Modulus - 1 - Arg(0) \in Word
    BY <2>1, NativeTop, ModulusIs DEF Word
  <2>3. QED
    BY <1>1, <2>2, UnaryTyped DEF invert_handler
<1>2. CASE negate_handler
  <2>1. Calls("negate")
    BY <1>2 DEF negate_handler, Unary
  <2>2. Has(1) => (-Arg(0)) % Modulus \in Word
    BY <2>1, NativeTop, IntIsWord DEF Extended
  <2>3. QED
    BY <1>2, <2>2, UnaryTyped DEF negate_handler
<1>3. CASE abs_handler
  <2>1. Calls("abs")
    BY <1>3 DEF abs_handler
  <2>2. CASE Short(1)
    BY <2>1, <2>2, ShortTyped
  <2>3. CASE Has(1) /\ \E v \in {Arg(0), Extended(-AsInt(Arg(0))), Extended(AsInt(Arg(0)))} :
                          Returns([mem EXCEPT ![Top] = v], Top)
    <3>1. PICK v \in {Arg(0), Extended(-AsInt(Arg(0))), Extended(AsInt(Arg(0)))} :
                 Returns([mem EXCEPT ![Top] = v], Top)
      BY <2>3
    <3>2. Arg(0) \in Word /\ AsInt(Arg(0)) \in Int
      BY <2>1, <2>3, NativeTop, IntIsWord
    <3>3. v \in Word
      BY <3>1, <3>2, IntIsWord
    <3>4. MemoryOK([mem EXCEPT ![Top] = v])
      BY <3>3, OneStored, MemoryIsTyped
    <3>5. QED
      BY <2>1, <3>1, <3>4, NativeTop, ReturnsTyped
  <2>4. QED
    BY <1>3, <2>2, <2>3 DEF abs_handler
<1>4. CASE max_handler
  <2>1. Calls("max")
    BY <1>4 DEF max_handler, Pair
  <2>2. Has(2) => (IF AsInt(Arg(1)) > AsInt(Arg(0)) THEN Arg(1) ELSE Arg(0)) \in Word
    BY <2>1, NativeTop
  <2>3. QED
    BY <1>4, <2>2, PairTyped DEF max_handler
<1>5. CASE min_handler
  <2>1. Calls("min")
    BY <1>5 DEF min_handler, Pair
  <2>2. Has(2) => (IF AsInt(Arg(1)) < AsInt(Arg(0)) THEN Arg(1) ELSE Arg(0)) \in Word
    BY <2>1, NativeTop
  <2>3. QED
    BY <1>5, <2>2, PairTyped DEF min_handler
<1>6. CASE equal_handler
  <2>1. Truth(Arg(1) = Arg(0)) \in Word
    BY TruthIsWord
  <2>2. QED
    BY <1>6, <2>1, PairTyped DEF equal_handler
<1>7. CASE rshift_handler
  BY <1>7, ShiftedTyped, ShiftTyped DEF rshift_handler
<1>8. CASE lshift_handler
  BY <1>8, ShiftedTyped, ShiftTyped DEF lshift_handler
<1>9. CASE dup_if_no_zero_handler
  <2>1. Calls("dup_if_no_zero")
    BY <1>9 DEF dup_if_no_zero_handler
  <2>2. CASE Short(1)
    BY <2>1, <2>2, ShortTyped
  <2>3. CASE Returns(mem, Top)
    BY <2>1, <2>3, NativeTop, ReturnsTyped, MemoryIsTyped
  <2>4. CASE Has(1) /\ Returns([mem EXCEPT ![Top - 1] = Arg(0)], Top - 1)
    <3>1. MemoryOK([mem EXCEPT ![Top - 1] = Arg(0)])
      BY <2>1, <2>4, NativeTop, OneStored, MemoryIsTyped
    <3>2. QED
      BY <2>1, <2>4, <3>1, NativeTop, ReturnsTyped
  <2>5. QED
    BY <1>9, <2>2, <2>3, <2>4 DEF dup_if_no_zero_handler
<1>10. CASE drop_handler
  <2>1. Calls("drop")
    BY <1>10 DEF drop_handler
  <2>2. QED
    BY <1>10, <2>1, NativeTop, ShortTyped, ReturnsTyped, MemoryIsTyped DEF drop_handler
<1>11. CASE forth_swap_handler
  <2>1. Calls("swap")
    BY <1>11 DEF forth_swap_handler
  <2>2. CASE Short(2)
    BY <2>1, <2>2, ShortTyped
  <2>3. CASE Has(2) /\ \E x, y : /\ x = XorWord(Arg(0), Arg(1)) /\ y = XorWord(Arg(1), x)
                                 /\ Returns([mem EXCEPT ![Top] = XorWord(x, y), ![Top + 1] = y], Top)
    <3>1. PICK x, y : /\ x = XorWord(Arg(0), Arg(1)) /\ y = XorWord(Arg(1), x)
                      /\ Returns([mem EXCEPT ![Top] = XorWord(x, y), ![Top + 1] = y], Top)
      BY <2>3
    <3>2. Arg(0) \in Word /\ Arg(1) \in Word
      BY <2>1, <2>3, NativeTop
    <3>3. x \in Word /\ y \in Word /\ XorWord(x, y) \in Word
      BY <3>1, <3>2, XorAssumption
    <3>4. MemoryOK([mem EXCEPT ![Top] = XorWord(x, y), ![Top + 1] = y])
      BY <3>3, TwoStored, MemoryIsTyped
    <3>5. QED
      BY <2>1, <3>1, <3>4, NativeTop, ReturnsTyped
  <2>4. QED
    BY <1>11, <2>2, <2>3 DEF forth_swap_handler
<1>12. QED
  BY <1>1, <1>2, <1>3, <1>4, <1>5, <1>6, <1>7, <1>8, <1>9, <1>10, <1>11 DEF ArithmeticWord

-----------------------------------------------------------------------------
(* Types: the compiling and defining words.                                 *)

\* The opcodes and the C functions that are compiled.
LEMMA CodeIsWord ==
    /\ Op.PUSH \in Word /\ Op.CALL \in Word /\ Op.RET \in Word /\ Op.C_EXEC \in Word
    /\ Op.LOAD \in Word /\ Op.IT \in Word /\ Op.JMP \in Word /\ Op.NONE \in Word
    /\ Op.RPUSH \in Word /\ Op.STR \in Word /\ Op.PC \in Word /\ Op.ADD \in Word
    /\ Op.QUIT \in Word
    /\ Fn.constant_post \in Word /\ Fn.do \in Word /\ Fn.loop \in Word /\ Fn.leave \in Word
    /\ Fn.unloop \in Word /\ Fn.dot_quote_post \in Word /\ Fn.custom \in Word
    /\ 0 \in Word /\ 1 \in Word /\ 10 \in Word
<1>1. {"PUSH", "CALL", "RET", "C_EXEC", "LOAD", "IT", "JMP", "NONE", "RPUSH", "STR", "PC", "ADD",
       "QUIT"} \subseteq DOMAIN Op
  BY DEF Op
<1>2. {"constant_post", "do", "loop", "leave", "unloop", "dot_quote_post", "custom"}
         \subseteq DOMAIN Fn
  BY DEF Fn
<1>3. QED
  BY <1>1, <1>2, OpIsWord, FnIsWord, ByteIsWord

LEMMA PointersAreCells == here_ptr \in Memory /\ sandbox_ptr \in Memory /\ CopyPtr \in Memory
                          /\ TextCopyPtr \in Memory
  BY PlacesAreCells DEF Places, CopyPtr, TextCopyPtr

\* The words that compile what they find under the next name.
LEMMA NamedTyped ==
    ASSUME ShellTypeOK, NEW f, Calls(f), NEW found, NEW p \in Memory, NEW ws,
           found \in Word => ws \in Seq(Word), found \in Word \cup {Lost},
           \/ Token = NoToken /\ Raises("MEMFAULT", mem, Top)
           \/ Undefined
           \/ Raises("STACK_UNDERFLOW", TokenRead, Top)
           \/ found \notin {0, Lost} /\ Compiles(TokenRead, p, ws, Top)
    PROVE  RegistersOK'
<1>1. RegistersOK /\ MemoryOK(mem) /\ MemoryOK(TokenRead) /\ SpOK(Top)
  BY MemoryIsTyped, TokenReadTyped, NativeTop DEF ShellTypeOK
<1>2. {"MEMFAULT", "STACK_UNDERFLOW"} \subseteq Exceptions
  BY DEF Exceptions
<1>3. found \notin {0, Lost} => ws \in Seq(Word)
  OBVIOUS
<1>4. CASE Compiles(TokenRead, p, ws, Top) /\ found \notin {0, Lost}
  BY <1>1, <1>3, <1>4, CompilesTyped
<1>5. QED
  BY <1>1, <1>2, <1>4, RaisesTyped, UndefinedTyped

LEMMA PostponeTyped ==
    ASSUME ShellTypeOK, postpone_handler
    PROVE  RegistersOK'
<1> DEFINE found == forth_search(Token)
           ws == <<Op.PUSH, TextPtr(found), Op.CALL>>
<1>1. found \in Word \cup {Lost}
  BY SearchTyped DEF ShellTypeOK
<1>2. found \in Word => ws \in Seq(Word)
  <2> HIDE DEF found
  <2>1. QED
    BY CodeIsWord, TextPtrIsWord, WordIsInt
<1>3. /\ Calls("postpone")
      /\ \/ Token = NoToken /\ Raises("MEMFAULT", mem, Top)
         \/ Undefined
         \/ Raises("STACK_UNDERFLOW", TokenRead, Top)
         \/ found \notin {0, Lost} /\ Compiles(TokenRead, here_ptr, ws, Top)
  BY DEF postpone_handler
<1> HIDE DEF found, ws
<1>4. QED
  BY <1>1, <1>2, <1>3, PointersAreCells, NamedTyped

LEMMA TickTyped ==
    ASSUME ShellTypeOK, tick_handler \/ bracket_tick_handler
    PROVE  RegistersOK'
<1> DEFINE found == forth_search(Token)
           ws == <<Op.PUSH, found>>
<1>1. found \in Word \cup {Lost}
  BY SearchTyped DEF ShellTypeOK
<1>2. found \in Word => ws \in Seq(Word)
  <2> HIDE DEF found
  <2>1. QED
    BY CodeIsWord
<1>3. /\ Calls("tick") \/ Calls("bracket_tick")
      /\ \/ Token = NoToken /\ Raises("MEMFAULT", mem, Top)
         \/ Undefined
         \/ Raises("STACK_UNDERFLOW", TokenRead, Top)
         \/ found \notin {0, Lost} /\ Compiles(TokenRead, CopyPtr, ws, Top)
  BY DEF tick_handler, bracket_tick_handler
<1> HIDE DEF found, ws
<1>4. QED
  BY <1>1, <1>2, <1>3, PointersAreCells, NamedTyped

\* IMMEDIATE sets a flag that is clear: the flag cell stays a word.
LEMMA FlagSetIsWord ==
    \A w \in Word : (w \div IMMEDIATE) % 2 # 1 => w + IMMEDIATE \in Word
<1> SUFFICES ASSUME NEW w \in Word, (w \div IMMEDIATE) % 2 # 1 PROVE w + IMMEDIATE \in Word
  OBVIOUS
<1>1. IMMEDIATE = 2
  BY DEF IMMEDIATE
<1> DEFINE k == Modulus \div 256
           q == w \div 2
<1>2. Modulus = 256 * k /\ k \in Int
  BY ModulusIs
<1>3. q \in Int /\ (w = 2 * q \/ w = 2 * q + 1) /\ q % 2 # 1
  BY <1>1, WordIsInt
<1> HIDE DEF k, q
<1>4. q = 2 * (q \div 2) /\ q \div 2 \in Int
  BY <1>3
<1> DEFINE r == q \div 2
<1>5. r \in Int /\ q = 2 * r
  BY <1>4
<1> HIDE DEF r
<1>6. (w = 4 * r \/ w = 4 * r + 1) /\ w >= 0 /\ w < 256 * k /\ w \in Int
  BY <1>2, <1>3, <1>5, ModulusIs, WordIsInt DEF Word
<1>7. w + 2 < 256 * k
  BY <1>2, <1>5, <1>6
<1>8. QED
  BY <1>1, <1>2, <1>6, <1>7, ModulusIs DEF Word

LEMMA ImmediateTyped ==
    ASSUME ShellTypeOK, immediate_handler
    PROVE  RegistersOK'
<1>1. Calls("immediate") /\ RegistersOK
  BY DEF immediate_handler, ShellTypeOK
<1> DEFINE h == mem[forth_ptr]
<1>2. CASE Undefined
  BY <1>1, <1>2, UndefinedTyped
<1>3. CASE Returns(mem, Top)
  BY <1>1, <1>3, NativeTop, ReturnsTyped, MemoryIsTyped
<1>4. CASE h \in Ram /\ ~HasFlag(h, IMMEDIATE) /\ Returns([mem EXCEPT ![h] = @ + IMMEDIATE], Top)
  <2>1. h \in DOMAIN mem /\ mem[h] \in Word
    BY <1>1, <1>4 DEF RegistersOK, Memory, Cells
  <2>2. mem[h] + IMMEDIATE \in Word
    BY <1>4, <2>1, FlagSetIsWord DEF HasFlag, Load
  <2>3. MemoryOK([mem EXCEPT ![h] = mem[h] + IMMEDIATE])
    BY <1>1, <2>2, OneStored, MemoryIsTyped
  <2>4. QED
    BY <1>1, <1>4, <2>3, NativeTop, ReturnsTyped
<1>5. QED
  BY <1>2, <1>3, <1>4 DEF immediate_handler

LEMMA ParenTyped ==
    ASSUME ShellTypeOK, paren_immediate_handler
    PROVE  RegistersOK'
<1>1. Calls("paren") /\ RegistersOK
  BY DEF paren_immediate_handler, ShellTypeOK
<1>2. mem[in_ptr] \in Word /\ mem[in_ptr] \in Nat /\ StrbufSize \in Word
  BY PlacesAreCells, BasesAreWords, ModulusIs DEF Places, ShellTypeOK, RegistersOK, Word
<1>3. CASE Raises("MEMFAULT", [mem EXCEPT ![in_ptr] =
                                  IF mem[in_ptr] > StrbufSize THEN mem[in_ptr] ELSE StrbufSize], Top)
  <2>1. MemoryOK([mem EXCEPT ![in_ptr] =
                     IF mem[in_ptr] > StrbufSize THEN mem[in_ptr] ELSE StrbufSize])
    BY <1>1, <1>2, OneStored, MemoryIsTyped
  <2>2. "MEMFAULT" \in Exceptions
    BY DEF Exceptions
  <2>3. QED
    BY <1>1, <1>3, <2>1, <2>2, NativeTop, RaisesTyped
<1>4. ASSUME NEW k \in mem[in_ptr] + 1 .. Len(strbuf), Returns([mem EXCEPT ![in_ptr] = k], Top)
      PROVE  RegistersOK'
  <2>1. Len(strbuf) \in Nat /\ Len(strbuf) < StrbufSize /\ StrbufSize < Modulus /\ StrbufSize \in Nat
    BY ModulusIs, BasesAreWords DEF ShellTypeOK, Word
  <2>2. k \in Word
    BY <1>2, <1>4, <2>1, ModulusIs DEF Word
  <2>3. MemoryOK([mem EXCEPT ![in_ptr] = k])
    BY <1>1, <2>2, OneStored, MemoryIsTyped
  <2>4. QED
    BY <1>1, <1>4, <2>3, NativeTop, ReturnsTyped
<1>5. \/ Raises("MEMFAULT", [mem EXCEPT ![in_ptr] =
                               IF mem[in_ptr] > StrbufSize THEN mem[in_ptr] ELSE StrbufSize], Top)
      \/ \E k \in mem[in_ptr] + 1 .. Len(strbuf) : Returns([mem EXCEPT ![in_ptr] = k], Top)
  BY DEF paren_immediate_handler
<1>6. QED
  BY <1>3, <1>4, <1>5

\* The cells of the return stack on which C functions push.
LEMMA RStackCell ==
    ASSUME RegistersOK
    PROVE  ~RFull => rsp - 1 \in Int /\ rsp - 1 >= RStackLo
  BY LayoutAssumption DEF RFull, RStack, RegistersOK

LEMMA ExecuteTyped ==
    ASSUME ShellTypeOK, execute_handler
    PROVE  RegistersOK'
<1>1. Calls("execute") /\ RegistersOK
  BY DEF execute_handler, ShellTypeOK
<1>2. CASE Short(1) \/ Undefined
  BY <1>1, <1>2, ShortTyped, UndefinedTyped
<1>3. CASE /\ Has(1) /\ ~RFull /\ sp' = Top + 1 /\ rsp' = rsp - 1
           /\ mem' = [mem EXCEPT ![rsp - 1] = pc] /\ Goto(TextPtr(Arg(0)))
  <2>1. TextPtr(Arg(0)) \in Int
    BY <1>1, <1>3, NativeTop, TextPtrIsWord, WordIsInt
  <2>2. mem' \in [Memory -> Word]
    BY <1>1, <1>3 DEF RegistersOK
  <2>3. sp' \in StackLo .. StackTop
    BY <1>1, <1>3, NativeTop DEF SpOK
  <2>4. QED
    BY <1>1, <1>3, <2>1, <2>2, <2>3, RStackCell, GotoTyped
<1>4. QED
  BY <1>2, <1>3 DEF execute_handler

LEMMA AllotTyped ==
    ASSUME ShellTypeOK, allot_handler
    PROVE  RegistersOK'
<1>1. Calls("allot") /\ RegistersOK
  BY DEF allot_handler, ShellTypeOK
<1>2. CASE Short(1)
  BY <1>1, <1>2, ShortTyped
<1>3. CASE Has(1) /\ Returns([mem EXCEPT ![here_ptr] = (mem[here_ptr] + Arg(0)) % Modulus], Top + 1)
  <2>1. mem[here_ptr] \in Int
    BY PlacesAreCells, WordIsInt, <1>1 DEF Places, RegistersOK
  <2>2. (mem[here_ptr] + Arg(0)) % Modulus \in Word
    BY <1>1, <1>3, <2>1, NativeTop, SumIsWord
  <2>3. MemoryOK([mem EXCEPT ![here_ptr] = (mem[here_ptr] + Arg(0)) % Modulus])
    BY <1>1, <2>2, OneStored, MemoryIsTyped
  <2>4. QED
    BY <1>1, <1>3, <2>3, NativeTop, ReturnsTyped
<1>4. QED
  BY <1>2, <1>3 DEF allot_handler

\* A word with one cell of text, and a word with none.
LEMMA DefinedTyped ==
    ASSUME ShellTypeOK, Token # NoToken, NEW flag \in 0 .. 15
    PROVE  /\ Fits(mem, here_ptr, 4) => MemoryOK(Added(TokenRead, flag, Token, <<0>>))
           /\ Fits(mem, here_ptr, 3) => MemoryOK(Added(TokenRead, flag, Token, <<>>))
<1>1. MemoryOK(TokenRead) /\ Token \in Tokens
  BY TokenReadTyped, TokenIsToken DEF ShellTypeOK
<1>2. TokenRead[here_ptr] = mem[here_ptr]
  BY TokenReadKeeps, PlacesDiffer, PlacesAreCells DEF Places, ShellTypeOK, RegistersOK
<1>3. \A n : Fits(TokenRead, here_ptr, n) <=> Fits(mem, here_ptr, n)
  BY <1>2 DEF Fits
<1>4. <<0>> \in Seq(Word) /\ Len(<<0>>) + 3 = 4 /\ <<>> \in Seq(Word) /\ Len(<<>>) + 3 = 3
  BY CodeIsWord
<1>5. ASSUME NEW ws \in Seq(Word), Fits(mem, here_ptr, Len(ws) + 3)
      PROVE  MemoryOK(Added(TokenRead, flag, Token, ws))
  BY <1>1, <1>3, <1>5, AddedTyped
<1>6. QED
  BY <1>4, <1>5

LEMMA KindsAreFlags == VAR \in 0 .. 15 /\ CONST \in 0 .. 15 /\ TEXT \in 0 .. 15
  BY DEF VAR, CONST, TEXT

LEMMA VariableTyped ==
    ASSUME ShellTypeOK, variable_handler
    PROVE  RegistersOK'
<1>1. Calls("variable") /\ RegistersOK
  BY DEF variable_handler, ShellTypeOK
<1>2. CASE Undefined
  BY <1>1, <1>2, UndefinedTyped
<1>3. CASE Token # NoToken /\ Fits(mem, here_ptr, 4) /\ Returns(Added(TokenRead, VAR, Token, <<0>>), Top)
  BY <1>1, <1>3, NativeTop, DefinedTyped, KindsAreFlags, ReturnsTyped
<1>4. QED
  BY <1>2, <1>3 DEF variable_handler

LEMMA ConstantTyped ==
    ASSUME ShellTypeOK, constant_handler
    PROVE  RegistersOK'
<1>1. Calls("constant") /\ RegistersOK
  BY DEF constant_handler, ShellTypeOK
<1> DEFINE a == (StrbufBase + mem[in_ptr] + 1) % Modulus
           ws == <<Op.PUSH, a, Op.PUSH, Fn.constant_post, Op.C_EXEC>>
<1>2. CASE Undefined
  BY <1>1, <1>2, UndefinedTyped
<1>3. CASE /\ Token # NoToken /\ Fits(mem, here_ptr, 4)
           /\ Compiles(Added(TokenRead, CONST, Token, <<0>>), CopyPtr, ws, Top)
  <2>1. a \in Word
    <3>1. mem[in_ptr] \in Int /\ StrbufBase \in Int
      BY PlacesAreCells, WordIsInt, DictAssumption, <1>1 DEF Places, RegistersOK
    <3>2. StrbufBase + mem[in_ptr] \in Int
      BY <3>1
    <3>3. QED
      BY <3>2, SumIsWord
  <2> HIDE DEF a
  <2>2. ws \in Seq(Word)
    BY <2>1, CodeIsWord
  <2> HIDE DEF ws
  <2>3. QED
    BY <1>1, <1>3, <2>2, PointersAreCells, NativeTop, DefinedTyped, KindsAreFlags, CompilesTyped
<1>4. QED
  BY <1>2, <1>3 DEF constant_handler

LEMMA ConstantPostTyped ==
    ASSUME ShellTypeOK, constant_post_handler
    PROVE  RegistersOK'
<1>1. Calls("constant_post") /\ RegistersOK
  BY DEF constant_post_handler, ShellTypeOK
<1>2. CASE Undefined
  BY <1>1, <1>2, UndefinedTyped
<1>3. CASE Top = StackTop - 1 /\ Raises("STACK_UNDERFLOW", mem, Top + 1)
  <2>1. SpOK(Top + 1)
    BY <1>1, <1>3, NativeTop, LayoutAssumption DEF SpOK
  <2>2. "STACK_UNDERFLOW" \in Exceptions
    BY DEF Exceptions
  <2>3. QED
    BY <1>1, <1>3, <2>1, <2>2, RaisesTyped, MemoryIsTyped
<1>4. CASE Has(2) /\ \E d : Returns([mem EXCEPT ![d] = Extended(AsInt(Arg(1)))], Top + 2)
  <2>1. PICK d : Returns([mem EXCEPT ![d] = Extended(AsInt(Arg(1)))], Top + 2)
    BY <1>4
  <2>2. Extended(AsInt(Arg(1))) \in Word
    BY <1>1, <1>4, NativeTop, IntIsWord
  <2>3. MemoryOK([mem EXCEPT ![d] = Extended(AsInt(Arg(1)))])
    BY <1>1, <2>2, OneStored, MemoryIsTyped
  <2>4. QED
    BY <1>1, <1>4, <2>1, <2>3, NativeTop, ReturnsTyped
<1>5. QED
  BY <1>2, <1>3, <1>4 DEF constant_post_handler

LEMMA ColonTyped ==
    ASSUME ShellTypeOK, forth_colon_handler
    PROVE  RegistersOK'
<1>1. Calls("colon") /\ RegistersOK
  BY DEF forth_colon_handler, ShellTypeOK
<1>2. CASE Raises("MEMFAULT", mem, Top)
  BY <1>1, <1>2, NativeTop, RaisesTyped, MemoryIsTyped DEF Exceptions
<1>3. CASE Undefined
  BY <1>1, <1>3, UndefinedTyped
<1> DEFINE m == Added(TokenRead, TEXT, Token, <<>>)
<1>4. CASE Token # NoToken /\ Fits(mem, here_ptr, 3) /\ Returns([m EXCEPT ![state_ptr] = True], Top)
  <2>1. MemoryOK(m)
    BY <1>4, DefinedTyped, KindsAreFlags
  <2> HIDE DEF m
  <2>2. True \in Word
    BY ModulusIs DEF True, Word
  <2>3. MemoryOK([m EXCEPT ![state_ptr] = True])
    BY <2>1, <2>2, OneStored
  <2>4. QED
    BY <1>1, <1>4, <2>3, NativeTop, ReturnsTyped
<1>5. QED
  BY <1>2, <1>3, <1>4 DEF forth_colon_handler

LEMMA OtherCompilingTyped ==
    ASSUME ShellTypeOK, \/ literal_handler \/ left_bracket_handler \/ exit_handler
                        \/ recurse_handler \/ forth_semicolon_handler
    PROVE  RegistersOK'
<1>1. RegistersOK /\ MemoryOK(mem) /\ False \in Word
  BY MemoryIsTyped, CodeIsWord DEF ShellTypeOK, False
<1>2. CASE literal_handler
  <2>1. Calls("literal")
    BY <1>2 DEF literal_handler
  <2>2. CASE Short(1)
    BY <1>1, <2>1, <2>2, ShortTyped
  <2>3. CASE Has(1) /\ Compiles(mem, here_ptr, <<Op.PUSH, Arg(0)>>, Top + 1)
    <3>1. Arg(0) \in Word /\ SpOK(Top + 1)
      BY <1>1, <2>1, <2>3, NativeTop
    <3>2. <<Op.PUSH, Arg(0)>> \in Seq(Word)
      BY <3>1, CodeIsWord
    <3>3. QED
      BY <1>1, <2>3, <3>1, <3>2, PointersAreCells, CompilesTyped
  <2>4. QED
    BY <1>2, <2>2, <2>3 DEF literal_handler
<1>3. CASE left_bracket_handler
  <2>1. Calls("left_bracket") /\ Returns([mem EXCEPT ![state_ptr] = False], Top)
    BY <1>3 DEF left_bracket_handler
  <2>2. MemoryOK([mem EXCEPT ![state_ptr] = False])
    BY <1>1, OneStored
  <2>3. QED
    BY <1>1, <2>1, <2>2, NativeTop, ReturnsTyped
<1>4. CASE exit_handler
  <2>1. Calls("exit") /\ Compiles(mem, here_ptr, <<Op.RET>>, Top)
    BY <1>4 DEF exit_handler
  <2>2. <<Op.RET>> \in Seq(Word)
    BY CodeIsWord
  <2>3. QED
    BY <1>1, <2>1, <2>2, PointersAreCells, NativeTop, CompilesTyped
<1>5. CASE recurse_handler
  <2> DEFINE ws == <<Op.PUSH, TextPtr(mem[forth_ptr]), Op.CALL>>
  <2>1. Calls("recurse") /\ Compiles(mem, here_ptr, ws, Top)
    BY <1>5 DEF recurse_handler
  <2>2. mem[forth_ptr] \in Int
    BY <1>1, PlacesAreCells, WordIsInt DEF Places, RegistersOK
  <2>3. ws \in Seq(Word)
    BY <2>2, CodeIsWord, TextPtrIsWord
  <2> HIDE DEF ws
  <2>4. QED
    BY <1>1, <2>1, <2>3, PointersAreCells, NativeTop, CompilesTyped
<1>6. CASE forth_semicolon_handler
  <2>1. Calls("semicolon") /\ Compiles([mem EXCEPT ![state_ptr] = False], here_ptr, <<Op.RET>>, Top)
    BY <1>6 DEF forth_semicolon_handler
  <2>2. <<Op.RET>> \in Seq(Word)
    BY CodeIsWord
  <2>3. MemoryOK([mem EXCEPT ![state_ptr] = False])
    BY <1>1, OneStored
  <2>4. QED
    BY <1>1, <2>1, <2>2, <2>3, PointersAreCells, NativeTop, CompilesTyped
<1>7. QED
  BY <1>2, <1>3, <1>4, <1>5, <1>6

LEMMA CompilingWordTyped ==
    ASSUME ShellTypeOK, CompilingWord
    PROVE  RegistersOK'
  BY PostponeTyped, TickTyped, ImmediateTyped, ParenTyped, ExecuteTyped, AllotTyped,
     VariableTyped, ConstantTyped, ConstantPostTyped, ColonTyped, OtherCompilingTyped
  DEF CompilingWord

-----------------------------------------------------------------------------
(* Types: the control structures.                                           *)

LEMMA CompiledIsWord ==
    ASSUME RegistersOK, NEW i \in Int
    PROVE  Compiled(i) \in Word
<1>1. mem[here_ptr] \in Int
  BY PlacesAreCells, WordIsInt DEF Places, RegistersOK
<1>2. QED
  BY <1>1, SumIsWord DEF Compiled

\* A cell that is skipped is one of the cells that fit.
LEMMA LeftIsWord ==
    ASSUME RegistersOK, NEW n \in Nat, NEW i \in 1 .. n, Fits(mem, here_ptr, n)
    PROVE  Compiled(i) = mem[here_ptr] + i /\ Compiled(i) \in Ram /\ Left(i) \in Word
<1>1. mem[here_ptr] \in Int
  BY PlacesAreCells, WordIsInt DEF Places, RegistersOK
<1>2. mem[here_ptr] + i \in mem[here_ptr] + 1 .. mem[here_ptr] + n
  BY <1>1
<1>3. mem[here_ptr] + i \in Ram
  BY <1>2 DEF Fits
<1>4. mem[here_ptr] + i \in 0 .. (Modulus - 1)
  BY <1>3, LayoutAssumption DEF Word
<1>5. Compiled(i) = mem[here_ptr] + i
  BY <1>4, ModulusIs DEF Compiled
<1>6. QED
  BY <1>3, <1>5 DEF Left, RegistersOK, Memory, Cells

LEMMA HoleTyped ==
    ASSUME RegistersOK, NEW f, Calls(f), NEW ws, NEW k \in Int, CompilesHole(ws, k),
           Fits(mem, here_ptr, Len(ws)) => ws \in Seq(Word)
    PROVE  RegistersOK'
<1>1. CASE Undefined
  BY <1>1, UndefinedTyped
<1> DEFINE m == Appended(mem, here_ptr, ws)
           c == Compiled(k)
<1>2. CASE Fits(mem, here_ptr, Len(ws)) /\ Returns([m EXCEPT ![Top - 1] = c], Top - 1)
  <2>1. MemoryOK(m)
    BY <1>2, AppendedTyped, WordsAreCode, PointersAreCells, MemoryIsTyped
  <2>2. c \in Word
    BY CompiledIsWord
  <2> HIDE DEF m, c
  <2>3. MemoryOK([m EXCEPT ![Top - 1] = c])
    BY <2>1, <2>2, OneStored
  <2>4. QED
    BY <1>2, <2>3, NativeTop, ReturnsTyped
<1>3. QED
  BY <1>1, <1>2 DEF CompilesHole

LEMMA IfTyped ==
    ASSUME ShellTypeOK, forth_if_immediate_handler
    PROVE  RegistersOK'
<1> DEFINE x == Left(3)
           ws == <<Op.IT, Op.PUSH, x, Op.JMP, Op.NONE, Op.NONE, Op.NONE>>
<1>1. RegistersOK /\ Calls("if_immediate") /\ CompilesHole(ws, 3)
  BY DEF ShellTypeOK, forth_if_immediate_handler
<1>2. Fits(mem, here_ptr, 7) => x \in Word
  BY <1>1, LeftIsWord
<1> HIDE DEF x
<1>3. Len(ws) = 7 /\ (x \in Word => ws \in Seq(Word))
  BY CodeIsWord
<1>4. Fits(mem, here_ptr, Len(ws)) => ws \in Seq(Word)
  BY <1>2, <1>3
<1> HIDE DEF ws
<1>5. 3 \in Int
  OBVIOUS
<1>6. QED
  BY <1>1, <1>4, <1>5, HoleTyped

LEMMA DoCompilesTyped ==
    ASSUME ShellTypeOK, forth_do_immediate_handler
    PROVE  RegistersOK'
<1> DEFINE x == Left(2)
           ws == <<Op.PUSH, x, Op.RPUSH, Op.PUSH, i_var, Op.LOAD, Op.PUSH,
                   j_var, Op.STR, Op.PUSH, Fn.do, Op.C_EXEC>>
<1>1. RegistersOK /\ Calls("do_immediate") /\ CompilesHole(ws, 2)
  BY DEF ShellTypeOK, forth_do_immediate_handler
<1>2. Fits(mem, here_ptr, 12) => x \in Word
  BY <1>1, LeftIsWord
<1>3. i_var \in Word /\ j_var \in Word
  BY PlacesAreCells DEF Places
<1> HIDE DEF x
<1>4. Len(ws) = 12 /\ (x \in Word => ws \in Seq(Word))
  BY <1>3, CodeIsWord
<1>5. Fits(mem, here_ptr, Len(ws)) => ws \in Seq(Word)
  BY <1>2, <1>4
<1> HIDE DEF ws
<1>6. 2 \in Int
  OBVIOUS
<1>7. QED
  BY <1>1, <1>5, <1>6, HoleTyped

LEMMA ElseTyped ==
    ASSUME ShellTypeOK, forth_else_immediate_handler
    PROVE  RegistersOK'
<1> DEFINE x == Left(2)
           ws == <<Op.PUSH, x, Op.JMP>>
           m == Appended(mem, here_ptr, ws)
           b == Compiled(2)
           c == Compiled(4)
<1>1. RegistersOK /\ Calls("else_immediate")
  BY DEF ShellTypeOK, forth_else_immediate_handler
<1>2. CASE Undefined
  BY <1>1, <1>2, UndefinedTyped
<1>3. CASE Fits(mem, here_ptr, 3) /\ Returns([m EXCEPT ![Top] = b, ![Hole] = c], Top)
  <2>1. x \in Word /\ b \in Word /\ c \in Word
    BY <1>1, <1>3, LeftIsWord, CompiledIsWord
  <2> HIDE DEF x, b, c
  <2>2. ws \in Seq(Word) /\ Len(ws) = 3
    BY <2>1, CodeIsWord
  <2> HIDE DEF ws
  <2>3. MemoryOK(m)
    BY <1>1, <1>3, <2>2, AppendedTyped, WordsAreCode, PointersAreCells, MemoryIsTyped
  <2> HIDE DEF m
  <2>4. MemoryOK([m EXCEPT ![Top] = b, ![Hole] = c])
    BY <2>1, <2>3, TwoStored
  <2>5. QED
    BY <1>1, <1>3, <2>4, NativeTop, ReturnsTyped
<1>4. QED
  BY <1>2, <1>3 DEF forth_else_immediate_handler

LEMMA ThenTyped ==
    ASSUME ShellTypeOK, forth_then_immediate_handler
    PROVE  RegistersOK'
<1> DEFINE c == Compiled(1)
<1>1. RegistersOK /\ Calls("then_immediate")
  BY DEF ShellTypeOK, forth_then_immediate_handler
<1>2. CASE Undefined
  BY <1>1, <1>2, UndefinedTyped
<1>3. CASE Has(1) /\ Returns([mem EXCEPT ![here_ptr] = c, ![Hole] = c], Top + 1)
  <2>1. c \in Word
    BY <1>1, CompiledIsWord
  <2> HIDE DEF c
  <2>2. MemoryOK([mem EXCEPT ![here_ptr] = c, ![Hole] = c])
    BY <1>1, <2>1, TwoStored, MemoryIsTyped
  <2>3. QED
    BY <1>1, <1>3, <2>2, NativeTop, ReturnsTyped
<1>4. QED
  BY <1>2, <1>3 DEF forth_then_immediate_handler, HoleOnStack

LEMMA LoopCompilesTyped ==
    ASSUME ShellTypeOK, forth_loop_immediate_handler
    PROVE  RegistersOK'
<1> DEFINE ws == <<Op.PUSH, Fn.loop, Op.C_EXEC>>
           m == Appended(mem, here_ptr, ws)
           c == Compiled(3)
<1>1. RegistersOK /\ Calls("loop_immediate")
  BY DEF ShellTypeOK, forth_loop_immediate_handler
<1>2. CASE Undefined
  BY <1>1, <1>2, UndefinedTyped
<1>3. CASE Has(1) /\ Fits(mem, here_ptr, 3) /\ Returns([m EXCEPT ![Hole] = c], Top + 1)
  <2>1. c \in Word /\ ws \in Seq(Word) /\ Len(ws) = 3
    BY <1>1, CompiledIsWord, CodeIsWord
  <2> HIDE DEF ws, c
  <2>2. MemoryOK(m)
    BY <1>1, <1>3, <2>1, AppendedTyped, WordsAreCode, PointersAreCells, MemoryIsTyped
  <2> HIDE DEF m
  <2>3. MemoryOK([m EXCEPT ![Hole] = c])
    BY <2>1, <2>2, OneStored
  <2>4. QED
    BY <1>1, <1>3, <2>3, NativeTop, ReturnsTyped
<1>4. QED
  BY <1>2, <1>3 DEF forth_loop_immediate_handler, HoleOnStack

LEMMA LeavingCompilesTyped ==
    ASSUME ShellTypeOK, forth_leave_immediate_handler \/ forth_unloop_immediate_handler
    PROVE  RegistersOK'
<1>1. RegistersOK /\ MemoryOK(mem)
  BY MemoryIsTyped DEF ShellTypeOK
<1>2. /\ <<Op.PUSH, Fn.leave, Op.C_EXEC>> \in Seq(Word)
      /\ <<Op.PUSH, Fn.unloop, Op.C_EXEC>> \in Seq(Word)
  BY CodeIsWord
<1>3. QED
  BY <1>1, <1>2, PointersAreCells, NativeTop, CompilesTyped
     DEF forth_leave_immediate_handler, forth_unloop_immediate_handler

\* Cells of the return stack that a C function reads.
LEMMA RTopTyped ==
    ASSUME RegistersOK
    PROVE  /\ RHas(1) => mem[rsp] \in Word /\ mem[rsp] \in Int
           /\ RHas(3) => /\ mem[rsp] \in Word /\ mem[rsp + 1] \in Word /\ mem[rsp + 2] \in Word
                         /\ mem[rsp] \in Int /\ mem[rsp + 2] \in Int
<1>1. rsp \in Int /\ rsp >= RStackLo /\ RStackLo \in Nat /\ RStackTop \in Nat
  BY LayoutAssumption DEF RegistersOK
<1>2. /\ RHas(1) => rsp \in RStack
      /\ RHas(3) => rsp \in RStack /\ rsp + 1 \in RStack /\ rsp + 2 \in RStack
  BY <1>1 DEF RHas, RStack
<1>3. \A a \in RStack : mem[a] \in Word /\ mem[a] \in Int
  BY WordIsInt DEF RegistersOK, Memory, Cells
<1>4. QED
  BY <1>2, <1>3

LEMMA ThreeStored ==
    ASSUME NEW m, MemoryOK(m), NEW a, NEW u \in Word, NEW b, NEW v \in Word,
           NEW c, NEW w \in Word, NEW d, NEW x \in Word
    PROVE  MemoryOK([m EXCEPT ![a] = u, ![b] = v, ![c] = w, ![d] = x])
  BY DEF MemoryOK

LEMMA DoTyped ==
    ASSUME ShellTypeOK, forth_do_handler
    PROVE  RegistersOK'
<1>1. RegistersOK /\ Calls("do") /\ MemoryOK(mem)
  BY MemoryIsTyped DEF ShellTypeOK, forth_do_handler
<1>2. CASE Short(2)
  BY <1>1, <1>2, ShortTyped
<1>3. CASE Undefined
  BY <1>1, <1>3, UndefinedTyped
<1>4. CASE /\ Has(2) /\ RHas(1) /\ mem' = [mem EXCEPT ![i_var] = mem[j_var]]
           /\ sp' = Top + 2 /\ rsp' = rsp + 1 /\ Goto(mem[rsp] + 1)
  <2>1. mem[j_var] \in Word
    BY PlacesAreCells, <1>1 DEF Places, RegistersOK
  <2>2. mem' \in [Memory -> Word]
    BY <1>1, <1>4, <2>1, OneStored DEF MemoryOK
  <2>3. mem[rsp] + 1 \in Int
    BY <1>1, <1>4, RTopTyped
  <2>4. rsp' \in Int /\ rsp' >= RStackLo
    BY <1>1, <1>4, LayoutAssumption DEF RegistersOK
  <2>5. sp' \in StackLo .. StackTop
    BY <1>1, <1>4, NativeTop DEF SpOK
  <2>6. QED
    BY <1>1, <1>4, <2>2, <2>3, <2>4, <2>5, GotoTyped
<1>5. CASE /\ Has(2) /\ RRoom(3)
           /\ mem' = [mem EXCEPT ![i_var] = Arg(0), ![rsp - 1] = Arg(0),
                                 ![rsp - 2] = Arg(1), ![rsp - 3] = (pc - 3) % Modulus]
           /\ sp' = Top + 2 /\ rsp' = rsp - 3 /\ Goto(pc + 1)
  <2>1. pc \in Int /\ pc + 1 \in Int
    BY <1>1, PcIsInt
  <2>2. (pc - 3) % Modulus \in Word
    BY <2>1, SumIsWord
  <2>3. Arg(0) \in Word /\ Arg(1) \in Word /\ sp' \in StackLo .. StackTop
    BY <1>1, <1>5, NativeTop DEF SpOK
  <2>4. mem' \in [Memory -> Word]
    BY <1>1, <1>5, <2>2, <2>3, ThreeStored DEF MemoryOK
  <2>5. rsp' \in Int /\ rsp' >= RStackLo
    BY <1>1, <1>5, LayoutAssumption DEF RegistersOK, RRoom
  <2>6. QED
    BY <1>1, <1>5, <2>1, <2>3, <2>4, <2>5, GotoTyped
<1>6. QED
  BY <1>2, <1>3, <1>4, <1>5 DEF forth_do_handler

LEMMA NextTurnTyped ==
    ASSUME RegistersOK, NEW f, Calls(f), NEW index, RHas(3) => index \in Word, NextTurn(index)
    PROVE  RegistersOK'
<1>1. CASE Undefined
  BY <1>1, UndefinedTyped
<1>2. CASE /\ RHas(3) /\ sp # StackLo
           /\ mem' = [mem EXCEPT ![Top - 1] = mem[rsp + 1], ![Top - 2] = index]
           /\ sp' = Top - 2 /\ rsp' = rsp + 3 /\ Goto(mem[rsp] + 1)
  <2>1. mem[rsp + 1] \in Word /\ mem[rsp] + 1 \in Int
    BY <1>2, RTopTyped
  <2>2. mem' \in [Memory -> Word]
    BY <1>2, <2>1, TwoStored, MemoryIsTyped DEF MemoryOK
  <2>3. rsp' \in Int /\ rsp' >= RStackLo
    BY <1>2, LayoutAssumption DEF RegistersOK
  <2>4. sp' \in StackLo .. StackTop
    BY <1>2, NativeTop DEF SpOK
  <2>5. QED
    BY <1>2, <2>1, <2>2, <2>3, <2>4, GotoTyped
<1>3. QED
  BY <1>1, <1>2 DEF NextTurn

LEMMA LoopTyped ==
    ASSUME ShellTypeOK, forth_loop_handler \/ forth_leave_handler
    PROVE  RegistersOK'
<1>1. RegistersOK
  BY DEF ShellTypeOK
<1>2. RHas(3) => (mem[rsp + 2] + 1) % Modulus \in Word /\ mem[rsp + 1] \in Word
  BY <1>1, RTopTyped, SumIsWord
<1>3. QED
  BY <1>1, <1>2, NextTurnTyped DEF forth_loop_handler, forth_leave_handler

LEMMA UnloopTyped ==
    ASSUME ShellTypeOK, forth_unloop_handler
    PROVE  RegistersOK'
<1>1. RegistersOK /\ Calls("unloop") /\ MemoryOK(mem)
  BY MemoryIsTyped DEF ShellTypeOK, forth_unloop_handler
<1>2. mem[j_var] \in Word
  BY <1>1, PlacesAreCells DEF Places, RegistersOK
<1>3. mem' \in [Memory -> Word]
  BY <1>1, <1>2, OneStored DEF MemoryOK, forth_unloop_handler
<1>4. rsp' \in Int /\ rsp' >= RStackLo
  BY <1>1, LayoutAssumption DEF RegistersOK, forth_unloop_handler
<1>5. sp' \in StackLo .. StackTop /\ Goto(pc + 1) /\ pc + 1 \in Int
  BY <1>1, NativeTop, PcIsInt DEF SpOK, forth_unloop_handler
<1>6. QED
  BY <1>1, <1>3, <1>4, <1>5, GotoTyped

LEMMA ControlWordTyped ==
    ASSUME ShellTypeOK, ControlWord
    PROVE  RegistersOK'
  BY IfTyped, DoCompilesTyped, ElseTyped, ThenTyped, LoopCompilesTyped, LeavingCompilesTyped,
     DoTyped, LoopTyped, UnloopTyped DEF ControlWord

-----------------------------------------------------------------------------
(* Types: input and output.                                                 *)

LEMMA DotQuoteTyped ==
    ASSUME ShellTypeOK, dot_quote_immediate_handler
    PROVE  RegistersOK'
<1> DEFINE k == mem[in_ptr] + 1
           ws == <<Op.PUSH, 1, Op.PUSH, 1, Op.PC, Op.LOAD, Op.PUSH, 10, Op.ADD,
                   Op.PUSH, output_text, Op.CALL, Op.PUSH, Fn.dot_quote_post,
                   Op.C_EXEC, Name[strbuf[k]]>>
           m == [mem EXCEPT ![in_ptr] = k]
<1>1. RegistersOK /\ MemoryOK(mem) /\ Calls("dot_quote_immediate")
  BY MemoryIsTyped DEF ShellTypeOK, dot_quote_immediate_handler
<1>2. CASE Undefined
  BY <1>1, <1>2, UndefinedTyped
<1>3. CASE k \in DOMAIN strbuf /\ Compiles(m, TextCopyPtr, ws, Top)
  <2>1. k \in 1 .. Len(strbuf) /\ strbuf[k] \in Tokens /\ Len(strbuf) < StrbufSize
    BY <1>3 DEF ShellTypeOK
  <2>2. k \in Word
    BY <2>1, BasesAreWords, ModulusIs DEF Word, ShellTypeOK
  <2>3. Name[strbuf[k]] \in Word
    BY <2>1, NameIsWord
  <2> HIDE DEF k
  <2>4. ws \in Seq(Word)
    BY <2>3, PlacesAreCells, CodeIsWord
  <2> HIDE DEF ws
  <2>5. MemoryOK(m)
    BY <1>1, <2>2, OneStored
  <2> HIDE DEF m
  <2>6. QED
    BY <1>1, <1>3, <2>4, <2>5, PointersAreCells, NativeTop, CompilesTyped
<1>4. QED
  BY <1>2, <1>3 DEF dot_quote_immediate_handler

LEMMA DotQuotePostTyped ==
    ASSUME ShellTypeOK, forth_dot_quote_post_handler
    PROVE  RegistersOK'
<1>1. RegistersOK /\ Calls("dot_quote_post")
  BY DEF ShellTypeOK, forth_dot_quote_post_handler
<1>2. CASE Undefined
  BY <1>1, <1>2, UndefinedTyped
<1>3. CASE Has(1) /\ mem' = mem /\ sp' = Top + 1 /\ rsp' = rsp /\ Goto(pc + Arg(0) + 1)
  <2>1. pc \in Int /\ Arg(0) \in Int /\ sp' \in StackLo .. StackTop
    BY <1>1, <1>3, NativeTop, PcIsInt DEF SpOK
  <2>2. pc + Arg(0) + 1 \in Int
    BY <2>1
  <2>3. QED
    BY <1>1, <1>3, <2>1, <2>2, GotoTyped DEF RegistersOK
<1>4. QED
  BY <1>2, <1>3 DEF forth_dot_quote_post_handler

LEMMA SilentTyped ==
    ASSUME ShellTypeOK, SilentWord
    PROVE  RegistersOK'
<1>1. RegistersOK
  BY DEF ShellTypeOK
<1>2. QED
  BY <1>1, ArithmeticWordTyped, CompilingWordTyped, ControlWordTyped, DotQuoteTyped,
     DotQuotePostTyped DEF SilentWord

LEMMA PrintsTyped ==
    ASSUME RegistersOK, NEW ok, NEW items, NEW s, PrintsIf(ok, items, s), ok => SpOK(s)
    PROVE  RegistersOK'
  BY UndefinedTyped, ReturnsTyped, MemoryIsTyped DEF PrintsIf

LEMMA PrintingTyped ==
    ASSUME ShellTypeOK, PrintingWord
    PROVE  RegistersOK'
<1>1. RegistersOK /\ MemoryOK(mem)
  BY MemoryIsTyped DEF ShellTypeOK
<1>2. CASE forth_emit
  BY <1>1, <1>2, NativeTop, PrintsTyped DEF forth_emit
<1>3. CASE cr_handler
  BY <1>1, <1>3, NativeTop, PrintsTyped DEF cr_handler
<1>4. CASE forth_output_data
  BY <1>1, <1>4, NativeTop, PrintsTyped DEF forth_output_data
<1>5. CASE forth_dot_handler
  BY <1>1, <1>5, NativeTop, ShortTyped, PrintsTyped DEF forth_dot_handler
<1>6. CASE words_handler
  BY <1>1, <1>6, NativeTop, PrintsTyped DEF words_handler
<1>7. CASE forth_key
  <2>1. PICK k \in Keys : Returns([mem EXCEPT ![Top - 1] = k], Top - 1)
    BY <1>7 DEF forth_key
  <2>2. k \in Word
    BY DictAssumption
  <2>3. MemoryOK([mem EXCEPT ![Top - 1] = k])
    BY <1>1, <2>2, OneStored
  <2>4. QED
    BY <1>1, <1>7, <2>1, <2>3, NativeTop, ReturnsTyped DEF forth_key
<1>8. CASE custom_function
  BY <1>1, <1>8, NativeTop, PrintsTyped DEF custom_function
<1>9. QED
  BY <1>2, <1>3, <1>4, <1>5, <1>6, <1>7, <1>8 DEF PrintingWord

\* ] and its return.
LEMMA BracketTyped ==
    ASSUME ShellTypeOK, right_bracket_handler
    PROVE  RegistersOK' /\ brackets' \in Seq(Word)
<1>1. RegistersOK /\ Calls("right_bracket") /\ brackets \in Seq(Word) /\ pc \in Word
  BY DEF ShellTypeOK, RegistersOK, right_bracket_handler
<1>2. CASE Undefined /\ UNCHANGED brackets
  BY <1>1, <1>2, UndefinedTyped
<1>3. CASE /\ Fits(mem, sandbox_ptr, 1) /\ mem' = Appended(mem, sandbox_ptr, <<Op.QUIT>>)
           /\ sp' = Top /\ brackets' = <<pc>> \o brackets /\ vm_start(SandboxBase)
           /\ UNCHANGED <<rsp, flags, code>>
  <2>1. <<Op.QUIT>> \in Seq(Word) /\ Len(<<Op.QUIT>>) = 1
    BY CodeIsWord
  <2>2. mem' \in [Memory -> Word]
    BY <1>1, <1>3, <2>1, AppendedTyped, WordsAreCode, PointersAreCells, MemoryIsTyped DEF MemoryOK
  <2>3. sp' \in StackLo .. StackTop
    BY <1>1, <1>3, NativeTop DEF SpOK
  <2>4. pc' \in Word /\ status' = "running"
    BY <1>3, BasesAreWords DEF vm_start
  <2>5. <<pc>> \in Seq(Word)
    BY <1>1
  <2>6. brackets' \in Seq(Word)
    BY <1>1, <1>3, <2>5, ConcatProperties
  <2>7. QED
    BY <1>1, <1>3, <2>2, <2>3, <2>4, <2>6 DEF RegistersOK
<1>4. QED
  BY <1>2, <1>3 DEF right_bracket_handler

LEMMA BracketReturnsTyped ==
    ASSUME ShellTypeOK, right_bracket_returns
    PROVE  RegistersOK' /\ brackets' \in Seq(Word)
<1>1. /\ RegistersOK /\ MemoryOK(mem) /\ brackets \in Seq(Word) /\ brackets # <<>>
      /\ Head(brackets) \in Word /\ Tail(brackets) \in Seq(Word)
  BY MemoryIsTyped DEF ShellTypeOK, right_bracket_returns
<1>2. True \in Word /\ SandboxBase - 1 \in Word
  BY BasesAreWords, ModulusIs DEF True, Word
<1>3. mem' \in [Memory -> Word]
  BY <1>1, <1>2, TwoStored DEF MemoryOK, right_bracket_returns
<1>4. Head(brackets) \in Int
  BY <1>1, WordIsInt
<1>5. (Head(brackets) + 1) % Modulus \in Word
  BY <1>4, SumIsWord
<1>6. pc' \in Word /\ status' = "running" /\ flags' \subseteq flags
  BY <1>5 DEF right_bracket_returns, vm_start
<1>7. UNCHANGED <<sp, rsp, code>> /\ brackets' = Tail(brackets)
  BY DEF right_bracket_returns
<1>8. QED
  BY <1>1, <1>3, <1>6, <1>7 DEF RegistersOK

-----------------------------------------------------------------------------
(* Types: steps of the machine and of the C functions.                      *)

LEMMA VMStepTyped ==
    ASSUME ShellTypeOK, VMStep
    PROVE  ShellTypeOK'
<1>1. RegistersOK'
  BY InstructionTyped, LeaveTyped DEF ShellTypeOK, VMStep
<1>2. UNCHANGED <<strbuf, brackets, job, at, err, typed>>
  BY DEF VMStep, WordsUnchanged, wordVars
<1>3. QED
  BY <1>1, <1>2 DEF ShellTypeOK

LEMMA NativeStepTyped ==
    ASSUME ShellTypeOK, NativeStep
    PROVE  ShellTypeOK'
<1>1. UNCHANGED <<job, at, err, typed>>
  BY DEF NativeStep
<1>2. CASE SilentWord
  <2>1. RegistersOK' /\ UNCHANGED <<strbuf, brackets>>
    BY <1>2, SilentTyped DEF SilentWord, WordsUnchanged, wordVars
  <2>2. QED
    BY <1>1, <2>1 DEF ShellTypeOK
<1>3. CASE PrintingWord
  <2>1. RegistersOK' /\ UNCHANGED <<strbuf, brackets>>
    BY <1>3, PrintingTyped DEF PrintingWord
  <2>2. QED
    BY <1>1, <2>1 DEF ShellTypeOK
<1>4. CASE right_bracket_handler
  <2>1. RegistersOK' /\ brackets' \in Seq(Word) /\ strbuf' = strbuf
    BY <1>4, BracketTyped DEF right_bracket_handler
  <2>2. QED
    BY <1>1, <2>1 DEF ShellTypeOK
<1>5. CASE right_bracket_returns
  <2>1. RegistersOK' /\ brackets' \in Seq(Word) /\ strbuf' = strbuf
    BY <1>5, BracketReturnsTyped DEF right_bracket_returns
  <2>2. QED
    BY <1>1, <2>1 DEF ShellTypeOK
<1>6. QED
  BY <1>2, <1>3, <1>4, <1>5 DEF NativeStep, Native

-----------------------------------------------------------------------------
(* Types: steps of the compiler.                                            *)

\* What is left to show of a step that keeps the words and the shell's place.
LEMMA HostTyped ==
    ASSUME ShellTypeOK, RegistersOK', UNCHANGED <<strbuf, brackets, typed>>,
           job' \in {"banner", "prompt", "line", "report"},
           at' \in {"process", "word", "immediate", "compiled", "run", "line", "exit"},
           err' \in {"OK", "ERR", "WORD_NOT_FOUND", "COMPILE_ONLY", "EXIT"}
    PROVE  ShellTypeOK'
  BY DEF ShellTypeOK

LEMMA RejectsTyped ==
    ASSUME ShellTypeOK, NEW e \in {"ERR", "WORD_NOT_FOUND", "COMPILE_ONLY"}, Rejects(e)
    PROVE  ShellTypeOK'
<1>1. /\ err' = e /\ mem' = TokenRead
      /\ UNCHANGED <<sp, rsp, pc, code, flags, status, strbuf, brackets, job, at, typed>>
  BY DEF Rejects, MachineUnchanged, WordsUnchanged, wordVars
<1>2. mem' \in [Memory -> Word]
  BY <1>1, TokenReadTyped DEF ShellTypeOK, MemoryOK
<1>3. RegistersOK'
  BY <1>1, <1>2 DEF ShellTypeOK, RegistersOK
<1>4. QED
  BY <1>1, <1>3, HostTyped DEF ShellTypeOK

LEMMA CompilesCodeTyped ==
    ASSUME ShellTypeOK, NEW ws \in Seq(Word), CompilesCode(ws)
    PROVE  ShellTypeOK'
<1>1. UNCHANGED <<sp, rsp, pc, code, flags, strbuf, brackets, job, at, err, typed>>
  BY DEF CompilesCode, MachineUnchanged, WordsUnchanged, wordVars
<1>2. CompileTo \in {here_ptr, sandbox_ptr} /\ CompileTo \in Memory
  BY PointersAreCells DEF CompileTo
<1>3. CASE Fits(mem, CompileTo, Len(ws)) /\ mem' = Appended(TokenRead, CompileTo, ws) /\ UNCHANGED status
  <2>1. TokenRead[CompileTo] = mem[CompileTo]
    BY <1>2, PlacesDiffer, TokenReadKeeps DEF ShellTypeOK, RegistersOK
  <2>2. Fits(TokenRead, CompileTo, Len(ws))
    BY <1>3, <2>1 DEF Fits
  <2>3. mem' \in [Memory -> Word]
    BY <1>2, <1>3, <2>2, TokenReadTyped, AppendedTyped, WordsAreCode DEF ShellTypeOK, MemoryOK
  <2>4. RegistersOK'
    BY <1>1, <1>3, <2>3 DEF ShellTypeOK, RegistersOK
  <2>5. QED
    BY <1>1, <2>4, HostTyped DEF ShellTypeOK
<1>4. CASE status' = "undefined" /\ UNCHANGED mem
  <2>1. RegistersOK'
    BY <1>1, <1>4 DEF ShellTypeOK, RegistersOK
  <2>2. QED
    BY <1>1, <2>1, HostTyped DEF ShellTypeOK
<1>5. QED
  BY <1>3, <1>4 DEF CompilesCode

LEMMA RunImmediateTyped ==
    ASSUME ShellTypeOK, NEW command \in Word, RunImmediate(command)
    PROVE  ShellTypeOK'
<1>1. /\ mem' = TokenRead /\ pc' = TextPtr(command) /\ status' = "running" /\ at' = "immediate"
      /\ UNCHANGED <<sp, rsp, code, flags, strbuf, brackets, job, err, typed>>
  BY DEF RunImmediate, vm_start, WordsUnchanged, wordVars
<1>2. mem' \in [Memory -> Word] /\ pc' \in Word
  BY <1>1, TokenReadTyped, TextPtrIsWord, WordIsInt DEF ShellTypeOK, MemoryOK
<1>3. RegistersOK'
  BY <1>1, <1>2 DEF ShellTypeOK, RegistersOK
<1>4. QED
  BY <1>1, <1>3, HostTyped DEF ShellTypeOK

LEMMA PushImmediateTyped ==
    ASSUME ShellTypeOK, NEW command \in Word, PushImmediate(command)
    PROVE  ShellTypeOK'
<1> DEFINE datum == TextPtr(command)
           v == IF IsVariable(command) THEN datum ELSE Load(datum)
<1>1. UNCHANGED <<rsp, pc, code, flags, strbuf, brackets, job, at, err, typed>>
  BY DEF PushImmediate, WordsUnchanged, wordVars
<1>2. CASE status' = "undefined" /\ UNCHANGED <<mem, sp>>
  <2>1. RegistersOK'
    BY <1>1, <1>2 DEF ShellTypeOK, RegistersOK
  <2>2. QED
    BY <1>1, <2>1, HostTyped DEF ShellTypeOK
<1>3. CASE /\ ~Full /\ (IsConstant(command) => Readable(datum)) /\ sp' = sp - 1
           /\ mem' = [TokenRead EXCEPT ![sp - 1] = v] /\ UNCHANGED status
  <2>1. datum \in Word
    BY TextPtrIsWord, WordIsInt
  <2>2. IsVariable(command) \/ IsConstant(command)
    BY DEF PushImmediate
  <2> HIDE DEF datum
  <2>3. v \in Word
    BY <1>3, <2>1, <2>2, LoadIsWord DEF ShellTypeOK
  <2> HIDE DEF v
  <2>4. MemoryOK([TokenRead EXCEPT ![sp - 1] = v])
    BY <2>3, TokenReadTyped, OneStored DEF ShellTypeOK
  <2>5. sp' \in StackLo .. StackTop
    BY <1>3, LayoutAssumption DEF ShellTypeOK, RegistersOK, Full
  <2>6. RegistersOK'
    BY <1>1, <1>3, <2>4, <2>5 DEF ShellTypeOK, RegistersOK, MemoryOK
  <2>7. QED
    BY <1>1, <2>6, HostTyped DEF ShellTypeOK
<1>4. QED
  BY <1>2, <1>3 DEF PushImmediate

LEMMA CompileWordTyped ==
    ASSUME ShellTypeOK, NEW command \in Word, CompileWord(command)
    PROVE  ShellTypeOK'
<1> DEFINE t == TextPtr(command)
           tail == IF IsVariable(command) THEN <<>>
                   ELSE IF IsConstant(command) THEN <<Op.LOAD>> ELSE <<Op.CALL>>
           ws == <<Op.PUSH, t>> \o tail
<1>1. CompilesCode(ws)
  BY DEF CompileWord
<1>2. t \in Word
  BY TextPtrIsWord, WordIsInt
<1> HIDE DEF t
<1>3. <<Op.PUSH, t>> \in Seq(Word)
  BY <1>2, CodeIsWord
<1>4. tail \in Seq(Word)
  BY CodeIsWord
<1> HIDE DEF tail
<1>5. ws \in Seq(Word)
  BY <1>3, <1>4, ConcatProperties
<1> HIDE DEF ws
<1>6. QED
  BY <1>1, <1>5, CompilesCodeTyped

LEMMA CompileNumberTyped ==
    ASSUME ShellTypeOK, CompileNumber
    PROVE  ShellTypeOK'
<1> DEFINE n == Numeral[Token] % Modulus
<1>1. n \in Word
  BY WordAssumption, ModIsWord DEF CompileNumber
<1>2. CompilesCode(<<Op.PUSH, n>>)
  BY DEF CompileNumber
<1> HIDE DEF n
<1>3. <<Op.PUSH, n>> \in Seq(Word)
  BY <1>1, CodeIsWord
<1>4. QED
  BY <1>2, <1>3, CompilesCodeTyped

LEMMA StopsUndefinedTyped ==
    ASSUME ShellTypeOK, StopsUndefined
    PROVE  ShellTypeOK'
<1>1. RegistersOK' /\ UNCHANGED <<strbuf, brackets, job, at, err, typed>>
  BY UndefinedTyped DEF ShellTypeOK, StopsUndefined, WordsUnchanged, wordVars
<1>2. QED
  BY <1>1 DEF ShellTypeOK

LEMMA CompileTyped ==
    ASSUME ShellTypeOK, forth_compile
    PROVE  ShellTypeOK'
<1>1. forth_search(Token) \in Word \cup {Lost}
  BY SearchTyped DEF ShellTypeOK
<1>2. \/ \E e \in {"ERR", "WORD_NOT_FOUND", "COMPILE_ONLY"} : Rejects(e)
      \/ StopsUndefined
      \/ CompileNumber
      \/ \E command \in {forth_search(Token)} :
            command # Lost /\ (RunImmediate(command) \/ PushImmediate(command) \/ CompileWord(command))
  BY DEF forth_compile, RejectState, RejectCompileOnly, RejectUnknown
<1>3. QED
  BY <1>1, <1>2, RejectsTyped, StopsUndefinedTyped, CompileNumberTyped, RunImmediateTyped,
     PushImmediateTyped, CompileWordTyped

LEMMA CompileLineTyped ==
    ASSUME ShellTypeOK, CompileLine
    PROVE  ShellTypeOK'
<1>1. CASE ImmediateReturns
  <2>1. /\ flags' \subseteq flags /\ at' = "word"
        /\ UNCHANGED <<sp, rsp, pc, code, mem, status, strbuf, brackets, job, err, typed>>
    BY <1>1 DEF ImmediateReturns, MachineUnchanged, WordsUnchanged, wordVars
  <2>2. RegistersOK'
    BY <2>1 DEF ShellTypeOK, RegistersOK
  <2>3. QED
    BY <2>1, <2>2, HostTyped DEF ShellTypeOK
<1>2. CASE EndOfLine
  <2>1. /\ at' = "compiled"
        /\ UNCHANGED <<sp, rsp, pc, code, flags, strbuf, brackets, job, err, typed>>
    BY <1>2 DEF EndOfLine, MachineUnchanged, WordsUnchanged, wordVars
  <2>2. mem' \in [Memory -> Word]
    <3>1. <<Op.RET>> \in Seq(Word) /\ Len(<<Op.RET>>) = 1
      BY CodeIsWord
    <3>2. Fits(mem, sandbox_ptr, 1) => MemoryOK(Appended(mem, sandbox_ptr, <<Op.RET>>))
      BY <3>1, AppendedTyped, WordsAreCode, PointersAreCells, MemoryIsTyped DEF ShellTypeOK
    <3>3. QED
      BY <1>2, <3>2 DEF EndOfLine, MemoryOK, ShellTypeOK, RegistersOK
  <2>3. status' \in {status, "undefined"}
    BY <1>2 DEF EndOfLine
  <2>4. RegistersOK'
    BY <2>1, <2>2, <2>3 DEF ShellTypeOK, RegistersOK
  <2>5. QED
    BY <2>1, <2>4, HostTyped DEF ShellTypeOK
<1>3. QED
  BY <1>1, <1>2, CompileTyped DEF CompileLine

-----------------------------------------------------------------------------
(* Types: steps of the loop.                                                *)

\* The shell's own lines fit into the buffer.
LEMMA OwnLinesTyped ==
    \A line \in {Banner, Prompt, OkReport, StackUnderflowReport, ZeroDivisionReport,
                 NotFoundReport, CompileOnlyReport} :
        line \in Seq(Tokens) /\ Len(line) < StrbufSize
<1>1. \A a, b : Len(<<a, b>>) = 2
  OBVIOUS
<1>2. Len(Banner) = 2
  BY <1>1, Zenon DEF Banner
<1>3. Len(Prompt) = 2
  BY <1>1, Zenon DEF Prompt
<1>4. Len(OkReport) = 2
  BY <1>1, Zenon DEF OkReport
<1>5. Len(StackUnderflowReport) = 2
  BY <1>1, Zenon DEF StackUnderflowReport
<1>6. Len(ZeroDivisionReport) = 2
  BY <1>1, Zenon DEF ZeroDivisionReport
<1>7. Len(NotFoundReport) = 2
  BY <1>1, Zenon DEF NotFoundReport
<1>8. Len(CompileOnlyReport) = 2
  BY <1>1, Zenon DEF CompileOnlyReport
<1>9. QED
  BY <1>2, <1>3, <1>4, <1>5, <1>6, <1>7, <1>8, ShellAssumption

LEMMA EmptyLineTyped == <<>> \in Seq(Tokens) /\ Len(<<>>) < StrbufSize
<1>1. <<>> \in Seq(Tokens) /\ Len(<<>>) = 0
  OBVIOUS
<1>2. StrbufSize > 0
  BY ShellAssumption, DictAssumption
<1>3. QED
  BY <1>1, <1>2

LEMMA ReloadedTyped == RegistersOK => MemoryOK(Reloaded)
<1>1. SandboxBase - 1 \in Word /\ 0 \in Word
  BY BasesAreWords, CodeIsWord
<1>2. QED
  BY <1>1, TwoStored, MemoryIsTyped DEF Reloaded

\* What is left to show of a step that issues a line or empties the buffer.
LEMMA LoopStepTyped ==
    ASSUME ShellTypeOK, MemoryOK(mem'), UNCHANGED <<sp, rsp, pc, code, brackets, typed>>,
           status' \in {status, "undefined"}, flags' \subseteq flags,
           strbuf' \in Seq(Tokens), Len(strbuf') < StrbufSize,
           job' \in {"banner", "prompt", "line", "report"},
           at' \in {"process", "word", "immediate", "compiled", "run", "line", "exit"},
           err' \in {"OK", "ERR", "WORD_NOT_FOUND", "COMPILE_ONLY", "EXIT"}
    PROVE  ShellTypeOK'
<1>1. RegistersOK'
  BY DEF ShellTypeOK, RegistersOK, MemoryOK
<1>2. QED
  BY <1>1 DEF ShellTypeOK

LEMMA ReportsTyped ==
    ASSUME ShellTypeOK, NEW line \in Seq(Tokens), Len(line) < StrbufSize, Reports(line)
    PROVE  ShellTypeOK'
<1>1. /\ mem' = Reloaded /\ flags' = {} /\ strbuf' = line /\ job' = "report" /\ at' = "word"
      /\ err' = "OK" /\ UNCHANGED <<sp, rsp, pc, code, status, brackets, typed>>
  BY DEF Reports, Issues, MachineUnchanged
<1>2. MemoryOK(mem')
  BY <1>1, ReloadedTyped DEF ShellTypeOK
<1>3. QED
  BY <1>1, <1>2, LoopStepTyped

LEMMA ReturningTyped ==
    ASSUME ShellTypeOK, Returning
    PROVE  ShellTypeOK'
<1>1. /\ mem' = Reloaded /\ flags' = {} /\ strbuf' = <<>> /\ at' \in {"process", "exit"}
      /\ UNCHANGED <<sp, rsp, pc, code, status, brackets, job, err, typed>>
  BY DEF Returning, MachineUnchanged
<1>2. MemoryOK(mem')
  BY <1>1, ReloadedTyped DEF ShellTypeOK
<1>3. QED
  BY <1>1, <1>2, LoopStepTyped, EmptyLineTyped DEF ShellTypeOK

LEMMA RunSandboxTyped ==
    ASSUME ShellTypeOK, RunSandbox
    PROVE  ShellTypeOK'
<1>1. /\ pc' = SandboxBase /\ status' = "running" /\ at' = "run"
      /\ UNCHANGED <<mem, sp, rsp, code, flags, strbuf, brackets, job, err, typed>>
  BY DEF RunSandbox, vm_start, WordsUnchanged, wordVars
<1>2. RegistersOK'
  BY <1>1, BasesAreWords DEF ShellTypeOK, RegistersOK
<1>3. QED
  BY <1>1, <1>2, HostTyped DEF ShellTypeOK

LEMMA PromptUserTyped ==
    ASSUME ShellTypeOK, PromptUser
    PROVE  ShellTypeOK'
<1>1. UNCHANGED <<mem, flags, status, brackets, typed, sp, rsp, pc, code>>
  BY DEF PromptUser, MachineUnchanged
<1>2. MemoryOK(mem')
  BY <1>1, MemoryIsTyped DEF ShellTypeOK
<1>3. CASE Issues("prompt", Prompt)
  BY <1>1, <1>2, <1>3, OwnLinesTyped, LoopStepTyped DEF Issues
<1>4. CASE at' = "line" /\ UNCHANGED <<strbuf, job, err, kept>>
  BY <1>1, <1>2, <1>4, LoopStepTyped DEF ShellTypeOK
<1>5. QED
  BY <1>3, <1>4 DEF PromptUser

LEMMA ReadLineTyped ==
    ASSUME ShellTypeOK, ReadLine
    PROVE  ShellTypeOK'
<1>1. PICK line \in NextLines :
        /\ typed' = Append(typed, line)
        /\ \/ Full /\ status' = "undefined" /\ UNCHANGED <<strbuf, job, at, err, kept>>
           \/ ~Full /\ Issues("line", line) /\ UNCHANGED status
           \/ /\ ~Full /\ at' = "exit" /\ err' = "EXIT"
              /\ UNCHANGED <<strbuf, job, status, kept>>
  BY DEF ReadLine
<1>2. PICK session \in Sessions : Len(session) > Len(typed) /\ line = session[Len(typed) + 1]
  BY DEF NextLines, Prefixed
<1>3. session \in Seq(Seq(Tokens)) /\ typed \in Seq(Seq(Tokens))
  BY ShellAssumption DEF ShellTypeOK
<1>4. Len(typed) + 1 \in 1 .. Len(session)
  BY <1>2, <1>3
<1>5. line \in Seq(Tokens) /\ Len(line) < StrbufSize
  BY <1>2, <1>3, <1>4, ShellAssumption
<1>6. typed' \in Seq(Seq(Tokens))
  BY <1>1, <1>3, <1>5, AppendProperties
<1>7. UNCHANGED <<sp, rsp, pc, code, mem, flags, brackets>>
  BY DEF ReadLine, MachineUnchanged
<1>8. status' \in {status, "undefined"}
  BY <1>1
<1>9. RegistersOK'
  BY <1>7, <1>8 DEF ShellTypeOK, RegistersOK
<1>10. /\ strbuf' \in Seq(Tokens) /\ Len(strbuf') < StrbufSize
       /\ job' \in {"banner", "prompt", "line", "report"}
       /\ at' \in {"process", "word", "immediate", "compiled", "run", "line", "exit"}
       /\ err' \in {"OK", "ERR", "WORD_NOT_FOUND", "COMPILE_ONLY", "EXIT"}
  BY <1>1, <1>5 DEF Issues, ShellTypeOK
<1>11. QED
  BY <1>6, <1>7, <1>9, <1>10 DEF ShellTypeOK

LEMMA PromptPrintedTyped ==
    ASSUME ShellTypeOK, PromptPrinted
    PROVE  ShellTypeOK'
<1>1. /\ mem' = Reloaded /\ flags' = {} /\ strbuf' = <<>> /\ at' = "line"
      /\ UNCHANGED <<sp, rsp, pc, code, status, brackets, job, err, typed>>
  BY DEF PromptPrinted, MachineUnchanged
<1>2. MemoryOK(mem')
  BY <1>1, ReloadedTyped DEF ShellTypeOK
<1>3. QED
  BY <1>1, <1>2, LoopStepTyped, EmptyLineTyped DEF ShellTypeOK

LEMMA BannerPrintedTyped ==
    ASSUME ShellTypeOK, BannerPrinted
    PROVE  ShellTypeOK'
<1>1. /\ flags' = {} /\ strbuf' = <<>> /\ at' = "process" /\ status' \in {status, "undefined"}
      /\ UNCHANGED <<sp, rsp, pc, code, brackets, job, err, typed>>
  BY DEF BannerPrinted, MachineUnchanged
<1> DEFINE text == Calling("custom")
<1>2. text \in Seq(Word) /\ Len(text) + 3 = 7
  BY CodeIsWord DEF Calling
<1>3. Fits(mem, here_ptr, 7) => Fits(Reloaded, here_ptr, 7)
  <2>1. Reloaded[here_ptr] = mem[here_ptr]
    BY PlacesDiffer, PlacesAreCells DEF Places, Reloaded, ShellTypeOK, RegistersOK
  <2>2. QED
    BY <2>1 DEF Fits
<1> HIDE DEF text
<1>4. Fits(mem, here_ptr, 7) => MemoryOK(Added(Reloaded, TEXT, "CUSTOM", text))
  <2>1. "CUSTOM" \in Tokens
    BY ShellAssumption
  <2>2. ASSUME Fits(mem, here_ptr, 7)
        PROVE  MemoryOK(Added(Reloaded, TEXT, "CUSTOM", text))
    <3>1. Fits(Reloaded, here_ptr, Len(text) + 3)
      BY <1>2, <1>3, <2>2
    <3>2. MemoryOK(Reloaded)
      BY ReloadedTyped DEF ShellTypeOK
    <3>3. QED
      BY <1>2, <2>1, <3>1, <3>2, AddedTyped, KindsAreFlags
  <2>3. QED
    BY <2>2
<1>5. MemoryOK(mem')
  BY <1>4, MemoryIsTyped DEF BannerPrinted, text, ShellTypeOK
<1>6. QED
  BY <1>1, <1>5, LoopStepTyped, EmptyLineTyped DEF ShellTypeOK

LEMMA ProcessTyped ==
    ASSUME ShellTypeOK, Process
    PROVE  ShellTypeOK'
<1>1. CASE LineCompiled \/ ReportCompiled
  BY <1>1, RunSandboxTyped DEF LineCompiled, ReportCompiled
<1>2. CASE LineRejected
  <2>1. \/ Reports(NotFoundReport) \/ Reports(CompileOnlyReport) \/ Returning
    BY <1>2 DEF LineRejected
  <2>2. QED
    BY <2>1, OwnLinesTyped, ReportsTyped, ReturningTyped
<1>3. CASE LineRan
  <2>1. \/ Reports(StackUnderflowReport) \/ Reports(ZeroDivisionReport) \/ Reports(OkReport)
        \/ Returning
    BY <1>3 DEF LineRan
  <2>2. QED
    BY <2>1, OwnLinesTyped, ReportsTyped, ReturningTyped
<1>4. CASE ReportPrinted
  BY <1>4, ReturningTyped DEF ReportPrinted
<1>5. QED
  BY <1>1, <1>2, <1>3, <1>4, PromptUserTyped, ReadLineTyped, PromptPrintedTyped,
     BannerPrintedTyped DEF Process

LEMMA NextKeepsTypes == ShellTypeOK /\ [Next]_shellVars => ShellTypeOK'
<1> SUFFICES ASSUME ShellTypeOK, [Next]_shellVars PROVE ShellTypeOK'
  OBVIOUS
<1>1. CASE UNCHANGED shellVars
  <2>1. UNCHANGED <<mem, sp, rsp, pc, flags, status, code, strbuf, brackets, job, at, err, typed>>
    BY <1>1 DEF shellVars, vmVars, wordVars
  <2>2. RegistersOK'
    BY <2>1 DEF ShellTypeOK, RegistersOK
  <2>3. QED
    BY <2>1, <2>2 DEF ShellTypeOK
<1>2. CASE Over
  BY <1>1, <1>2 DEF Over
<1>3. QED
  BY <1>1, <1>2, VMStepTyped, NativeStepTyped, CompileLineTyped, ProcessTyped DEF Next, Running

-----------------------------------------------------------------------------
(* Types: the first state.                                                  *)

\* The number of cells of the i-th of the system's own words.
SystemSize(i) == IF i <= 8 THEN 4 ELSE 7

\* The header of the i-th of the shell's own words, and the text behind it.
SystemHead(i) == <<HeaderMark + SystemWords[i].flags, Name[SystemWords[i].name],
                   IF i = 1 THEN LastRom ELSE SystemAt(i - 1)>>

LEMMA SystemParts ==
    ASSUME NEW i \in 1 .. 11
    PROVE  /\ SystemCells(i) = SystemHead(i) \o SystemWords[i].text
           /\ SystemHead(i) \in Seq(Word) /\ Len(SystemHead(i)) = 3
           /\ SystemWords[i].text \in Seq(Word) /\ Len(SystemWords[i].text) + 3 = SystemSize(i)
<1> DEFINE e == SystemWords[i]
           link == IF i = 1 THEN LastRom ELSE SystemAt(i - 1)
           hs == <<HeaderMark + e.flags, Name[e.name], link>>
<1>6. SystemHead(i) = hs /\ SystemCells(i) = SystemHead(i) \o e.text
  BY DEF SystemHead, SystemCells
<1>1. Len(SystemWords) = 11
  BY DEF SystemWords
<1>2. Name[e.name] \in Word
  BY <1>1, SystemAssumption, NameIsWord
<1>3. DictBase \in Nat /\ DictBase + 52 \in Word
  BY BasesAreWords, DictAssumption
<1>4. link \in Word
  <2>1. i # 1 => SystemAt(i - 1) \in Nat /\ SystemAt(i - 1) <= DictBase + 52
    BY <1>3 DEF SystemAt
  <2>2. QED
    BY <1>3, <2>1, SystemAssumption, ModulusIs DEF Word
<1>5. /\ e.flags \in 0 .. 15 /\ e.text \in Seq(Word) /\ Len(e.text) + 3 = SystemSize(i)
  <2>1. /\ DictBase + 46 \in Word /\ DictBase + 52 \in Word /\ SandboxBase - 1 \in Word
        /\ 0 \in Word /\ False \in Word /\ True \in Word /\ 10 \in Word
    BY <1>3, BasesAreWords, ModulusIs, CodeIsWord DEF Word, True, False
  <2>2. /\ Fn["emit"] \in Word /\ Fn["key"] \in Word /\ Fn["output"] \in Word
    BY FnIsWord DEF Fn
  <2>3. \A f : Fn[f] \in Word => Calling(f) \in Seq(Word) /\ Len(Calling(f)) = 4
    BY CodeIsWord DEF Calling
  <2>4. \A w \in Word : <<w>> \in Seq(Word) /\ Len(<<w>>) = 1
    OBVIOUS
  <2>5. i \in 1 .. 8 => \E w \in Word : e.text = <<w>>
    BY <2>1 DEF SystemWords, Entry, LastSystemCell
  <2>6. i \in 9 .. 11 => \E f \in {"emit", "key", "output"} : e.text = Calling(f)
    BY DEF SystemWords, Entry
  <2>7. e.flags \in 0 .. 15
    BY KindsAreFlags DEF SystemWords, Entry
  <2>8. i \in 1 .. 8 \/ i \in 9 .. 11
    OBVIOUS
  <2> DEFINE text == e.text
  <2> HIDE DEF text
  <2>11. i \in 1 .. 8 => text \in Seq(Word) /\ Len(text) = 1
    BY <2>4, <2>5 DEF text
  <2>12. i \in 9 .. 11 => text \in Seq(Word) /\ Len(text) = 4
    BY <2>2, <2>3, <2>6 DEF text
  <2>13. i \in 1 .. 8 => SystemSize(i) = 4
    BY DEF SystemSize
  <2>14. i \in 9 .. 11 => SystemSize(i) = 7
    BY DEF SystemSize
  <2>16. text \in Seq(Word)
    BY <2>8, <2>11, <2>12
  <2> DEFINE n == Len(text)
  <2>17. (i \in 1 .. 8 => n = 1) /\ (i \in 9 .. 11 => n = 4)
    BY <2>11, <2>12
  <2> HIDE DEF n
  <2>18. n + 3 = SystemSize(i)
    BY <2>8, <2>13, <2>14, <2>17
  <2>15. text \in Seq(Word) /\ Len(text) + 3 = SystemSize(i)
    BY <2>16, <2>18 DEF n
  <2>9. e.text \in Seq(Word) /\ Len(e.text) + 3 = SystemSize(i)
    BY <2>15 DEF text
  <2>10. QED
    BY <2>7, <2>9
<1> HIDE DEF e, link
<1>7. HeaderMark + e.flags \in Word
  <2> DEFINE f == e.flags
  <2>1. f \in 0 .. 15
    BY <1>5
  <2> HIDE DEF f
  <2>2. HeaderMark + f \in 0 .. 255
    BY <2>1 DEF HeaderMark
  <2>3. QED
    BY <2>2, ByteIsWord DEF f
<1>8. hs \in Seq(Word) /\ Len(hs) = 3
  BY <1>2, <1>4, <1>7
<1>9. QED
  BY <1>5, <1>6, <1>8 DEF e

LEMMA SystemCellsTyped ==
    ASSUME NEW i \in 1 .. 11
    PROVE  SystemCells(i) \in Seq(Word) /\ Len(SystemCells(i)) = SystemSize(i)
<1> DEFINE head == SystemHead(i)
           text == SystemWords[i].text
<1>1. /\ SystemCells(i) = head \o text
      /\ head \in Seq(Word) /\ Len(head) = 3
      /\ text \in Seq(Word) /\ Len(text) + 3 = SystemSize(i)
  BY SystemParts
<1> HIDE DEF head, text
<1>2. head \o text \in Seq(Word) /\ Len(head \o text) = Len(head) + Len(text)
  BY <1>1, ConcatProperties
<1>3. Len(text) \in Nat
  BY <1>1
<1>4. QED
  BY <1>1, <1>2, <1>3

\* Where the i-th of them lies, and that they lie one behind the other.
LEMMA SystemPlaces ==
    /\ \A i \in 1 .. 8 : SystemAt(i) = DictBase + 4 * i - 4
    /\ SystemAt(9) = DictBase + 32 /\ SystemAt(10) = DictBase + 39 /\ SystemAt(11) = DictBase + 46
  BY DictAssumption DEF SystemAt

LEMMA SystemCovers ==
    ASSUME NEW a \in DictBase .. LastSystemCell
    PROVE  \E k \in 1 .. 11 : a \in SystemAt(k) .. (SystemAt(k) + SystemSize(k) - 1)
<1>1. DictBase \in Nat /\ LastSystemCell = DictBase + 52 /\ a \in Int
  BY DictAssumption DEF LastSystemCell
<1>2. CASE a < DictBase + 32
  <2> DEFINE q == (a - DictBase) \div 4
  <2>1. q \in 0 .. 7 /\ a - DictBase >= 4 * q /\ a - DictBase <= 4 * q + 3
    BY <1>1, <1>2
  <2> HIDE DEF q
  <2>2. q + 1 \in 1 .. 8 /\ q + 1 \in 1 .. 11 /\ SystemSize(q + 1) = 4
    BY <2>1 DEF SystemSize
  <2>3. SystemAt(q + 1) = DictBase + 4 * (q + 1) - 4
    BY <2>2, SystemPlaces
  <2>4. a \in SystemAt(q + 1) .. (SystemAt(q + 1) + SystemSize(q + 1) - 1)
    BY <1>1, <2>1, <2>2, <2>3
  <2>5. QED
    BY <2>2, <2>4
<1>3. CASE a >= DictBase + 32
  <2>1. \/ a \in SystemAt(9) .. (SystemAt(9) + SystemSize(9) - 1)
        \/ a \in SystemAt(10) .. (SystemAt(10) + SystemSize(10) - 1)
        \/ a \in SystemAt(11) .. (SystemAt(11) + SystemSize(11) - 1)
    BY <1>1, <1>3, SystemPlaces DEF SystemSize
  <2>2. QED
    BY <2>1
<1>4. QED
  BY <1>1, <1>2, <1>3

\* Only one of them covers a cell.
LEMMA SystemCoversOnce ==
    ASSUME NEW i \in 1 .. 11, NEW k \in 1 .. 11, NEW a \in Int,
           a \in SystemAt(i) .. (SystemAt(i) + SystemSize(i) - 1),
           a \in SystemAt(k) .. (SystemAt(k) + SystemSize(k) - 1)
    PROVE  i = k
<1>1. DictBase \in Nat
  BY DictAssumption
<1>2. \A j \in 1 .. 11 : j \in 1 .. 8 \/ j = 9 \/ j = 10 \/ j = 11
  OBVIOUS
<1>3. \A j \in 1 .. 8 : SystemAt(j) = DictBase + 4 * j - 4 /\ SystemSize(j) = 4
  BY SystemPlaces DEF SystemSize
<1>4. /\ SystemAt(9) = DictBase + 32 /\ SystemAt(10) = DictBase + 39 /\ SystemAt(11) = DictBase + 46
      /\ SystemSize(9) = 7 /\ SystemSize(10) = 7 /\ SystemSize(11) = 7
  BY SystemPlaces DEF SystemSize
<1>5. CASE i \in 1 .. 8
  <2>1. CASE k \in 1 .. 8
    BY <1>1, <1>3, <1>5, <2>1
  <2>2. CASE k = 9 \/ k = 10 \/ k = 11
    BY <1>1, <1>3, <1>4, <1>5, <2>2
  <2>3. QED
    BY <1>2, <2>1, <2>2
<1>6. CASE i = 9 \/ i = 10 \/ i = 11
  <2>1. CASE k \in 1 .. 8
    BY <1>1, <1>3, <1>4, <1>6, <2>1
  <2>2. CASE k = 9 \/ k = 10 \/ k = 11
    BY <1>1, <1>4, <1>6, <2>2
  <2>3. QED
    BY <1>2, <2>1, <2>2
<1>7. QED
  BY <1>2, <1>5, <1>6

\* What the shell's set-up puts into the i-th word's cells.
LEMMA RamImageIs ==
    ASSUME NEW i \in 1 .. 11, NEW j \in 1 .. SystemSize(i)
    PROVE  /\ SystemAt(i) + j - 1 \in DictBase .. LastSystemCell
           /\ RamImage[SystemAt(i) + j - 1] = SystemCells(i)[j]
<1>1. DictBase \in Nat /\ LastSystemCell = DictBase + 52
  BY DictAssumption DEF LastSystemCell
<1>2. SystemAt(i) \in Int /\ DictBase <= SystemAt(i) /\ SystemAt(i) + SystemSize(i) - 1 <= DictBase + 52
      /\ SystemSize(i) \in Nat
  BY <1>1, SystemPlaces DEF SystemSize
<1> DEFINE a == SystemAt(i) + j - 1
<1>3. a \in DictBase .. LastSystemCell /\ a \in SystemAt(i) .. (SystemAt(i) + SystemSize(i) - 1)
      /\ a \in Int /\ a - SystemAt(i) + 1 = j
  BY <1>1, <1>2
<1> DEFINE Covers(k) == a \in SystemAt(k) .. (SystemAt(k) + Len(SystemCells(k)) - 1)
           c == CHOOSE k \in 1 .. Len(SystemWords) : Covers(k)
<1>4. Len(SystemWords) = 11
  BY DEF SystemWords
<1>5. \A k \in 1 .. 11 : Covers(k) <=> a \in SystemAt(k) .. (SystemAt(k) + SystemSize(k) - 1)
  BY SystemCellsTyped
<1> HIDE DEF a
<1>6. \E k \in 1 .. Len(SystemWords) : Covers(k)
  BY <1>3, <1>4, <1>5
<1>7. c \in 1 .. 11 /\ Covers(c)
  <2> HIDE DEF Covers
  <2>1. QED
    BY <1>4, <1>6
<1>8. c = i
  <2> HIDE DEF c
  <2>1. QED
    BY <1>3, <1>5, <1>7, SystemCoversOnce
<1>9. a \in Ram
  BY <1>3, SystemAssumption
<1>10. RamImage[a] = SystemCells(c)[a - SystemAt(c) + 1]
  BY <1>3, <1>9 DEF RamImage
<1> HIDE DEF c
<1>11. RamImage[a] = SystemCells(i)[j]
  BY <1>3, <1>8, <1>10
<1>12. QED
  BY <1>3, <1>11 DEF a

LEMMA RamImageTyped == RamImage \in [Ram -> Word]
<1>1. RamImage = [a \in Ram |-> RamImage[a]]
  BY DEF RamImage
<1>2. ASSUME NEW a \in Ram PROVE RamImage[a] \in Word
  <2>1. CASE a \notin DictBase .. LastSystemCell
    BY <2>1, CodeIsWord DEF RamImage
  <2>2. CASE a \in DictBase .. LastSystemCell
    <3>1. PICK k \in 1 .. 11 : a \in SystemAt(k) .. (SystemAt(k) + SystemSize(k) - 1)
      BY <2>2, SystemCovers
    <3>2. SystemAt(k) \in Int /\ SystemSize(k) \in Int
      BY SystemPlaces, DictAssumption DEF SystemSize
    <3> DEFINE j == a - SystemAt(k) + 1
    <3>3. j \in 1 .. SystemSize(k) /\ SystemAt(k) + j - 1 = a
      BY <3>1, <3>2
    <3> HIDE DEF j
    <3>4. RamImage[a] = SystemCells(k)[j]
      BY <3>3, RamImageIs
    <3> DEFINE cells == SystemCells(k)
    <3>7. cells \in Seq(Word) /\ Len(cells) = SystemSize(k)
      BY SystemCellsTyped
    <3> HIDE DEF cells
    <3>8. j \in 1 .. Len(cells)
      BY <3>3, <3>7
    <3>5. cells[j] \in Word
      BY <3>7, <3>8
    <3>6. QED
      BY <3>4, <3>5 DEF cells
  <2>3. QED
    BY <2>1, <2>2
<1>3. QED
  BY <1>1, <1>2

LEMMA InitTyped == Init => ShellTypeOK
<1> SUFFICES ASSUME Init PROVE ShellTypeOK
  OBVIOUS
<1>1. RegistersOK
  BY MachineInitTyped, RamImageTyped DEF Init, TypeOK
<1>2. strbuf \in Seq(Tokens) /\ Len(strbuf) < StrbufSize
  BY OwnLinesTyped DEF Init
<1>3. brackets = <<>> /\ typed = <<>>
  BY DEF Init
<1>4. brackets \in Seq(Word) /\ typed \in Seq(Seq(Tokens))
  BY <1>3
<1>5. job = "banner" /\ at = "word" /\ err = "OK"
  BY DEF Init
<1>6. QED
  BY <1>1, <1>2, <1>4, <1>5 DEF ShellTypeOK

\* Whatever the user types, the shell's registers and variables keep their types
\* as long as the machine is defined: every instruction, every C function and
\* every step of the loop leaves the data stack pointer inside its stack and the
\* return stack pointer above its base, and writes words only.
THEOREM ShellTyped == Spec => []ShellTypeOK
  BY InitTyped, NextKeepsTypes, PTL DEF Spec

-----------------------------------------------------------------------------
(* The dictionary: the list of words.                                       *)

\* The list from a on, where from gives the lists from the addresses below it.
ListFrom(m, from, a) ==
    IF ~({a, a + 2} \subseteq Ram) THEN <<a>>
    ELSE IF m[a + 2] \notin Ram THEN <<a, m[a + 2]>>
    ELSE IF m[a + 2] < a THEN <<a>> \o from[m[a + 2]]
    ELSE <<a>>

\* All that the list depends on.
RamOK(m) == \A a \in Ram : m[a] \in Word

LEMMA MemoryIsRam == \A m : MemoryOK(m) => RamOK(m)
  BY DEF MemoryOK, RamOK, Memory, Cells

LEMMA ListFromTyped ==
    ASSUME NEW m, RamOK(m), NEW from \in [Word -> Seq(Word)], NEW a \in Word
    PROVE  ListFrom(m, from, a) \in Seq(Word)
<1>1. <<a>> \in Seq(Word)
  OBVIOUS
<1>2. a + 2 \in Ram => m[a + 2] \in Word
  BY DEF RamOK
<1>3. m[a + 2] \in Word => from[m[a + 2]] \in Seq(Word)
  OBVIOUS
<1>4. m[a + 2] \in Word => <<a, m[a + 2]>> \in Seq(Word)
  OBVIOUS
<1>5. m[a + 2] \in Word => <<a>> \o from[m[a + 2]] \in Seq(Word)
  BY <1>1, <1>3, ConcatProperties
<1>6. QED
  BY <1>1, <1>2, <1>4, <1>5 DEF ListFrom

\* Only the lists from lower addresses matter.
LEMMA ListFromBelow ==
    ASSUME NEW m, NEW f, NEW g, NEW a \in Word, \A b \in Word : b < a => f[b] = g[b]
    PROVE  ListFrom(m, f, a) = ListFrom(m, g, a)
<1>1. m[a + 2] \in Ram => m[a + 2] \in Word
  BY LayoutAssumption
<1>2. m[a + 2] \in Ram /\ m[a + 2] < a => f[m[a + 2]] = g[m[a + 2]]
  BY <1>1
<1>3. QED
  BY <1>2 DEF ListFrom

\* WordList follows the links, however a program has changed them.
LEMMA WordListFollows ==
    ASSUME NEW m, RamOK(m)
    PROVE  \E from : /\ WordList(m) = from[m[forth_ptr]]
                     /\ \A a \in Word : from[a] = ListFrom(m, from, a)
<1> DEFINE N == Modulus
           Lists == Seq(Word)
           Turned(g) == [a \in Word |-> g[N - a]]
           F == [i \in 1 .. N |-> [g \in [1 .. N -> Lists] |-> ListFrom(m, Turned(g), N - i)]]
           Def(f) == f = [a \in Word |-> ListFrom(m, f, a)]
           from == CHOOSE f : Def(f)
<1>1. WordList(m) = from[m[forth_ptr]]
  BY Zenon DEF WordList, ListFrom
<1>2. N \in Nat /\ (\A i \in 1 .. N : N - i \in Word) /\ (\A a \in Word : N - a \in 1 .. N /\ N - (N - a) = a)
  BY ModulusIs DEF Word
<1>3. \A g \in [1 .. N -> Lists] : Turned(g) \in [Word -> Lists]
  BY <1>2
<1>4. F \in [1 .. N -> [[1 .. N -> Lists] -> Lists]]
  <2>1. \A i \in 1 .. N : \A g \in [1 .. N -> Lists] : ListFrom(m, Turned(g), N - i) \in Lists
    <3> HIDE DEF Turned
    <3>1. QED
      BY <1>2, <1>3, ListFromTyped
  <2> HIDE DEF Turned, Lists, N
  <2>2. QED
    BY <2>1
<1>5. ASSUME NEW i \in 1 .. N, NEW g \in [1 .. N -> Lists], NEW h \in [1 .. N -> Lists],
             \A j \in (i + 1) .. N : g[j] = h[j]
      PROVE  F[i][g] = F[i][h]
  <2>1. \A b \in Word : b < N - i => N - b \in (i + 1) .. N
    BY <1>2 DEF Word
  <2>2. \A b \in Word : b < N - i => Turned(g)[b] = Turned(h)[b]
    BY <1>5, <2>1
  <2>3. N - i \in Word
    BY <1>2
  <2> HIDE DEF Turned, Lists, N
  <2>4. ListFrom(m, Turned(g), N - i) = ListFrom(m, Turned(h), N - i)
    BY <2>2, <2>3, ListFromBelow
  <2>5. QED
    BY <2>4
<1>6. Descending(N, Lists, F)
  <2> HIDE DEF F, Lists
  <2>1. QED
    BY <1>2, <1>4, <1>5 DEF Descending
<1>7. <<>> \in Lists
  OBVIOUS
<1>8. PICK g : Descended(N, Lists, F, g)
  <2> HIDE DEF F, Lists, N
  <2>1. QED
    BY <1>6, <1>7, Descends
<1>9. g \in [1 .. N -> Lists] /\ \A i \in 1 .. N : g[i] = ListFrom(m, Turned(g), N - i)
  <2> HIDE DEF Turned, Lists, N
  <2>1. QED
    BY <1>8 DEF Descended
<1>10. Def(Turned(g))
  <2>1. \A a \in Word : Turned(g)[a] = ListFrom(m, Turned(g), a)
    <3> SUFFICES ASSUME NEW a \in Word PROVE Turned(g)[a] = ListFrom(m, Turned(g), a)
      OBVIOUS
    <3>1. Turned(g)[a] = g[N - a]
      OBVIOUS
    <3> HIDE DEF Turned
    <3>2. QED
      BY <1>2, <1>9, <3>1
  <2>2. Turned(g) = [a \in Word |-> Turned(g)[a]]
    OBVIOUS
  <2> HIDE DEF Turned
  <2>3. QED
    BY <2>1, <2>2
<1>11. Def(from)
  <2> HIDE DEF Def
  <2>1. QED
    BY <1>10
<1> HIDE DEF from
<1>12. \A a \in Word : from[a] = ListFrom(m, from, a)
  <2> DEFINE V == [a \in Word |-> ListFrom(m, from, a)]
  <2>1. \A a \in Word : V[a] = ListFrom(m, from, a)
    OBVIOUS
  <2>2. from = V
    BY <1>11
  <2> HIDE DEF V
  <2>3. QED
    BY <2>1, <2>2
<1>13. QED
  BY <1>1, <1>12
-----------------------------------------------------------------------------
(* The dictionary: the chain of headers.                                    *)

LEMMA LastOfLinks ==
    ASSUME NEW n \in Nat, n > 11
    PROVE  n - 2 \in 0 .. (n - 2) /\ n - ((n - 2) + 1) = 1
<1>1. n - 2 \in Int /\ 0 <= n - 2 /\ n - 2 <= n - 2
  OBVIOUS
<1>2. n - 2 \in 0 .. (n - 2)
  BY <1>1
<1>3. n \in Int /\ (n - 2) + 1 = n - 1 /\ n - (n - 1) = 1
  OBVIOUS
<1>4. QED
  BY <1>2, <1>3

\* Such a chain is the list of words.
LEMMA LinkedIsList ==
    ASSUME NEW m, RamOK(m), NEW s, Linked(m, s)
    PROVE  WordList(m) = s
<1> DEFINE L == Len(s)
<1>1. PICK from : /\ WordList(m) = from[m[forth_ptr]]
                  /\ \A a \in Word : from[a] = ListFrom(m, from, a)
  BY WordListFollows
<1>2. s \in Seq(Word) /\ L \in Nat /\ L > 11 /\ s[1] = m[forth_ptr] /\ s[L] = LastRom
  BY DEF Linked
<1>13. L \in Nat /\ L > 11
  BY <1>2
<1>3. LastRom \notin Ram
  BY SystemAssumption, LayoutAssumption DEF Cells
<1>4. \A i \in 1 .. (L - 1) : s[i] \in Word /\ s[i + 1] \in Word
  BY <1>2
<1> DEFINE Upto(k) == from[s[L - k]] = SubSeq(s, L - k, L)
           T == {k \in 0 .. (L - 2) : Upto(k + 1)}
<1>5. 0 \in T
  <2>1. L - 1 \in 1 .. (L - 1) /\ L - 1 \in 1 .. L /\ (L - 1) + 1 = L /\ L \in 1 .. L /\ 0 + 1 = 1
    BY <1>2
  <2>2. {s[L - 1], s[L - 1] + 2} \subseteq Ram /\ m[s[L - 1] + 2] = LastRom
    BY <1>2, <2>1 DEF Linked
  <2>3. from[s[L - 1]] = <<s[L - 1], LastRom>>
    BY <1>1, <1>3, <1>4, <2>1, <2>2 DEF ListFrom
  <2> DEFINE r == SubSeq(s, L - 1, L)
             t == <<s[L - 1], s[L]>>
  <2>4. r \in Seq(Word) /\ Len(r) = 2 /\ r[1] = s[L - 1] /\ r[2] = s[L]
    <3>1. L - 1 \in Int /\ L \in Int /\ L - 1 <= L /\ L - (L - 1) + 1 = 2 /\ (L - 1) + 1 - 1 = L - 1
          /\ (L - 1) + 2 - 1 = L /\ 1 \in 1 .. 2 /\ 2 \in 1 .. 2
      BY <1>13
    <3>2. \A i \in (L - 1) .. L : s[i] \in Word
      BY <1>2, <1>13
    <3> HIDE DEF L
    <3>3. QED
      BY <3>1, <3>2, SubSeqProperties
  <2>5. t \in Seq(Word) /\ Len(t) = 2 /\ t[1] = s[L - 1] /\ t[2] = s[L]
    BY <1>4, <2>1
  <2>6. r = t
    <3> HIDE DEF r, t
    <3>1. \A i \in 1 .. Len(r) : r[i] = t[i]
      <4>1. \A i \in 1 .. 2 : i = 1 \/ i = 2
        OBVIOUS
      <4>2. QED
        BY <2>4, <2>5, <4>1
    <3>2. QED
      BY <2>4, <2>5, <3>1, SeqEqual
  <2>7. 0 \in 0 .. (L - 2)
    BY <1>2
  <2>8. QED
    BY <1>2, <2>1, <2>3, <2>6, <2>7
<1>6. ASSUME NEW k \in 0 .. ((L - 2) - 1), k \in T
      PROVE  k + 1 \in T
  <2> DEFINE i == L - (k + 2)
  <2>1. i \in 1 .. (L - 2) /\ i \in 1 .. (L - 1) /\ i + 1 \in 1 .. (L - 1) /\ i + 1 = L - (k + 1)
        /\ i \in 1 .. L /\ L \in i .. L /\ k + 1 \in 0 .. (L - 2) /\ (k + 1) + 1 = k + 2 /\ i < i + 1
    BY <1>2
  <2>2. from[s[i + 1]] = SubSeq(s, i + 1, L)
    BY <1>6, <2>1
  <2> HIDE DEF i
  <2>3. {s[i], s[i] + 2} \subseteq Ram /\ m[s[i] + 2] = s[i + 1] /\ s[i + 1] \in Ram
        /\ s[i + 1] + 2 < s[i]
    BY <2>1 DEF Linked
  <2>4. s[i + 1] < s[i]
    BY <1>4, <2>1, <2>3, WordIsInt
  <2>5. from[s[i]] = <<s[i]>> \o from[s[i + 1]]
    BY <1>1, <1>4, <2>1, <2>3, <2>4 DEF ListFrom
  <2>6. SubSeq(s, i, L) = <<s[i]>> \o SubSeq(s, i + 1, L)
    BY <1>2, <2>1, SubSeqRecursiveFirst
  <2>7. from[s[i]] = SubSeq(s, i, L)
    BY <2>2, <2>5, <2>6
  <2>8. Upto(k + 2)
    BY <2>7 DEF i
  <2> HIDE DEF Upto
  <2>9. QED
    BY <2>1, <2>8
<1> HIDE DEF T
<1>7. \A k \in 0 .. (L - 2) : k \in T
  <2>1. L - 2 \in Nat
    BY <1>2
  <2> HIDE DEF L
  <2>2. QED
    BY <1>5, <1>6, <2>1, IntervalInduction
<1>8. L - 2 \in 0 .. (L - 2) /\ L - ((L - 2) + 1) = 1
  BY <1>13, LastOfLinks
<1>9. Upto((L - 2) + 1)
  BY <1>7, <1>8 DEF T
<1>10. from[s[1]] = SubSeq(s, 1, L)
  BY <1>8, <1>9
<1>11. SubSeq(s, 1, L) = s
  BY <1>2, SubSeqFull
<1>12. QED
  BY <1>1, <1>2, <1>10, <1>11
-----------------------------------------------------------------------------
(* The dictionary: what a step may store.                                   *)

\* From m to m2 the cells of P and FORTH stay as they are, and HERE where it may be.
Leaves(P, m, m2) ==
    /\ DOMAIN m2 = Memory
    /\ \A a \in P \cup {forth_ptr} : m2[a] = m[a]
    /\ m2[here_ptr] \in Ram /\ m[forth_ptr] + 2 <= m2[here_ptr]

\* A new header is laid behind HERE and FORTH set to it; the cells of P stay.
Adds(P, m, m2) ==
    LET h == m[here_ptr] + 1
    IN  /\ \A a \in P : m2[a] = m[a]
        /\ {h, h + 1, h + 2} \subseteq Ram
        /\ m2[forth_ptr] = h /\ m2[h + 2] = m[forth_ptr]
        /\ m2[h] \in {HeaderMark + VAR, HeaderMark + CONST, HeaderMark + TEXT}
        /\ m2[h + 1] \in {Name[token] : token \in Tokens}
        /\ m2[here_ptr] \in Ram /\ h + 2 <= m2[here_ptr]

\* The newest header is made immediate; the other cells of P stay.
Marks(P, m, m2) ==
    LET h == m[forth_ptr]
    IN  /\ h \in Ram /\ (m[h] \div IMMEDIATE) % 2 # 1
        /\ m2 = [m EXCEPT ![h] = @ + IMMEDIATE]

\* Cells that a step may store at whatever P is.
Free(P, a) == a \notin P \cup Pointers

LEMMA PlacesOfVariables ==
    /\ \A p \in Variables \cup Pointers : p \in Ram /\ p \in Memory /\ p \in Int
    /\ Variables \cap Pointers = {} /\ here_ptr # forth_ptr
    /\ \A p \in Variables \cup Pointers : DictBase <= p /\ p <= DictBase + 27
<1>1. DictBase \in Nat
  BY DictAssumption
<1>2. i_var = DictBase + 27 /\ i_var \in DictBase .. LastSystemCell
  BY <1>1 DEF i_var, LastSystemCell
<1>3. i_var \in Ram
  BY <1>2, SystemAssumption
<1>4. \A p \in Variables \cup Pointers : p \in Ram
  BY <1>3, PlacesAreCells DEF Variables, Pointers, Places
<1>5. \A p \in Variables \cup Pointers : p \in Memory /\ p \in Int
  BY <1>4, LayoutAssumption, WordIsInt DEF Memory, Cells
<1>6. \A p \in Variables \cup Pointers : DictBase <= p /\ p <= DictBase + 27
  BY <1>1 DEF Variables, Pointers, in_ptr, state_ptr, sandbox_ptr, i_var, forth_ptr, here_ptr
<1>7. Variables \cap Pointers = {} /\ here_ptr # forth_ptr
  BY <1>1 DEF Variables, Pointers, in_ptr, state_ptr, sandbox_ptr, i_var, forth_ptr, here_ptr
<1>8. QED
  BY <1>4, <1>5, <1>6, <1>7

\* The stacks, the variables and what lies below the dictionary are free.
LEMMA StacksAreFree ==
    ASSUME NEW m, NEW P, Roomy(m, P), NEW a, a \in Stack \cup RStack
    PROVE  Free(P, a)
<1>1. a \notin Ram /\ a \notin DOMAIN Rom
  BY LayoutAssumption DEF Cells
<1>2. a \notin Pointers
  BY <1>1, PlacesOfVariables
<1>3. QED
  BY <1>1, <1>2 DEF Roomy, Free

LEMMA VariablesAreFree ==
    ASSUME NEW m, NEW P, Roomy(m, P), NEW a \in Variables
    PROVE  Free(P, a)
  BY PlacesOfVariables DEF Roomy, Free

LEMMA SandboxIsFree ==
    ASSUME NEW m, NEW P, Roomy(m, P), NEW a \in Ram, a < DictBase
    PROVE  Free(P, a)
<1>1. a \in Int /\ DictBase \in Int /\ a \notin DOMAIN Rom
  BY DictAssumption, LayoutAssumption, WordIsInt DEF Cells
<1>2. a \notin Pointers
  BY <1>1, PlacesOfVariables
<1>3. a \notin P
  <2>1. a \in P => a \in Ram /\ DictBase <= a
    BY <1>1 DEF Roomy
  <2>2. QED
    BY <1>1, <2>1
<1>4. QED
  BY <1>2, <1>3 DEF Free

LEMMA BehindHereIsFree ==
    ASSUME NEW m, m[here_ptr] \in Int, NEW P, Roomy(m, P), NEW a \in Ram, a > m[here_ptr]
    PROVE  Free(P, a)
<1>1. a \in Int /\ DictBase \in Int /\ a \notin DOMAIN Rom
  BY DictAssumption, LayoutAssumption, WordIsInt DEF Cells
<1>2. DictBase + 48 <= m[here_ptr]
  BY DEF Roomy
<1>3. a \notin Pointers
  BY <1>1, <1>2, PlacesOfVariables
<1>4. a \notin P
  <2>1. a \in P => a <= m[here_ptr]
    BY <1>1 DEF Roomy
  <2>2. QED
    BY <1>1, <2>1
<1>5. QED
  BY <1>3, <1>4 DEF Free

\* Nothing stored; one cell stored.
LEMMA KeepingLeaves ==
    ASSUME NEW m, NEW P, Roomy(m, P)
    PROVE  Leaves(P, m, m)
  BY DEF Roomy, Leaves

LEMMA KeptAreCells ==
    ASSUME NEW m, NEW P, Roomy(m, P)
    PROVE  \A a \in P \cup Pointers : a \in Memory
<1>1. \A a \in P : a \in Ram \/ a \in DOMAIN Rom
  BY DEF Roomy
<1>2. QED
  BY <1>1, PlacesOfVariables DEF Memory, Cells

LEMMA StoringLeaves ==
    ASSUME NEW m, NEW P, Roomy(m, P), NEW m1, Leaves(P, m, m1), NEW a, Free(P, a), NEW v
    PROVE  Leaves(P, m, [m1 EXCEPT ![a] = v])
<1>1. DOMAIN m1 = Memory
  BY DEF Leaves
<1>2. \A b \in P \cup Pointers : [m1 EXCEPT ![a] = v][b] = m1[b]
  BY <1>1, KeptAreCells DEF Free
<1>3. QED
  BY <1>1, <1>2 DEF Leaves, Pointers

\* HERE moved within bounds.
LEMMA MovingHereLeaves ==
    ASSUME NEW m, NEW P, Roomy(m, P), NEW m1, Leaves(P, m, m1), NEW v,
           [m1 EXCEPT ![here_ptr] = v][here_ptr] \in Ram,
           m[forth_ptr] + 2 <= [m1 EXCEPT ![here_ptr] = v][here_ptr]
    PROVE  Leaves(P, m, [m1 EXCEPT ![here_ptr] = v])
<1>1. here_ptr \notin P \cup {forth_ptr}
  BY PlacesOfVariables DEF Roomy, Pointers
<1>2. QED
  BY <1>1 DEF Leaves

\* Code compiled behind HERE, or into the sandbox as long as it fits there.
LEMMA CompilingLeaves ==
    ASSUME NEW m, NEW P, Roomy(m, P), m[here_ptr] \in Int, NEW m1, MemoryOK(m1), Leaves(P, m, m1),
           m1[here_ptr] = m[here_ptr], NEW ws, Len(ws) \in Nat \ {0},
           Fits(m, here_ptr, Len(ws))
    PROVE  /\ Leaves(P, m, Appended(m1, here_ptr, ws))
           /\ Appended(m1, here_ptr, ws)[here_ptr] = m[here_ptr] + Len(ws)
<1> DEFINE n == Len(ws)
           m2 == Appended(m1, here_ptr, ws)
<1>1. n \in Nat /\ n > 0 /\ n >= 1
  OBVIOUS
<1>2. \A a \in m[here_ptr] + 1 .. m[here_ptr] + n : a \in Ram /\ a # here_ptr /\ a > m[here_ptr]
  BY DEF Fits
<1>3. \A a \in m[here_ptr] + 1 .. m[here_ptr] + n : Free(P, a)
  BY <1>2, BehindHereIsFree
<1>4. DOMAIN m1 = Memory
  BY DEF MemoryOK
<1>5. forth_ptr \in Memory /\ here_ptr \in Memory /\ forth_ptr # here_ptr /\ here_ptr \notin P
  BY PlacesOfVariables DEF Roomy, Pointers
<1>6. m2[here_ptr] = m[here_ptr] + n
  BY <1>4, <1>5 DEF Appended
<1>7. \A a \in P \cup {forth_ptr} : a \in Memory
  <2>1. \A a \in P : a \in Ram \/ a \in DOMAIN Rom
    BY DEF Roomy
  <2>2. QED
    BY <1>5, <2>1 DEF Memory, Cells
<1>8. \A a \in P \cup {forth_ptr} : m2[a] = m1[a]
  <2> SUFFICES ASSUME NEW a \in P \cup {forth_ptr} PROVE m2[a] = m1[a]
    OBVIOUS
  <2>1. a # here_ptr /\ a \in Memory
    BY <1>5, <1>7
  <2>2. a \notin m[here_ptr] + 1 .. m[here_ptr] + n
    BY <1>3 DEF Free, Pointers
  <2>3. QED
    BY <1>4, <2>1, <2>2 DEF Appended
<1>9. m[here_ptr] + n \in Ram
  <2>1. m[here_ptr] + n \in m[here_ptr] + 1 .. m[here_ptr] + n
    <3> HIDE DEF n
    <3>1. QED
      BY <1>1
  <2>2. QED
    BY <1>2, <2>1
<1>10. m[forth_ptr] + 2 <= m[here_ptr] + n
  <2>1. m[forth_ptr] + 2 <= m[here_ptr]
    BY DEF Roomy
  <2>2. m[forth_ptr] \in Int
    <3>1. m1[forth_ptr] = m[forth_ptr]
      BY DEF Leaves
    <3>2. m1[forth_ptr] \in Word
      BY <1>5 DEF MemoryOK
    <3>3. QED
      BY <3>1, <3>2, WordIsInt
  <2> HIDE DEF n
  <2>3. QED
    BY <1>1, <2>1, <2>2
<1>11. Leaves(P, m, m2)
  <2>1. DOMAIN m2 = Memory
    BY <1>4 DEF Appended
  <2> HIDE DEF m2, n
  <2>2. QED
    BY <1>6, <1>8, <1>9, <1>10, <2>1 DEF Leaves
<1>12. QED
  BY <1>6, <1>11

LEMMA CompilingInSandboxLeaves ==
    ASSUME NEW m, NEW P, Roomy(m, P), NEW m1, MemoryOK(m1), Leaves(P, m, m1),
           NEW ws, Len(ws) \in Nat, Fits(m1, sandbox_ptr, Len(ws)),
           Appended(m1, sandbox_ptr, ws)[sandbox_ptr] < DictBase
    PROVE  Leaves(P, m, Appended(m1, sandbox_ptr, ws))
<1> DEFINE n == Len(ws)
           m2 == Appended(m1, sandbox_ptr, ws)
           c == m1[sandbox_ptr]
<1>1. DOMAIN m1 = Memory /\ sandbox_ptr \in Memory /\ forth_ptr \in Memory /\ here_ptr \in Memory
  BY PlacesOfVariables DEF MemoryOK, Variables, Pointers
<1>2. c \in Int /\ n \in Int
  BY <1>1, WordIsInt DEF MemoryOK
<1>3. c + n < DictBase
  BY <1>1 DEF Appended
<1>4. \A a \in c + 1 .. c + n : Free(P, a)
  <2> SUFFICES ASSUME NEW a \in c + 1 .. c + n PROVE Free(P, a)
    OBVIOUS
  <2>1. a \in Ram
    BY DEF Fits
  <2> HIDE DEF c, n
  <2>2. a < DictBase
    BY <1>2, <1>3, DictAssumption
  <2>3. QED
    BY <2>1, <2>2, SandboxIsFree
<1>5. Free(P, sandbox_ptr)
  BY VariablesAreFree DEF Variables
<1>6. \A a \in P \cup Pointers : a \in Memory
  <2>1. \A a \in P : a \in Ram \/ a \in DOMAIN Rom
    BY DEF Roomy
  <2>2. QED
    BY <1>1, <2>1 DEF Memory, Cells, Pointers
<1>7. \A a \in P \cup Pointers : m2[a] = m1[a]
  BY <1>1, <1>4, <1>5, <1>6 DEF Appended, Free
<1>8. DOMAIN m2 = Memory
  BY <1>1 DEF Appended
<1>9. QED
  BY <1>7, <1>8 DEF Leaves, Pointers

LEMMA TwoStoresLeave ==
    ASSUME NEW m, NEW P, Roomy(m, P), NEW m1, Leaves(P, m, m1), NEW a, Free(P, a), NEW v,
           NEW b, Free(P, b), NEW w
    PROVE  Leaves(P, m, [m1 EXCEPT ![a] = v, ![b] = w])
<1>1. Leaves(P, m, [[m1 EXCEPT ![a] = v] EXCEPT ![b] = w])
  BY StoringLeaves
<1>2. [m1 EXCEPT ![a] = v, ![b] = w] = [[m1 EXCEPT ![a] = v] EXCEPT ![b] = w]
  OBVIOUS
<1>3. QED
  BY <1>1, <1>2

LEMMA FourStoresLeave ==
    ASSUME NEW m, NEW P, Roomy(m, P), NEW m1, Leaves(P, m, m1), NEW a, Free(P, a), NEW u,
           NEW b, Free(P, b), NEW v, NEW c, Free(P, c), NEW w, NEW d, Free(P, d), NEW x
    PROVE  Leaves(P, m, [m1 EXCEPT ![a] = u, ![b] = v, ![c] = w, ![d] = x])
<1>1. Leaves(P, m, [[m1 EXCEPT ![a] = u, ![b] = v] EXCEPT ![c] = w, ![d] = x])
  BY TwoStoresLeave
<1>2. [m1 EXCEPT ![a] = u, ![b] = v, ![c] = w, ![d] = x]
        = [[m1 EXCEPT ![a] = u, ![b] = v] EXCEPT ![c] = w, ![d] = x]
  OBVIOUS
<1>3. QED
  BY <1>1, <1>2

\* The step does not store at P, FORTH or HERE where the program says so, and
\* keeps the bounds of HERE and of the sandbox.
HereStays == Calls("allot") \/ Calls("then_immediate") =>
                mem'[here_ptr] \in Ram /\ mem[forth_ptr] + 2 <= mem'[here_ptr]
SandboxFits == mem'[sandbox_ptr] < DictBase
Careful(P) ==
    /\ Roomy(mem, P)
    /\ \A a \in P \cup Pointers : a \in Cells => ~StoresAt(a)
    /\ HereStays /\ SandboxFits

Kept(P) == Leaves(P, mem, mem')

LEMMA UnchangedKeeps ==
    ASSUME NEW P, Careful(P), UNCHANGED mem
    PROVE  Kept(P)
  BY KeepingLeaves DEF Careful, Kept

LEMMA UndefinedKeeps ==
    ASSUME NEW P, Careful(P), Undefined
    PROVE  Kept(P)
  BY UnchangedKeeps DEF Undefined

LEMMA StackKeeps ==
    ASSUME NEW P, Careful(P), NEW a, a \in Stack \cup RStack, NEW v, mem' = [mem EXCEPT ![a] = v]
    PROVE  Kept(P)
<1>1. Free(P, a)
  BY StacksAreFree DEF Careful
<1>2. QED
  BY <1>1, KeepingLeaves, StoringLeaves DEF Careful, Kept

LEMMA PushKeeps ==
    ASSUME RegistersOK, NEW P, Careful(P), NEW v, Push(v)
    PROVE  Kept(P)
<1>1. sp - 1 \in Stack
  BY LayoutAssumption DEF Push, Full, RegistersOK, Stack
<1>2. QED
  BY <1>1, StackKeeps DEF Push

LEMMA BinaryKeeps ==
    ASSUME RegistersOK, NEW P, Careful(P), NEW op, NEW r, Binary(op, r) \/ Dividing(op, r)
    PROVE  Kept(P)
<1>1. CASE Holds(2) /\ mem' = [mem EXCEPT ![sp + 1] = r]
  <2>1. sp + 1 \in Stack
    BY <1>1, TopsAreWords
  <2>2. QED
    BY <1>1, <2>1, StackKeeps
<1>2. CASE UNCHANGED mem
  BY <1>2, UnchangedKeeps
<1>3. QED
  BY <1>1, <1>2 DEF Binary, Dividing, Underflow, Raise

LEMMA InstructionKeeps ==
    ASSUME RegistersOK, NEW P, Careful(P), Instruction
    PROVE  Kept(P)
<1>1. CASE UNCHANGED mem
  BY <1>1, UnchangedKeeps
<1>3. CASE vm_add \/ vm_sub \/ vm_mul \/ vm_and \/ vm_or \/ vm_xor \/ vm_less \/ vm_greater \/ vm_div \/ vm_mod
  BY <1>3, BinaryKeeps
     DEF vm_add, vm_sub, vm_mul, vm_and, vm_or, vm_xor, vm_less, vm_greater, vm_div, vm_mod
<1>4. CASE vm_push \/ vm_pc \/ vm_sp
  BY <1>4, UndefinedKeeps, PushKeeps DEF vm_push, vm_pc, vm_sp
<1>5. CASE vm_none \/ vm_ret \/ vm_c_exec \/ vm_jmp \/ vm_it \/ vm_drop \/ vm_rdrop \/ vm_quit \/ BadFetch
  <2>1. UNCHANGED mem
    BY <1>5 DEF vm_none, vm_ret, vm_c_exec, vm_jmp, vm_it, vm_drop, vm_rdrop, vm_quit, BadFetch,
                Underflow, RUnderflow, Raise, Undefined
  <2>2. QED
    BY <1>1, <2>1
<1>6. CASE vm_call \/ vm_rpush
  <2>1. CASE UNCHANGED mem
    BY <2>1, <1>1
  <2>2. CASE ~RFull /\ \E v : mem' = [mem EXCEPT ![rsp - 1] = v]
    BY <2>2, StackKeeps DEF RFull
  <2>3. QED
    BY <1>6, <2>1, <2>2 DEF vm_call, vm_rpush, Underflow, Raise, Undefined
<1>7. CASE vm_rpop
  <2>1. CASE UNCHANGED mem
    BY <2>1, <1>1
  <2>2. CASE ~Full /\ mem' = [mem EXCEPT ![sp - 1] = mem[rsp]]
    <3>1. sp - 1 \in Stack
      BY <2>2, LayoutAssumption DEF Full, RegistersOK, Stack
    <3>2. QED
      BY <2>2, <3>1, StackKeeps
  <2>3. QED
    BY <1>7, <2>1, <2>2 DEF vm_rpop, RUnderflow, Raise, Undefined
<1>8. CASE vm_load
  <2>1. CASE UNCHANGED mem
    BY <2>1, <1>1
  <2>2. CASE Holds(1) /\ mem' = [mem EXCEPT ![sp] = Load(TOS)]
    <3>1. sp \in Stack
      BY <2>2, TopsAreWords
    <3>2. QED
      BY <2>2, <3>1, StackKeeps
  <2>3. QED
    BY <1>8, <2>1, <2>2 DEF vm_load, Underflow, Raise, Undefined
<1>9. CASE vm_swap
  <2>1. CASE UNCHANGED mem
    BY <2>1, <1>1
  <2>2. CASE Holds(2) /\ \E x, y : mem' = SwapCells(x, y)
    <3>1. PICK x, y : mem' = [mem EXCEPT ![sp] = XorWord(x, y), ![sp + 1] = y]
      BY <2>2 DEF SwapCells
    <3>2. sp \in Stack /\ sp + 1 \in Stack
      BY <2>2, TopsAreWords
    <3>3. Free(P, sp) /\ Free(P, sp + 1)
      BY <3>2, StacksAreFree DEF Careful
    <3>4. QED
      BY <3>1, <3>3, KeepingLeaves, TwoStoresLeave DEF Careful, Kept
  <2>3. QED
    BY <1>9, <2>1, <2>2 DEF vm_swap, Underflow, Raise
<1>10. CASE vm_str
  <2>1. CASE UNCHANGED mem
    BY <2>1, <1>1
  <2>2. CASE Holds(2) /\ Writable(TOS) /\ mem' = [mem EXCEPT ![TOS] = NOS]
    <3>1. StoresAt(TOS) /\ TOS \in Cells
      BY <1>10, <2>2 DEF vm_str, StoresAt, Writable
    <3>2. Free(P, TOS)
      BY <3>1 DEF Careful, Free
    <3>3. QED
      BY <2>2, <3>2, KeepingLeaves, StoringLeaves DEF Careful, Kept
  <2>3. QED
    BY <1>10, <2>1, <2>2 DEF vm_str, Underflow, Raise, Undefined
<1>11. QED
  BY <1>3, <1>4, <1>5, <1>6, <1>7, <1>8, <1>9, <1>10 DEF Instruction

-----------------------------------------------------------------------------
(* The dictionary: the C functions.                                         *)

\* The cells of the data stack that C functions use.
LEMMA NativeCells ==
    ASSUME RegistersOK, NEW f, Calls(f)
    PROVE  /\ Top - 1 \in Stack
           /\ sp # StackLo => Top - 2 \in Stack
           /\ Has(1) => Top \in Stack
           /\ Has(2) => Top \in Stack /\ Top + 1 \in Stack
<1>1. sp \in Stack
  BY TopsAreWords DEF Calls, NativeCall
<1>2. sp \in Int /\ StackTop \in Int /\ StackLo \in Int
  BY LayoutAssumption DEF RegistersOK
<1>3. QED
  BY <1>1, <1>2 DEF Stack, Top, Has

LEMMA ReturningKeeps ==
    ASSUME NEW P, NEW m, Leaves(P, mem, m), NEW s, Returns(m, s)
    PROVE  Kept(P)
  BY DEF Returns, Kept

LEMMA RaisingKeeps ==
    ASSUME NEW P, NEW m, Leaves(P, mem, m), NEW s, NEW e, Raises(e, m, s)
    PROVE  Kept(P)
  BY DEF Raises, Kept

LEMMA ShortKeeps ==
    ASSUME NEW P, Careful(P), NEW n, Short(n)
    PROVE  Kept(P)
  BY UnchangedKeeps DEF Short, Raises

LEMMA StackReturns ==
    ASSUME NEW P, Careful(P), NEW a, a \in Stack, NEW v, NEW s, Returns([mem EXCEPT ![a] = v], s)
    PROVE  Kept(P)
  BY StackKeeps DEF Returns

LEMMA UnaryKeeps ==
    ASSUME RegistersOK, NEW P, Careful(P), NEW f, NEW v, Unary(f, v)
    PROVE  Kept(P)
<1>1. CASE Short(1)
  BY <1>1, ShortKeeps
<1>2. CASE Has(1) /\ Returns([mem EXCEPT ![Top] = v], Top)
  <2>1. Top \in Stack
    BY <1>2, NativeCells DEF Unary
  <2>2. QED
    BY <1>2, <2>1, StackReturns
<1>3. QED
  BY <1>1, <1>2 DEF Unary

LEMMA PairKeeps ==
    ASSUME RegistersOK, NEW P, Careful(P), NEW f, NEW v, Pair(f, v)
    PROVE  Kept(P)
<1>1. CASE Short(2)
  BY <1>1, ShortKeeps
<1>2. CASE Has(2) /\ Returns([mem EXCEPT ![Top + 1] = v], Top + 1)
  <2>1. Top + 1 \in Stack
    BY <1>2, NativeCells DEF Pair
  <2>2. QED
    BY <1>2, <2>1, StackReturns
<1>3. QED
  BY <1>1, <1>2 DEF Pair

LEMMA ShiftKeeps ==
    ASSUME RegistersOK, NEW P, Careful(P), NEW f, NEW v, Shift(f, v)
    PROVE  Kept(P)
  BY UndefinedKeeps, PairKeeps DEF Shift

LEMMA ArithmeticKeeps ==
    ASSUME RegistersOK, NEW P, Careful(P), ArithmeticWord
    PROVE  Kept(P)
<1>1. CASE invert_handler \/ negate_handler \/ max_handler \/ min_handler \/ equal_handler
  BY <1>1, UnaryKeeps, PairKeeps
     DEF invert_handler, negate_handler, max_handler, min_handler, equal_handler
<1>2. CASE rshift_handler \/ lshift_handler
  BY <1>2, ShiftKeeps DEF rshift_handler, lshift_handler
<1>3. CASE abs_handler
  <2>1. CASE Short(1)
    BY <2>1, ShortKeeps
  <2>2. CASE Has(1) /\ \E v : Returns([mem EXCEPT ![Top] = v], Top)
    <3>1. Top \in Stack
      BY <1>3, <2>2, NativeCells DEF abs_handler
    <3>2. QED
      BY <2>2, <3>1, StackReturns
  <2>3. QED
    BY <1>3, <2>1, <2>2 DEF abs_handler
<1>4. CASE dup_if_no_zero_handler \/ drop_handler
  <2>1. CASE Short(1)
    BY <2>1, ShortKeeps
  <2>2. CASE UNCHANGED mem
    BY <2>2, UnchangedKeeps
  <2>3. CASE Returns([mem EXCEPT ![Top - 1] = Arg(0)], Top - 1)
    <3>1. Top - 1 \in Stack
      BY <1>4, NativeCells DEF dup_if_no_zero_handler, drop_handler
    <3>2. QED
      BY <2>3, <3>1, StackReturns
  <2>4. QED
    BY <1>4, <2>1, <2>2, <2>3 DEF dup_if_no_zero_handler, drop_handler, Returns
<1>5. CASE forth_swap_handler
  <2>1. CASE Short(2)
    BY <2>1, ShortKeeps
  <2>2. CASE Has(2) /\ \E v, w : Returns([mem EXCEPT ![Top] = v, ![Top + 1] = w], Top)
    <3>1. PICK v, w : Returns([mem EXCEPT ![Top] = v, ![Top + 1] = w], Top)
      BY <2>2
    <3>2. Top \in Stack /\ Top + 1 \in Stack
      BY <1>5, <2>2, NativeCells DEF forth_swap_handler
    <3>3. Free(P, Top) /\ Free(P, Top + 1)
      BY <3>2, StacksAreFree DEF Careful
    <3>4. Leaves(P, mem, [mem EXCEPT ![Top] = v, ![Top + 1] = w])
      BY <3>3, KeepingLeaves, TwoStoresLeave DEF Careful
    <3>5. QED
      BY <3>1, <3>4, ReturningKeeps
  <2>3. QED
    BY <1>5, <2>1, <2>2 DEF forth_swap_handler
<1>6. QED
  BY <1>1, <1>2, <1>3, <1>4, <1>5 DEF ArithmeticWord

\* Code compiled behind HERE.
LEMMA CompilesKeeps ==
    ASSUME RegistersOK, NEW P, Careful(P), NEW m, MemoryOK(m), Leaves(P, mem, m),
           m[here_ptr] = mem[here_ptr], NEW ws, Len(ws) \in Nat \ {0}, NEW s,
           Compiles(m, here_ptr, ws, s)
    PROVE  Kept(P)
<1>1. CASE Undefined
  BY <1>1, UndefinedKeeps
<1>2. CASE Fits(m, here_ptr, Len(ws)) /\ Returns(Appended(m, here_ptr, ws), s)
  <2>1. Fits(mem, here_ptr, Len(ws))
    BY <1>2 DEF Fits
  <2>2. Leaves(P, mem, Appended(m, here_ptr, ws))
    <3>1. mem[here_ptr] \in Int
      BY PointersAreCells, WordIsInt DEF RegistersOK
    <3>2. QED
      BY <2>1, <3>1, CompilingLeaves DEF Careful
  <2>3. QED
    BY <1>2, <2>2, ReturningKeeps
<1>3. QED
  BY <1>1, <1>2 DEF Compiles

\* Code compiled into the sandbox.
LEMMA CompilesToSandboxKeeps ==
    ASSUME RegistersOK, NEW P, Careful(P), NEW m, MemoryOK(m), Leaves(P, mem, m),
           NEW ws, Len(ws) \in Nat, NEW s, Compiles(m, sandbox_ptr, ws, s)
    PROVE  Kept(P)
<1>1. CASE Undefined
  BY <1>1, UndefinedKeeps
<1>2. CASE Fits(m, sandbox_ptr, Len(ws)) /\ Returns(Appended(m, sandbox_ptr, ws), s)
  <2>1. Appended(m, sandbox_ptr, ws)[sandbox_ptr] < DictBase
    BY <1>2 DEF Careful, SandboxFits, Returns
  <2>2. Leaves(P, mem, Appended(m, sandbox_ptr, ws))
    BY <1>2, <2>1, CompilingInSandboxLeaves DEF Careful
  <2>3. QED
    BY <1>2, <2>2, ReturningKeeps
<1>3. QED
  BY <1>1, <1>2 DEF Compiles

LEMMA CompilesSomewhereKeeps ==
    ASSUME RegistersOK, NEW P, Careful(P), NEW m, MemoryOK(m), Leaves(P, mem, m),
           m[here_ptr] = mem[here_ptr], NEW ws, Len(ws) \in Nat \ {0}, NEW s,
           NEW p \in {here_ptr, sandbox_ptr}, Compiles(m, p, ws, s)
    PROVE  Kept(P)
<1>1. CASE p = here_ptr
  BY <1>1, CompilesKeeps
<1>2. CASE p = sandbox_ptr
  BY <1>2, CompilesToSandboxKeeps
<1>3. QED
  BY <1>1, <1>2

\* Reading a token only moves >IN.
LEMMA TokenReadLeaves ==
    ASSUME RegistersOK, NEW P, Careful(P)
    PROVE  /\ Leaves(P, mem, TokenRead) /\ MemoryOK(TokenRead)
           /\ TokenRead[here_ptr] = mem[here_ptr] /\ TokenRead[forth_ptr] = mem[forth_ptr]
<1>1. Free(P, in_ptr)
  BY VariablesAreFree DEF Variables, Careful
<1>2. Leaves(P, mem, TokenRead)
  BY <1>1, KeepingLeaves, StoringLeaves DEF Careful, TokenRead
<1>3. TokenRead[here_ptr] = mem[here_ptr] /\ TokenRead[forth_ptr] = mem[forth_ptr]
  BY TokenReadKeeps, PlacesDiffer, PlacesAreCells DEF Places, RegistersOK
<1>4. QED
  BY <1>2, <1>3, TokenReadTyped

\* A word that reads a name, looks it up and compiles something about it.
LEMMA NamedKeeps ==
    ASSUME RegistersOK, NEW P, Careful(P), NEW p \in {here_ptr, sandbox_ptr},
           NEW ws, Len(ws) \in Nat \ {0},
           \/ Raises("MEMFAULT", mem, Top)
           \/ Undefined
           \/ Raises("STACK_UNDERFLOW", TokenRead, Top)
           \/ Compiles(TokenRead, p, ws, Top)
    PROVE  Kept(P)
<1>1. CASE Raises("MEMFAULT", mem, Top)
  BY <1>1, UnchangedKeeps DEF Raises
<1>2. CASE Raises("STACK_UNDERFLOW", TokenRead, Top)
  BY <1>2, TokenReadLeaves, RaisingKeeps
<1>3. CASE Compiles(TokenRead, p, ws, Top)
  BY <1>3, TokenReadLeaves, CompilesSomewhereKeeps
<1>4. QED
  BY <1>1, <1>2, <1>3, UndefinedKeeps

\* The three cells of the header that is laid behind HERE.
NewCells(m) == {m[here_ptr] + 1, m[here_ptr] + 2, m[here_ptr] + 3}

\* The cells Appended writes.
LEMMA AppendedIs ==
    ASSUME NEW m, NEW p \in DOMAIN m, m[p] \in Int, NEW ws, Len(ws) \in Nat, NEW i \in 1 .. Len(ws),
           m[p] + i \in DOMAIN m, m[p] + i # p
    PROVE  Appended(m, p, ws)[m[p] + i] = ws[i]
<1> DEFINE n == Len(ws)
           c == m[p]
<1>1. c + i \in c + 1 .. c + n /\ (c + i) - c = i
  <2>1. c \in Int /\ n \in Nat /\ i \in 1 .. n
    OBVIOUS
  <2> HIDE DEF c, n
  <2>2. QED
    BY <2>1
<1>2. QED
  BY <1>1 DEF Appended

LEMMA FlagCellIsWord == \A flag \in 0 .. 15 : HeaderMark + flag \in Word
<1>1. \A flag \in 0 .. 15 : HeaderMark + flag \in 0 .. 255
  BY DEF HeaderMark
<1>2. QED
  BY <1>1, ByteIsWord

LEMMA HeadOfConcat ==
    ASSUME NEW s \in Seq(Word), NEW t \in Seq(Word), Len(s) = 3, NEW i \in 1 .. 3
    PROVE  (s \o t)[i] = s[i]
<1>1. i \in 1 .. (Len(s) + Len(t)) /\ i <= Len(s)
  OBVIOUS
<1>2. QED
  BY <1>1, ConcatProperties

\* A header with code behind it is a new word, and takes nothing from P.
LEMMA AddingAdds ==
    ASSUME NEW m, NEW P, Roomy(m, P), NEW m1, MemoryOK(m1), Leaves(P, m, m1),
           m1[here_ptr] = m[here_ptr], m1[forth_ptr] = m[forth_ptr],
           NEW flag \in {VAR, CONST, TEXT}, NEW token \in Tokens, NEW ws \in Seq(Word),
           Fits(m, here_ptr, Len(ws) + 3)
    PROVE  /\ Adds(P, m, Added(m1, flag, token, ws))
           /\ Roomy(Added(m1, flag, token, ws), P \cup NewCells(m))
           /\ Added(m1, flag, token, ws)[here_ptr] = m[here_ptr] + Len(ws) + 3
<1> DEFINE n == Len(ws)
           h == m[here_ptr] + 1
           code0 == <<HeaderMark + flag, Name[token], m[forth_ptr]>>
           all == code0 \o ws
           m2 == Appended(m1, here_ptr, all)
           m3 == Added(m1, flag, token, ws)
<1>1. n \in Nat
  OBVIOUS
<1>2. m1[here_ptr] \in Word /\ m1[forth_ptr] \in Word
  BY PlacesOfVariables DEF MemoryOK, Pointers
<1>3. m[here_ptr] \in Int /\ m[here_ptr] \in Word /\ m[forth_ptr] \in Word
  BY <1>2, WordIsInt
<1>4. flag \in 0 .. 15 /\ Name[token] \in Word
  BY KindsAreFlags, NameIsWord
<1>5. all \in Seq(Word) /\ Len(all) = n + 3
  <2>1. HeaderMark + flag \in Word
    BY <1>4, FlagCellIsWord
  <2>2. code0 \in Seq(Word)
    BY <1>3, <1>4, <2>1
  <2>3. all \in Seq(Word)
    BY <2>2, ConcatProperties
  <2>4. Len(all) = n + 3
    BY <1>3, <1>4, HeaderIsCode
  <2>5. QED
    BY <2>3, <2>4
<1>6. all[1] = HeaderMark + flag /\ all[2] = Name[token] /\ all[3] = m[forth_ptr]
  <2>1. HeaderMark + flag \in Word
    BY <1>4, FlagCellIsWord
  <2>2. code0 \in Seq(Word) /\ Len(code0) = 3
    BY <1>3, <1>4, <2>1
  <2>3. 1 \in 1 .. 3 /\ 2 \in 1 .. 3 /\ 3 \in 1 .. 3
    OBVIOUS
  <2>4. code0[1] = HeaderMark + flag /\ code0[2] = Name[token] /\ code0[3] = m[forth_ptr]
    OBVIOUS
  <2>5. \A i \in 1 .. 3 : all[i] = code0[i]
    <3> HIDE DEF code0
    <3>1. QED
      BY <2>2, HeadOfConcat
  <2>6. QED
    BY <2>3, <2>4, <2>5
<1> HIDE DEF all, code0
<1>7. Len(all) \in Nat \ {0} /\ Fits(m, here_ptr, Len(all))
  <2>1. n + 3 \in Nat \ {0}
    <3> HIDE DEF n
    <3>1. QED
      BY <1>1
  <2>2. QED
    BY <1>5, <2>1
<1>8. Leaves(P, m, m2) /\ m2[here_ptr] = m[here_ptr] + Len(all)
  BY <1>3, <1>7, CompilingLeaves
<1>9. m2[here_ptr] = m[here_ptr] + n + 3 /\ m[here_ptr] + n + 3 \in Int
  <2>1. m2[here_ptr] = m[here_ptr] + (n + 3)
    BY <1>5, <1>8
  <2> HIDE DEF n, m2
  <2>2. QED
    BY <1>1, <1>3, <2>1
<1>10. m3 = [m2 EXCEPT ![forth_ptr] = h]
  BY DEF Added, all, code0
<1>11. DOMAIN m2 = Memory /\ DOMAIN m1 = Memory
  BY <1>8 DEF Leaves, MemoryOK
<1>12. forth_ptr \in Memory /\ here_ptr \in Memory /\ forth_ptr # here_ptr
  BY PlacesOfVariables DEF Pointers
<1>13. m3[forth_ptr] = h
  BY <1>10, <1>11, <1>12
<1>14. \A a \in Memory : a # forth_ptr => m3[a] = m2[a]
  BY <1>10, <1>11
<1>15. m3[here_ptr] = m[here_ptr] + n + 3
  BY <1>9, <1>12, <1>14
<1>16. \A i \in 1 .. 3 : /\ i \in 1 .. Len(all) /\ m[here_ptr] + i \in Ram
                         /\ m[here_ptr] + i # here_ptr /\ m[here_ptr] + i # forth_ptr
  <2> SUFFICES ASSUME NEW i \in 1 .. 3
               PROVE  /\ i \in 1 .. Len(all) /\ m[here_ptr] + i \in Ram
                      /\ m[here_ptr] + i # here_ptr /\ m[here_ptr] + i # forth_ptr
    OBVIOUS
  <2>1. i \in 1 .. (n + 3)
    <3> HIDE DEF n
    <3>1. QED
      BY <1>1
  <2>2. m[here_ptr] + i \in m[here_ptr] + 1 .. m[here_ptr] + (n + 3)
    <3> DEFINE c == m[here_ptr]
    <3>1. c \in Int
      BY <1>3
    <3> HIDE DEF n, c
    <3>2. c + i \in c + 1 .. c + (n + 3)
      BY <1>1, <3>1
    <3>3. QED
      BY <3>2 DEF c
  <2>3. m[here_ptr] + i \in Ram
    BY <2>2 DEF Fits
  <2>4. DictBase + 48 <= m[here_ptr] /\ DictBase \in Int
    BY DictAssumption DEF Roomy
  <2>5. here_ptr <= DictBase + 27 /\ forth_ptr <= DictBase + 27
    BY PlacesOfVariables DEF Pointers
  <2>6. m[here_ptr] + i # here_ptr /\ m[here_ptr] + i # forth_ptr
    BY <1>3, <2>4, <2>5
  <2>7. QED
    BY <1>5, <2>1, <2>3, <2>6
<1>17. \A i \in 1 .. 3 : m3[m[here_ptr] + i] = all[i]
  <2> SUFFICES ASSUME NEW i \in 1 .. 3 PROVE m3[m[here_ptr] + i] = all[i]
    OBVIOUS
  <2>1. m[here_ptr] + i \in Memory
    BY <1>16 DEF Memory, Cells
  <2>2. m2[m[here_ptr] + i] = all[i]
    BY <1>3, <1>7, <1>11, <1>12, <1>16, <2>1, AppendedIs
  <2>3. QED
    BY <1>14, <1>16, <2>1, <2>2
<1>18. m[here_ptr] + 1 = h /\ m[here_ptr] + 2 = h + 1 /\ m[here_ptr] + 3 = h + 2 /\ h \in Int
  BY <1>3
<1>19. {h, h + 1, h + 2} \subseteq Ram
  BY <1>16, <1>18
<1>20. m3[h] = HeaderMark + flag /\ m3[h + 1] = Name[token] /\ m3[h + 2] = m[forth_ptr]
  BY <1>6, <1>17, <1>18
<1>21. \A a \in P : m3[a] = m[a]
  BY <1>8, <1>14, KeptAreCells DEF Leaves, Roomy, Pointers
<1>22. m3[here_ptr] \in Ram /\ h + 2 <= m3[here_ptr]
  <2>1. m2[here_ptr] \in Ram
    BY <1>8 DEF Leaves
  <2>2. h + 2 <= m[here_ptr] + n + 3
    <3> HIDE DEF n
    <3>1. QED
      BY <1>1, <1>3
  <2>3. QED
    BY <1>9, <1>15, <2>1, <2>2
<1> HIDE DEF m3, m2, h
<1>23. Adds(P, m, m3)
  <2>1. HeaderMark + flag \in {HeaderMark + VAR, HeaderMark + CONST, HeaderMark + TEXT}
    OBVIOUS
  <2>2. Name[token] \in {Name[t] : t \in Tokens}
    OBVIOUS
  <2>3. QED
    BY <1>13, <1>19, <1>20, <1>21, <1>22, <2>1, <2>2 DEF Adds, h
<1>24. DOMAIN m3 = Memory
  BY <1>10, <1>11
<1>25. m[here_ptr] <= m3[here_ptr] /\ m3[here_ptr] \in Int
  <2> HIDE DEF n
  <2>1. QED
    BY <1>1, <1>3, <1>9, <1>15
<1>26. \A a \in P \cup NewCells(m) :
           /\ a \in DOMAIN Rom \/ (a \in Ram /\ DictBase <= a /\ a <= m3[here_ptr])
           /\ a \notin Variables \cup Pointers
  <2>1. DictBase \in Int /\ DictBase + 48 <= m[here_ptr]
    BY DictAssumption DEF Roomy
  <2>2. ASSUME NEW a \in P
        PROVE  /\ a \in DOMAIN Rom \/ (a \in Ram /\ DictBase <= a /\ a <= m3[here_ptr])
               /\ a \notin Variables \cup Pointers
    <3>1. /\ a \in DOMAIN Rom \/ (a \in Ram /\ DictBase <= a /\ a <= m[here_ptr])
          /\ a \notin Variables \cup Pointers
      BY DEF Roomy
    <3>2. a \in Ram => a \in Int
      BY LayoutAssumption, WordIsInt
    <3>3. QED
      BY <1>3, <1>25, <3>1, <3>2
  <2>3. ASSUME NEW a \in NewCells(m)
        PROVE  a \in Ram /\ DictBase <= a /\ a <= m3[here_ptr] /\ a \notin Variables \cup Pointers
    <3>1. a \in Ram
      BY <1>18, <1>19 DEF NewCells
    <3>2. a \in {h, h + 1, h + 2}
      BY <1>18 DEF NewCells
    <3>3. DictBase + 48 < h /\ h + 2 <= m3[here_ptr]
      BY <1>3, <1>18, <1>22, <2>1
    <3>4. DictBase + 48 < a /\ a <= m3[here_ptr] /\ a \in Int
      BY <1>18, <1>25, <2>1, <3>2, <3>3
    <3>5. a \notin Variables \cup Pointers
      BY <2>1, <3>4, PlacesOfVariables
    <3>6. QED
      BY <2>1, <3>1, <3>4, <3>5
  <2>4. QED
    BY <2>2, <2>3
<1>27. m3[forth_ptr] + 2 <= m3[here_ptr] /\ m3[here_ptr] \in Ram
  BY <1>13, <1>22
<1>28. DictBase + 48 <= m3[here_ptr]
  <2>1. DictBase + 48 <= m[here_ptr] /\ DictBase \in Int
    BY DictAssumption DEF Roomy
  <2>2. QED
    BY <1>3, <1>25, <2>1
<1>29. Roomy(m3, P \cup NewCells(m))
  BY <1>24, <1>26, <1>27, <1>28 DEF Roomy
<1>30. QED
  BY <1>15, <1>23, <1>29 DEF m3

\* What a step does besides is no harm to the new word.
LEMMA AddsAndLeaves ==
    ASSUME NEW m, NEW P, NEW m1, Adds(P, m, m1), NEW m2, Leaves(P \cup NewCells(m), m1, m2),
           m[here_ptr] \in Int
    PROVE  Adds(P, m, m2)
<1> DEFINE h == m[here_ptr] + 1
<1>1. h \in NewCells(m) /\ h + 1 \in NewCells(m) /\ h + 2 \in NewCells(m)
  BY DEF NewCells
<1>2. m2[h] = m1[h] /\ m2[h + 1] = m1[h + 1] /\ m2[h + 2] = m1[h + 2] /\ m2[forth_ptr] = m1[forth_ptr]
  BY <1>1 DEF Leaves
<1>3. \A a \in P : m2[a] = m1[a]
  BY DEF Leaves
<1>4. m2[here_ptr] \in Ram /\ m1[forth_ptr] + 2 <= m2[here_ptr]
  BY DEF Leaves
<1> HIDE DEF h
<1>5. /\ \A a \in P : m1[a] = m[a]
      /\ {h, h + 1, h + 2} \subseteq Ram
      /\ m1[forth_ptr] = h /\ m1[h + 2] = m[forth_ptr]
      /\ m1[h] \in {HeaderMark + VAR, HeaderMark + CONST, HeaderMark + TEXT}
      /\ m1[h + 1] \in {Name[token] : token \in Tokens}
  BY DEF Adds, h
<1>6. /\ \A a \in P : m2[a] = m[a]
      /\ m2[forth_ptr] = h /\ m2[h + 2] = m[forth_ptr]
      /\ m2[h] \in {HeaderMark + VAR, HeaderMark + CONST, HeaderMark + TEXT}
      /\ m2[h + 1] \in {Name[token] : token \in Tokens}
      /\ m2[here_ptr] \in Ram /\ h + 2 <= m2[here_ptr]
  BY <1>2, <1>3, <1>4, <1>5
<1>7. QED
  BY <1>5, <1>6 DEF Adds, h

\* A step keeps the cells of P, adds a word to them or marks the newest one.
Stepped(P) == Kept(P) \/ Adds(P, mem, mem') \/ Marks(P, mem, mem')

LEMMA PostponeKeeps ==
    ASSUME RegistersOK, NEW P, Careful(P), postpone_handler
    PROVE  Kept(P)
<1> DEFINE ws == <<Op.PUSH, TextPtr(forth_search(Token)), Op.CALL>>
<1>1. Len(ws) \in Nat \ {0}
  OBVIOUS
<1>2. \/ Raises("MEMFAULT", mem, Top)
      \/ Undefined
      \/ Raises("STACK_UNDERFLOW", TokenRead, Top)
      \/ Compiles(TokenRead, here_ptr, ws, Top)
  BY DEF postpone_handler
<1> HIDE DEF ws
<1>3. QED
  BY <1>1, <1>2, NamedKeeps

LEMMA TickKeeps ==
    ASSUME RegistersOK, NEW P, Careful(P), tick_handler \/ bracket_tick_handler
    PROVE  Kept(P)
<1> DEFINE ws == <<Op.PUSH, forth_search(Token)>>
<1>1. Len(ws) \in Nat \ {0}
  OBVIOUS
<1>2. \/ Raises("MEMFAULT", mem, Top)
      \/ Undefined
      \/ Raises("STACK_UNDERFLOW", TokenRead, Top)
      \/ Compiles(TokenRead, CopyPtr, ws, Top)
  BY DEF tick_handler, bracket_tick_handler
<1>3. CopyPtr \in {here_ptr, sandbox_ptr}
  BY DEF CopyPtr
<1> HIDE DEF ws
<1>4. QED
  BY <1>1, <1>2, <1>3, NamedKeeps

\* A variable of the shell is set.
LEMMA VariableLeaves ==
    ASSUME NEW m, NEW P, Roomy(m, P), NEW a \in Variables, NEW v
    PROVE  /\ Leaves(P, m, [m EXCEPT ![a] = v])
           /\ [m EXCEPT ![a] = v][here_ptr] = m[here_ptr]
           /\ [m EXCEPT ![a] = v][forth_ptr] = m[forth_ptr]
<1>1. Free(P, a)
  BY VariablesAreFree
<1>2. Leaves(P, m, [m EXCEPT ![a] = v])
  BY <1>1, KeepingLeaves, StoringLeaves
<1>3. here_ptr \in DOMAIN m /\ forth_ptr \in DOMAIN m /\ a # here_ptr /\ a # forth_ptr
  BY PlacesOfVariables DEF Roomy, Pointers
<1>4. QED
  BY <1>2, <1>3

LEMMA OtherCompilingKeeps ==
    ASSUME RegistersOK, NEW P, Careful(P),
           \/ literal_handler \/ left_bracket_handler \/ exit_handler
           \/ recurse_handler \/ forth_semicolon_handler
    PROVE  Kept(P)
<1>1. /\ \A v, w : Len(<<v, w>>) \in Nat \ {0}
      /\ \A v, w, u : Len(<<v, w, u>>) \in Nat \ {0}
      /\ \A v : Len(<<v>>) \in Nat \ {0}
  OBVIOUS
<1>2. MemoryOK(mem) /\ Leaves(P, mem, mem) /\ state_ptr \in Variables
  BY MemoryIsTyped, KeepingLeaves DEF Careful, Variables
<1>3. CASE literal_handler
  <2>1. CASE Short(1)
    BY <2>1, ShortKeeps
  <2>2. CASE Compiles(mem, here_ptr, <<Op.PUSH, Arg(0)>>, Top + 1)
    BY <2>2, <1>1, <1>2, CompilesKeeps
  <2>3. QED
    BY <1>3, <2>1, <2>2 DEF literal_handler
<1>4. CASE left_bracket_handler
  BY <1>2, <1>4, VariableLeaves, ReturningKeeps DEF left_bracket_handler, Careful
<1>5. CASE exit_handler
  BY <1>1, <1>2, <1>5, CompilesKeeps DEF exit_handler
<1>6. CASE recurse_handler
  BY <1>1, <1>2, <1>6, CompilesKeeps DEF recurse_handler
<1>7. CASE forth_semicolon_handler
  <2> DEFINE m == [mem EXCEPT ![state_ptr] = False]
  <2>1. Leaves(P, mem, m) /\ m[here_ptr] = mem[here_ptr]
    BY <1>2, VariableLeaves DEF Careful
  <2>2. MemoryOK(m)
    BY <1>2, OneStored, CodeIsWord DEF False
  <2>3. Compiles(m, here_ptr, <<Op.RET>>, Top)
    BY <1>7 DEF forth_semicolon_handler
  <2> HIDE DEF m
  <2>4. QED
    BY <1>1, <2>1, <2>2, <2>3, CompilesKeeps
<1>8. QED
  BY <1>3, <1>4, <1>5, <1>6, <1>7

LEMMA ParenKeeps ==
    ASSUME RegistersOK, NEW P, Careful(P), paren_immediate_handler
    PROVE  Kept(P)
<1>1. in_ptr \in Variables
  BY DEF Variables
<1>2. PICK v : mem' = [mem EXCEPT ![in_ptr] = v]
  BY DEF paren_immediate_handler, Raises, Returns
<1>3. QED
  BY <1>1, <1>2, VariableLeaves DEF Careful, Kept

LEMMA ExecuteKeeps ==
    ASSUME RegistersOK, NEW P, Careful(P), execute_handler
    PROVE  Kept(P)
<1>1. CASE Short(1)
  BY <1>1, ShortKeeps
<1>2. CASE Undefined
  BY <1>2, UndefinedKeeps
<1>3. CASE ~RFull /\ mem' = [mem EXCEPT ![rsp - 1] = pc]
  BY <1>3, StackKeeps DEF RFull
<1>4. QED
  BY <1>1, <1>2, <1>3 DEF execute_handler

LEMMA AllotKeeps ==
    ASSUME RegistersOK, NEW P, Careful(P), allot_handler
    PROVE  Kept(P)
<1>1. CASE Short(1)
  BY <1>1, ShortKeeps
<1>2. CASE Returns([mem EXCEPT ![here_ptr] = (@ + Arg(0)) % Modulus], Top + 1)
  <2>1. PICK v : mem' = [mem EXCEPT ![here_ptr] = v]
    BY <1>2 DEF Returns
  <2>2. mem'[here_ptr] \in Ram /\ mem[forth_ptr] + 2 <= mem'[here_ptr]
    BY DEF Careful, HereStays, allot_handler
  <2>3. QED
    BY <2>1, <2>2, KeepingLeaves, MovingHereLeaves DEF Careful, Kept
<1>3. QED
  BY <1>1, <1>2 DEF allot_handler

LEMMA ImmediateSteps ==
    ASSUME RegistersOK, NEW P, Careful(P), immediate_handler
    PROVE  Stepped(P)
<1> DEFINE h == mem[forth_ptr]
<1>1. CASE UNCHANGED mem
  BY <1>1, UnchangedKeeps DEF Stepped
<1>2. CASE /\ h \in Ram /\ ~HasFlag(h, IMMEDIATE)
           /\ Returns([mem EXCEPT ![h] = @ + IMMEDIATE], Top)
  <2>1. Load(h) = mem[h]
    BY <1>2 DEF Load, RegistersOK, Memory, Cells
  <2>2. mem' = [mem EXCEPT ![h] = @ + IMMEDIATE] /\ h \in Ram
    BY <1>2 DEF Returns
  <2>3. (mem[h] \div IMMEDIATE) % 2 # 1
    BY <1>2, <2>1 DEF HasFlag
  <2>4. QED
    BY <2>2, <2>3 DEF Marks, Stepped
<1>3. QED
  BY <1>1, <1>2 DEF immediate_handler, Undefined, Returns

\* The guards of the words that define are those of a new header.
LEMMA DefinesAdds ==
    ASSUME ShellTypeOK, NEW P, Careful(P), Token # NoToken, NEW flag \in {VAR, CONST, TEXT},
           NEW ws \in Seq(Word), Fits(mem, here_ptr, Len(ws) + 3)
    PROVE  /\ Adds(P, mem, Added(TokenRead, flag, Token, ws))
           /\ Roomy(Added(TokenRead, flag, Token, ws), P \cup NewCells(mem))
           /\ MemoryOK(Added(TokenRead, flag, Token, ws))
<1>1. RegistersOK /\ Roomy(mem, P)
  BY DEF ShellTypeOK, Careful
<1>2. Token \in Tokens
  BY TokenIsToken
<1>3. /\ Leaves(P, mem, TokenRead) /\ MemoryOK(TokenRead)
      /\ TokenRead[here_ptr] = mem[here_ptr] /\ TokenRead[forth_ptr] = mem[forth_ptr]
  BY <1>1, TokenReadLeaves
<1>4. /\ Adds(P, mem, Added(TokenRead, flag, Token, ws))
      /\ Roomy(Added(TokenRead, flag, Token, ws), P \cup NewCells(mem))
  BY <1>1, <1>2, <1>3, AddingAdds
<1>5. Fits(TokenRead, here_ptr, Len(ws) + 3)
  BY <1>3 DEF Fits
<1>6. flag \in 0 .. 15
  BY KindsAreFlags
<1>7. MemoryOK(Added(TokenRead, flag, Token, ws))
  BY <1>2, <1>3, <1>5, <1>6, AddedTyped
<1>8. QED
  BY <1>4, <1>7

LEMMA OneZero == <<0>> \in Seq(Word) /\ Len(<<0>>) + 3 = 4 /\ <<>> \in Seq(Word) /\ Len(<<>>) + 3 = 3
  BY CodeIsWord

LEMMA VariableSteps ==
    ASSUME ShellTypeOK, NEW P, Careful(P), variable_handler
    PROVE  Stepped(P)
<1>1. CASE Undefined
  BY <1>1, UndefinedKeeps DEF Stepped
<1>2. CASE /\ Token # NoToken /\ Fits(mem, here_ptr, 4)
           /\ Returns(Added(TokenRead, VAR, Token, <<0>>), Top)
  <2>1. Fits(mem, here_ptr, Len(<<0>>) + 3)
    BY <1>2, OneZero
  <2>2. Adds(P, mem, Added(TokenRead, VAR, Token, <<0>>))
    BY <1>2, <2>1, OneZero, DefinesAdds
  <2>3. QED
    BY <1>2, <2>2 DEF Returns, Stepped
<1>3. QED
  BY <1>1, <1>2 DEF variable_handler

LEMMA ColonSteps ==
    ASSUME ShellTypeOK, NEW P, Careful(P), forth_colon_handler
    PROVE  Stepped(P)
<1>1. CASE UNCHANGED mem
  BY <1>1, UnchangedKeeps DEF Stepped
<1>2. CASE /\ Token # NoToken /\ Fits(mem, here_ptr, 3)
           /\ Returns([Added(TokenRead, TEXT, Token, <<>>) EXCEPT ![state_ptr] = True], Top)
  <2> DEFINE m == Added(TokenRead, TEXT, Token, <<>>)
  <2>1. Fits(mem, here_ptr, Len(<<>>) + 3)
    BY <1>2, OneZero
  <2>2. Adds(P, mem, m) /\ Roomy(m, P \cup NewCells(mem))
    BY <1>2, <2>1, OneZero, DefinesAdds
  <2>3. mem' = [m EXCEPT ![state_ptr] = True]
    BY <1>2 DEF Returns
  <2> HIDE DEF m
  <2>4. Leaves(P \cup NewCells(mem), m, mem')
    BY <2>2, <2>3, VariableLeaves DEF Variables
  <2>5. mem[here_ptr] \in Int
    BY PointersAreCells, WordIsInt DEF ShellTypeOK, RegistersOK
  <2>6. QED
    BY <2>2, <2>4, <2>5, AddsAndLeaves DEF Stepped
<1>3. QED
  BY <1>1, <1>2 DEF forth_colon_handler, Raises, Undefined

LEMMA ConstantSteps ==
    ASSUME ShellTypeOK, NEW P, Careful(P), constant_handler
    PROVE  Stepped(P)
<1>1. CASE Undefined
  BY <1>1, UndefinedKeeps DEF Stepped
<1> DEFINE m == Added(TokenRead, CONST, Token, <<0>>)
           ws == <<Op.PUSH, (StrbufBase + mem[in_ptr] + 1) % Modulus, Op.PUSH,
                   Fn.constant_post, Op.C_EXEC>>
<1>2. CASE Token # NoToken /\ Fits(mem, here_ptr, 4) /\ Compiles(m, CopyPtr, ws, Top)
  <2>1. Fits(mem, here_ptr, Len(<<0>>) + 3)
    BY <1>2, OneZero
  <2>2. Adds(P, mem, m) /\ Roomy(m, P \cup NewCells(mem)) /\ MemoryOK(m)
    BY <1>2, <2>1, OneZero, DefinesAdds
  <2>3. Len(ws) \in Nat \ {0}
    OBVIOUS
  <2>4. mem[here_ptr] \in Int /\ m[here_ptr] \in Int
    BY <2>2, PointersAreCells, WordIsInt DEF ShellTypeOK, RegistersOK, MemoryOK
  <2>5. Compiles(m, CopyPtr, ws, Top)
    BY <1>2
  <2> HIDE DEF m, ws
  <2>6. Leaves(P \cup NewCells(mem), m, m)
    BY <2>2, KeepingLeaves
  <2>7. CASE Fits(m, CopyPtr, Len(ws)) /\ mem' = Appended(m, CopyPtr, ws)
    <3>1. CASE CopyPtr = here_ptr
      <4>1. Leaves(P \cup NewCells(mem), m, Appended(m, here_ptr, ws))
        BY <2>2, <2>3, <2>4, <2>6, <2>7, <3>1, CompilingLeaves
      <4>2. QED
        BY <2>2, <2>4, <2>7, <3>1, <4>1, AddsAndLeaves DEF Stepped
    <3>2. CASE CopyPtr = sandbox_ptr
      <4>1. Appended(m, sandbox_ptr, ws)[sandbox_ptr] < DictBase
        BY <2>7, <3>2 DEF Careful, SandboxFits
      <4>2. Leaves(P \cup NewCells(mem), m, Appended(m, sandbox_ptr, ws))
        BY <2>2, <2>3, <2>6, <2>7, <3>2, <4>1, CompilingInSandboxLeaves
      <4>3. QED
        BY <2>2, <2>4, <2>7, <3>2, <4>2, AddsAndLeaves DEF Stepped
    <3>3. QED
      BY <3>1, <3>2 DEF CopyPtr
  <2>8. QED
    BY <1>1, <2>5, <2>7 DEF Compiles, Returns
<1>3. QED
  BY <1>1, <1>2 DEF constant_handler

LEMMA ConstantPostKeeps ==
    ASSUME RegistersOK, NEW P, Careful(P), constant_post_handler
    PROVE  Kept(P)
<1>1. CASE UNCHANGED mem
  BY <1>1, UnchangedKeeps
<1>2. CASE \E a \in Ram : StoresAt(a) /\ \E v : mem' = [mem EXCEPT ![a] = v]
  <2>1. PICK a \in Ram : StoresAt(a) /\ \E v : mem' = [mem EXCEPT ![a] = v]
    BY <1>2
  <2>2. PICK v : mem' = [mem EXCEPT ![a] = v]
    BY <2>1
  <2>3. Free(P, a)
    BY <2>1 DEF Careful, Free, Cells
  <2>4. Leaves(P, mem, [mem EXCEPT ![a] = v])
    BY <2>3, KeepingLeaves, StoringLeaves DEF Careful
  <2>5. QED
    BY <2>2, <2>4 DEF Kept
<1> DEFINE k == Arg(0) - StrbufBase
           datum == TextPtr(forth_search(strbuf[k]))
<1>3. CASE /\ Has(2) /\ k \in DOMAIN strbuf /\ datum \in Ram
           /\ Returns([mem EXCEPT ![datum] = Extended(AsInt(Arg(1)))], Top + 2)
  <2>1. StoresAt(datum)
    BY <1>3 DEF StoresAt, constant_post_handler
  <2>2. mem' = [mem EXCEPT ![datum] = Extended(AsInt(Arg(1)))] /\ datum \in Ram
    BY <1>3 DEF Returns
  <2> HIDE DEF datum
  <2>3. QED
    BY <1>2, <2>1, <2>2
<1>4. QED
  BY <1>1, <1>3 DEF constant_post_handler, Raises, Undefined

LEMMA CompilingSteps ==
    ASSUME ShellTypeOK, NEW P, Careful(P), CompilingWord
    PROVE  Stepped(P)
<1>1. RegistersOK
  BY DEF ShellTypeOK
<1>2. CASE postpone_handler \/ tick_handler \/ bracket_tick_handler
  BY <1>1, <1>2, PostponeKeeps, TickKeeps DEF Stepped
<1>3. CASE \/ literal_handler \/ left_bracket_handler \/ exit_handler
           \/ recurse_handler \/ forth_semicolon_handler
  BY <1>1, <1>3, OtherCompilingKeeps DEF Stepped
<1>4. CASE paren_immediate_handler \/ execute_handler \/ allot_handler \/ constant_post_handler
  BY <1>1, <1>4, ParenKeeps, ExecuteKeeps, AllotKeeps, ConstantPostKeeps DEF Stepped
<1>5. CASE immediate_handler
  BY <1>1, <1>5, ImmediateSteps
<1>6. CASE variable_handler \/ constant_handler \/ forth_colon_handler
  BY <1>6, VariableSteps, ConstantSteps, ColonSteps
<1>7. QED
  BY <1>2, <1>3, <1>4, <1>5, <1>6 DEF CompilingWord

LEMMA HereIsInt ==
    ASSUME RegistersOK
    PROVE  mem[here_ptr] \in Int
  BY PointersAreCells, WordIsInt DEF RegistersOK

LEMMA HoleKeeps ==
    ASSUME RegistersOK, NEW P, Careful(P), NEW f, Calls(f), NEW ws, Len(ws) \in Nat \ {0}, NEW k,
           CompilesHole(ws, k)
    PROVE  Kept(P)
<1>1. CASE Undefined
  BY <1>1, UndefinedKeeps
<1>2. CASE /\ Fits(mem, here_ptr, Len(ws))
           /\ mem' = [Appended(mem, here_ptr, ws) EXCEPT ![Top - 1] = Compiled(k)]
  <2>1. Leaves(P, mem, Appended(mem, here_ptr, ws))
    BY <1>2, HereIsInt, MemoryIsTyped, KeepingLeaves, CompilingLeaves DEF Careful
  <2>2. Free(P, Top - 1)
    BY NativeCells, StacksAreFree DEF Careful
  <2>3. QED
    BY <1>2, <2>1, <2>2, StoringLeaves DEF Careful, Kept
<1>3. QED
  BY <1>1, <1>2 DEF CompilesHole, Returns

LEMMA IfKeeps ==
    ASSUME RegistersOK, NEW P, Careful(P), forth_if_immediate_handler
    PROVE  Kept(P)
<1> DEFINE ws == <<Op.IT, Op.PUSH, Left(3), Op.JMP, Op.NONE, Op.NONE, Op.NONE>>
<1>1. Calls("if_immediate") /\ CompilesHole(ws, 3)
  BY DEF forth_if_immediate_handler
<1>2. Len(ws) \in Nat \ {0}
  OBVIOUS
<1> HIDE DEF ws
<1>3. QED
  BY <1>1, <1>2, HoleKeeps

LEMMA DoCompilesKeeps ==
    ASSUME RegistersOK, NEW P, Careful(P), forth_do_immediate_handler
    PROVE  Kept(P)
<1> DEFINE ws == <<Op.PUSH, Left(2), Op.RPUSH, Op.PUSH, i_var, Op.LOAD, Op.PUSH,
                   j_var, Op.STR, Op.PUSH, Fn.do, Op.C_EXEC>>
<1>1. Calls("do_immediate") /\ CompilesHole(ws, 2)
  BY DEF forth_do_immediate_handler
<1>2. Len(ws) \in Nat \ {0}
  OBVIOUS
<1> HIDE DEF ws
<1>3. QED
  BY <1>1, <1>2, HoleKeeps

\* A program's own hole.
LEMMA HoleIsFree ==
    ASSUME NEW P, Careful(P), HoleOnStack,
           Calls("else_immediate") \/ Calls("then_immediate") \/ Calls("loop_immediate")
    PROVE  Free(P, Hole)
  BY DEF Careful, StoresAt, HoleOnStack, Writable, Free

LEMMA ElseKeeps ==
    ASSUME RegistersOK, NEW P, Careful(P), forth_else_immediate_handler
    PROVE  Kept(P)
<1> DEFINE ws == <<Op.PUSH, Left(2), Op.JMP>>
<1>1. CASE Undefined
  BY <1>1, UndefinedKeeps
<1>2. CASE /\ HoleOnStack /\ Fits(mem, here_ptr, 3)
           /\ mem' = [Appended(mem, here_ptr, ws) EXCEPT ![Top] = Compiled(2), ![Hole] = Compiled(4)]
  <2>1. Len(ws) \in Nat \ {0} /\ Len(ws) = 3
    OBVIOUS
  <2> HIDE DEF ws
  <2>2. Fits(mem, here_ptr, Len(ws))
    BY <1>2, <2>1
  <2>3. Leaves(P, mem, Appended(mem, here_ptr, ws))
    BY <2>1, <2>2, HereIsInt, MemoryIsTyped, KeepingLeaves, CompilingLeaves DEF Careful
  <2>4. Calls("else_immediate")
    BY DEF forth_else_immediate_handler
  <2>5. Free(P, Top)
    BY <1>2, <2>4, NativeCells, StacksAreFree DEF Careful, HoleOnStack
  <2>6. Free(P, Hole)
    BY <1>2, <2>4, HoleIsFree
  <2>7. QED
    BY <1>2, <2>3, <2>5, <2>6, TwoStoresLeave DEF Careful, Kept
<1>3. QED
  BY <1>1, <1>2 DEF forth_else_immediate_handler, Returns

LEMMA ThenKeeps ==
    ASSUME RegistersOK, NEW P, Careful(P), forth_then_immediate_handler
    PROVE  Kept(P)
<1>1. CASE Undefined
  BY <1>1, UndefinedKeeps
<1>2. CASE /\ HoleOnStack
           /\ mem' = [mem EXCEPT ![here_ptr] = Compiled(1), ![Hole] = Compiled(1)]
  <2> DEFINE m == [mem EXCEPT ![here_ptr] = Compiled(1)]
  <2>1. Calls("then_immediate")
    BY DEF forth_then_immediate_handler
  <2>2. Free(P, Hole)
    BY <1>2, <2>1, HoleIsFree
  <2>3. mem' = [m EXCEPT ![Hole] = Compiled(1)]
    BY <1>2
  <2>4. mem'[here_ptr] = m[here_ptr]
    <3>1. here_ptr # Hole /\ here_ptr \in DOMAIN m
      BY <2>2, PlacesOfVariables DEF Free, Pointers, RegistersOK
    <3> HIDE DEF m
    <3>2. QED
      BY <2>3, <3>1
  <2>5. m[here_ptr] \in Ram /\ mem[forth_ptr] + 2 <= m[here_ptr]
    BY <2>1, <2>4 DEF Careful, HereStays
  <2>6. Leaves(P, mem, m)
    BY <2>5, KeepingLeaves, MovingHereLeaves DEF Careful
  <2> HIDE DEF m
  <2>7. QED
    BY <2>2, <2>3, <2>6, StoringLeaves DEF Careful, Kept
<1>3. QED
  BY <1>1, <1>2 DEF forth_then_immediate_handler, Returns

LEMMA LoopCompilesKeeps ==
    ASSUME RegistersOK, NEW P, Careful(P), forth_loop_immediate_handler
    PROVE  Kept(P)
<1> DEFINE ws == <<Op.PUSH, Fn.loop, Op.C_EXEC>>
<1>1. CASE Undefined
  BY <1>1, UndefinedKeeps
<1>2. CASE /\ HoleOnStack /\ Fits(mem, here_ptr, 3)
           /\ mem' = [Appended(mem, here_ptr, ws) EXCEPT ![Hole] = Compiled(3)]
  <2>1. Len(ws) \in Nat \ {0} /\ Len(ws) = 3
    OBVIOUS
  <2> HIDE DEF ws
  <2>2. Fits(mem, here_ptr, Len(ws))
    BY <1>2, <2>1
  <2>3. Leaves(P, mem, Appended(mem, here_ptr, ws))
    BY <2>1, <2>2, HereIsInt, MemoryIsTyped, KeepingLeaves, CompilingLeaves DEF Careful
  <2>4. Calls("loop_immediate")
    BY DEF forth_loop_immediate_handler
  <2>5. Free(P, Hole)
    BY <1>2, <2>4, HoleIsFree
  <2>6. QED
    BY <1>2, <2>3, <2>5, StoringLeaves DEF Careful, Kept
<1>3. QED
  BY <1>1, <1>2 DEF forth_loop_immediate_handler, Returns

LEMMA LeavingCompilesKeeps ==
    ASSUME RegistersOK, NEW P, Careful(P), forth_leave_immediate_handler \/ forth_unloop_immediate_handler
    PROVE  Kept(P)
<1>1. \A v, w, u : Len(<<v, w, u>>) \in Nat \ {0}
  OBVIOUS
<1>2. PICK ws : Len(ws) \in Nat \ {0} /\ Compiles(mem, here_ptr, ws, Top)
  BY <1>1 DEF forth_leave_immediate_handler, forth_unloop_immediate_handler
<1>3. QED
  BY <1>2, MemoryIsTyped, KeepingLeaves, CompilesKeeps DEF Careful

\* The index variable and the return stack.
LEMMA DoKeeps ==
    ASSUME RegistersOK, NEW P, Careful(P), forth_do_handler \/ forth_unloop_handler
    PROVE  Kept(P)
<1>1. CASE UNCHANGED mem
  BY <1>1, UnchangedKeeps
<1>2. CASE \E v : mem' = [mem EXCEPT ![i_var] = v]
  <2>1. PICK v : mem' = [mem EXCEPT ![i_var] = v]
    BY <1>2
  <2>2. i_var \in Variables
    BY DEF Variables
  <2>3. Leaves(P, mem, [mem EXCEPT ![i_var] = v])
    BY <2>2, VariableLeaves DEF Careful
  <2>4. QED
    BY <2>1, <2>3 DEF Kept
<1>3. CASE RRoom(3) /\ \E u, v, w, x : mem' = [mem EXCEPT ![i_var] = u, ![rsp - 1] = v,
                                                         ![rsp - 2] = w, ![rsp - 3] = x]
  <2>1. PICK u, v, w, x : mem' = [mem EXCEPT ![i_var] = u, ![rsp - 1] = v, ![rsp - 2] = w,
                                             ![rsp - 3] = x]
    BY <1>3
  <2>2. rsp - 1 \in RStack /\ rsp - 2 \in RStack /\ rsp - 3 \in RStack
    BY <1>3, LayoutAssumption DEF RRoom, RegistersOK, RStack
  <2>3. Free(P, rsp - 1) /\ Free(P, rsp - 2) /\ Free(P, rsp - 3)
    BY <2>2, StacksAreFree DEF Careful
  <2>4. Free(P, i_var)
    BY VariablesAreFree DEF Careful, Variables
  <2>5. Leaves(P, mem, [mem EXCEPT ![i_var] = u, ![rsp - 1] = v, ![rsp - 2] = w, ![rsp - 3] = x])
    BY <2>3, <2>4, KeepingLeaves, FourStoresLeave DEF Careful
  <2>6. QED
    BY <2>1, <2>5 DEF Kept
<1>4. CASE forth_do_handler
  BY <1>1, <1>2, <1>3, <1>4 DEF forth_do_handler, Short, Raises, Undefined
<1>5. CASE forth_unloop_handler
  BY <1>2, <1>5 DEF forth_unloop_handler
<1>6. QED
  BY <1>4, <1>5

LEMMA LoopKeeps ==
    ASSUME RegistersOK, NEW P, Careful(P), forth_loop_handler \/ forth_leave_handler
    PROVE  Kept(P)
<1>1. CASE Undefined
  BY <1>1, UndefinedKeeps
<1>2. CASE sp # StackLo /\ \E v, w : mem' = [mem EXCEPT ![Top - 1] = v, ![Top - 2] = w]
  <2>1. PICK v, w : mem' = [mem EXCEPT ![Top - 1] = v, ![Top - 2] = w]
    BY <1>2
  <2>2. Top - 1 \in Stack /\ Top - 2 \in Stack
    BY <1>2, NativeCells DEF forth_loop_handler, forth_leave_handler
  <2>3. Free(P, Top - 1) /\ Free(P, Top - 2)
    BY <2>2, StacksAreFree DEF Careful
  <2>4. QED
    BY <2>1, <2>3, KeepingLeaves, TwoStoresLeave DEF Careful, Kept
<1>3. QED
  BY <1>1, <1>2 DEF forth_loop_handler, forth_leave_handler, NextTurn

LEMMA ControlKeeps ==
    ASSUME RegistersOK, NEW P, Careful(P), ControlWord
    PROVE  Kept(P)
  BY IfKeeps, ElseKeeps, ThenKeeps, DoCompilesKeeps, LoopCompilesKeeps, LeavingCompilesKeeps,
     DoKeeps, LoopKeeps DEF ControlWord

LEMMA DotQuoteKeeps ==
    ASSUME ShellTypeOK, NEW P, Careful(P), dot_quote_immediate_handler
    PROVE  Kept(P)
<1>1. CASE Undefined
  BY <1>1, UndefinedKeeps
<1>4. RegistersOK /\ MemoryOK(mem)
  BY MemoryIsTyped DEF ShellTypeOK
<1> DEFINE k == mem[in_ptr] + 1
           ws == <<Op.PUSH, 1, Op.PUSH, 1, Op.PC, Op.LOAD, Op.PUSH, 10, Op.ADD,
                   Op.PUSH, output_text, Op.CALL, Op.PUSH, Fn.dot_quote_post,
                   Op.C_EXEC, Name[strbuf[k]]>>
           m == [mem EXCEPT ![in_ptr] = k]
<1>2. CASE k \in DOMAIN strbuf /\ Compiles(m, TextCopyPtr, ws, Top)
  <2>1. Len(ws) \in Nat \ {0}
    OBVIOUS
  <2>2. Compiles(m, TextCopyPtr, ws, Top)
    BY <1>2
  <2> HIDE DEF ws
  <2>3. CASE Undefined
    BY <2>3, UndefinedKeeps
  <2>4. CASE Fits(m, TextCopyPtr, Len(ws)) /\ mem' = Appended(m, TextCopyPtr, ws)
    <3>1. Leaves(P, mem, m) /\ m[here_ptr] = mem[here_ptr]
      BY VariableLeaves DEF Careful, Variables
    <3>2. TextCopyPtr \in {here_ptr, sandbox_ptr}
      BY DEF TextCopyPtr
    <3>3. MemoryOK(m)
      <4>1. k \in 1 .. Len(strbuf) /\ Len(strbuf) < StrbufSize
        BY <1>2 DEF ShellTypeOK
      <4>2. k \in Word
        BY <4>1, BasesAreWords, ModulusIs DEF Word, ShellTypeOK
      <4> HIDE DEF k
      <4>3. QED
        BY <1>4, <4>2, OneStored
    <3> HIDE DEF m
    <3>4. QED
      BY <1>4, <2>1, <2>2, <3>1, <3>2, <3>3, CompilesSomewhereKeeps
  <2>5. QED
    BY <2>2, <2>3, <2>4 DEF Compiles, Returns
<1>3. QED
  BY <1>1, <1>2 DEF dot_quote_immediate_handler

LEMMA SilentSteps ==
    ASSUME ShellTypeOK, NEW P, Careful(P), SilentWord
    PROVE  Stepped(P)
<1>1. RegistersOK
  BY DEF ShellTypeOK
<1>2. CASE ArithmeticWord \/ ControlWord
  BY <1>1, <1>2, ArithmeticKeeps, ControlKeeps DEF Stepped
<1>3. CASE CompilingWord
  BY <1>3, CompilingSteps
<1>4. CASE dot_quote_immediate_handler
  BY <1>4, DotQuoteKeeps DEF Stepped
<1>5. CASE forth_dot_quote_post_handler
  <2>1. UNCHANGED mem
    BY <1>5 DEF forth_dot_quote_post_handler, Undefined
  <2>2. QED
    BY <2>1, UnchangedKeeps DEF Stepped
<1>6. QED
  BY <1>2, <1>3, <1>4, <1>5 DEF SilentWord

LEMMA PrintingKeeps ==
    ASSUME RegistersOK, NEW P, Careful(P), PrintingWord
    PROVE  Kept(P)
<1>1. CASE UNCHANGED mem
  BY <1>1, UnchangedKeeps
<1>2. CASE forth_key
  <2>1. Top - 1 \in Stack
    BY <1>2, NativeCells DEF forth_key
  <2>2. QED
    BY <1>2, <2>1, StackReturns DEF forth_key
<1>3. \A ok, items, s : PrintsIf(ok, items, s) => UNCHANGED mem
  BY DEF PrintsIf, Undefined, Returns
<1>4. CASE forth_emit \/ cr_handler \/ forth_output_data
  BY <1>1, <1>3, <1>4 DEF forth_emit, cr_handler, forth_output_data
<1>5. CASE forth_dot_handler \/ words_handler \/ custom_function
  BY <1>1, <1>3, <1>5 DEF forth_dot_handler, words_handler, custom_function, Short, Raises
<1>6. QED
  BY <1>2, <1>4, <1>5 DEF PrintingWord

LEMMA BracketKeeps ==
    ASSUME RegistersOK, NEW P, Careful(P), right_bracket_handler
    PROVE  Kept(P)
<1>1. CASE UNCHANGED mem
  BY <1>1, UnchangedKeeps
<1>2. CASE Fits(mem, sandbox_ptr, 1) /\ mem' = Appended(mem, sandbox_ptr, <<Op.QUIT>>)
  <2> DEFINE ws == <<Op.QUIT>>
  <2>1. Len(ws) = 1 /\ Len(ws) \in Nat
    OBVIOUS
  <2>2. mem' = Appended(mem, sandbox_ptr, ws)
    BY <1>2
  <2> HIDE DEF ws
  <2>3. Appended(mem, sandbox_ptr, ws)[sandbox_ptr] < DictBase
    BY <2>2 DEF Careful, SandboxFits
  <2>4. Leaves(P, mem, Appended(mem, sandbox_ptr, ws))
    BY <1>2, <2>1, <2>3, MemoryIsTyped, KeepingLeaves, CompilingInSandboxLeaves DEF Careful
  <2>5. QED
    BY <2>2, <2>4 DEF Kept
<1>3. QED
  BY <1>1, <1>2 DEF right_bracket_handler, Undefined

LEMMA BracketReturnsKeeps ==
    ASSUME RegistersOK, NEW P, Careful(P), right_bracket_returns
    PROVE  Kept(P)
<1>1. Free(P, sandbox_ptr) /\ Free(P, state_ptr)
  BY VariablesAreFree DEF Careful, Variables
<1>2. mem' = [mem EXCEPT ![sandbox_ptr] = SandboxBase - 1, ![state_ptr] = True]
  BY DEF right_bracket_returns
<1>3. QED
  BY <1>1, <1>2, KeepingLeaves, TwoStoresLeave DEF Careful, Kept

LEMMA NativeSteps ==
    ASSUME ShellTypeOK, NEW P, Careful(P), NativeStep
    PROVE  Stepped(P)
<1>1. RegistersOK
  BY DEF ShellTypeOK
<1>2. CASE SilentWord
  BY <1>2, SilentSteps
<1>3. CASE PrintingWord \/ right_bracket_handler \/ right_bracket_returns
  BY <1>1, <1>3, PrintingKeeps, BracketKeeps, BracketReturnsKeeps DEF Stepped
<1>4. QED
  BY <1>2, <1>3 DEF NativeStep, Native

-----------------------------------------------------------------------------
(* The dictionary: the compiler and the loop around it.                     *)

LEMMA CompilesCodeKeeps ==
    ASSUME RegistersOK, NEW P, Careful(P), NEW ws, Len(ws) \in Nat \ {0}, CompilesCode(ws)
    PROVE  Kept(P)
<1>1. CASE UNCHANGED mem
  BY <1>1, UnchangedKeeps
<1>2. CASE Fits(mem, CompileTo, Len(ws)) /\ mem' = Appended(TokenRead, CompileTo, ws)
  <2>1. /\ Leaves(P, mem, TokenRead) /\ MemoryOK(TokenRead)
        /\ TokenRead[here_ptr] = mem[here_ptr]
    BY TokenReadLeaves
  <2>2. CASE CompileTo = here_ptr
    <3>1. Leaves(P, mem, Appended(TokenRead, here_ptr, ws))
      BY <1>2, <2>1, <2>2, HereIsInt, CompilingLeaves DEF Careful
    <3>2. QED
      BY <1>2, <2>2, <3>1 DEF Kept
  <2>3. CASE CompileTo = sandbox_ptr
    <3>1. TokenRead[sandbox_ptr] = mem[sandbox_ptr]
      BY TokenReadKeeps, PlacesDiffer, PlacesAreCells DEF Places, RegistersOK
    <3>2. Fits(TokenRead, sandbox_ptr, Len(ws))
      BY <1>2, <2>3, <3>1 DEF Fits
    <3>3. Appended(TokenRead, sandbox_ptr, ws)[sandbox_ptr] < DictBase
      BY <1>2, <2>3 DEF Careful, SandboxFits
    <3>4. Leaves(P, mem, Appended(TokenRead, sandbox_ptr, ws))
      BY <2>1, <3>2, <3>3, CompilingInSandboxLeaves DEF Careful
    <3>5. QED
      BY <1>2, <2>3, <3>4 DEF Kept
  <2>4. QED
    BY <2>2, <2>3 DEF CompileTo
<1>3. QED
  BY <1>1, <1>2 DEF CompilesCode

LEMMA PushImmediateKeeps ==
    ASSUME RegistersOK, NEW P, Careful(P), NEW command, PushImmediate(command)
    PROVE  Kept(P)
<1>1. CASE UNCHANGED mem
  BY <1>1, UnchangedKeeps
<1>2. CASE ~Full /\ \E v : mem' = [TokenRead EXCEPT ![sp - 1] = v]
  <2>1. PICK v : mem' = [TokenRead EXCEPT ![sp - 1] = v]
    BY <1>2
  <2>2. sp - 1 \in Stack
    BY <1>2, LayoutAssumption DEF Full, RegistersOK, Stack
  <2>3. Free(P, sp - 1)
    BY <2>2, StacksAreFree DEF Careful
  <2>4. QED
    BY <2>1, <2>3, TokenReadLeaves, StoringLeaves DEF Careful, Kept
<1>3. QED
  BY <1>1, <1>2 DEF PushImmediate

LEMMA CompileKeeps ==
    ASSUME RegistersOK, NEW P, Careful(P), forth_compile
    PROVE  Kept(P)
<1>1. /\ \A v : Len(<<v>>) \in Nat \ {0}
      /\ \A v, w, u : Len(<<v, w>> \o <<u>>) \in Nat \ {0}
      /\ \A v, w : Len(<<v, w>> \o <<>>) \in Nat \ {0}
  OBVIOUS
<1>2. CASE mem' = TokenRead
  BY <1>2, TokenReadLeaves DEF Kept
<1>3. CASE \E ws : Len(ws) \in Nat \ {0} /\ CompilesCode(ws)
  BY <1>3, CompilesCodeKeeps
<1>4. CASE \E e : Rejects(e)
  BY <1>2, <1>4 DEF Rejects
<1>5. CASE StopsUndefined
  BY <1>5, UndefinedKeeps DEF StopsUndefined
<1>6. CASE \E command : RunImmediate(command)
  BY <1>2, <1>6 DEF RunImmediate
<1>7. CASE \E command : PushImmediate(command)
  BY <1>7, PushImmediateKeeps
<1>8. CASE \E command : CompileWord(command)
  <2>1. PICK command : CompileWord(command)
    BY <1>8
  <2> DEFINE ws == <<Op.PUSH, TextPtr(command)>> \o
                    (IF IsVariable(command) THEN <<>>
                     ELSE IF IsConstant(command) THEN <<Op.LOAD>> ELSE <<Op.CALL>>)
  <2>2. Len(ws) \in Nat \ {0}
    BY <1>1
  <2>3. CompilesCode(ws)
    BY <2>1 DEF CompileWord
  <2> HIDE DEF ws
  <2>4. QED
    BY <1>3, <2>2, <2>3
<1>9. CASE CompileNumber
  BY <1>1, <1>3, <1>9 DEF CompileNumber
<1>10. QED
  BY <1>4, <1>5, <1>6, <1>7, <1>8, <1>9
     DEF forth_compile, RejectState, RejectCompileOnly, RejectUnknown

LEMMA CompileLineKeeps ==
    ASSUME RegistersOK, NEW P, Careful(P), CompileLine
    PROVE  Kept(P)
<1>1. CASE UNCHANGED mem
  BY <1>1, UnchangedKeeps
<1>2. CASE Fits(mem, sandbox_ptr, 1) /\ mem' = Appended(mem, sandbox_ptr, <<Op.RET>>)
  <2> DEFINE ws == <<Op.RET>>
  <2>1. Len(ws) = 1 /\ Len(ws) \in Nat
    OBVIOUS
  <2>2. mem' = Appended(mem, sandbox_ptr, ws)
    BY <1>2
  <2> HIDE DEF ws
  <2>3. Appended(mem, sandbox_ptr, ws)[sandbox_ptr] < DictBase
    BY <2>2 DEF Careful, SandboxFits
  <2>4. Leaves(P, mem, Appended(mem, sandbox_ptr, ws))
    BY <1>2, <2>1, <2>3, MemoryIsTyped, KeepingLeaves, CompilingInSandboxLeaves DEF Careful
  <2>5. QED
    BY <2>2, <2>4 DEF Kept
<1>3. CASE ImmediateReturns \/ EndOfLine
  BY <1>1, <1>2, <1>3 DEF ImmediateReturns, EndOfLine
<1>4. QED
  BY <1>3, CompileKeeps DEF CompileLine

\* forth_vm_reload sets two variables.
LEMMA ReloadedLeaves ==
    ASSUME RegistersOK, NEW P, Careful(P)
    PROVE  /\ Leaves(P, mem, Reloaded) /\ MemoryOK(Reloaded)
           /\ Reloaded[here_ptr] = mem[here_ptr] /\ Reloaded[forth_ptr] = mem[forth_ptr]
<1>1. Free(P, sandbox_ptr) /\ Free(P, in_ptr)
  BY VariablesAreFree DEF Careful, Variables
<1>2. Leaves(P, mem, Reloaded)
  BY <1>1, KeepingLeaves, TwoStoresLeave DEF Careful, Reloaded
<1>3. Reloaded[here_ptr] = mem[here_ptr] /\ Reloaded[forth_ptr] = mem[forth_ptr]
  <2>1. DOMAIN mem = Memory /\ here_ptr \in Memory /\ forth_ptr \in Memory
    BY PlacesOfVariables DEF RegistersOK, Pointers
  <2>2. here_ptr # sandbox_ptr /\ here_ptr # in_ptr /\ forth_ptr # sandbox_ptr /\ forth_ptr # in_ptr
    BY PlacesDiffer
  <2>3. QED
    BY <2>1, <2>2 DEF Reloaded
<1>4. QED
  BY <1>2, <1>3, ReloadedTyped

LEMMA BannerPrintedSteps ==
    ASSUME RegistersOK, NEW P, Careful(P), BannerPrinted
    PROVE  Stepped(P)
<1>1. CASE UNCHANGED mem
  BY <1>1, UnchangedKeeps DEF Stepped
<1>2. CASE Fits(mem, here_ptr, 7) /\ mem' = Added(Reloaded, TEXT, "CUSTOM", Calling("custom"))
  <2> DEFINE ws == Calling("custom")
             token == "CUSTOM"
  <2>1. token \in Tokens
    BY ShellAssumption
  <2>2. ws \in Seq(Word) /\ Len(ws) + 3 = 7
    BY CodeIsWord DEF Calling
  <2>3. mem' = Added(Reloaded, TEXT, token, ws)
    BY <1>2
  <2>4. TEXT \in {VAR, CONST, TEXT}
    OBVIOUS
  <2> HIDE DEF ws, token
  <2>5. Adds(P, mem, Added(Reloaded, TEXT, token, ws))
    BY <1>2, <2>1, <2>2, <2>4, ReloadedLeaves, AddingAdds DEF Careful
  <2>6. QED
    BY <2>3, <2>5 DEF Stepped
<1>3. QED
  BY <1>1, <1>2 DEF BannerPrinted

LEMMA ProcessSteps ==
    ASSUME RegistersOK, NEW P, Careful(P), Process
    PROVE  Stepped(P)
<1>1. CASE UNCHANGED mem
  BY <1>1, UnchangedKeeps DEF Stepped
<1>2. CASE mem' = Reloaded
  BY <1>2, ReloadedLeaves DEF Stepped, Kept
<1>3. CASE PromptUser \/ ReadLine \/ LineCompiled \/ ReportCompiled
  BY <1>1, <1>3 DEF PromptUser, ReadLine, LineCompiled, ReportCompiled, RunSandbox
<1>4. CASE LineRejected \/ PromptPrinted \/ LineRan \/ ReportPrinted
  BY <1>2, <1>4 DEF LineRejected, PromptPrinted, LineRan, ReportPrinted, Reports, Returning
<1>5. QED
  BY <1>3, <1>4, BannerPrintedSteps DEF Process

\* Every step of the shell.
LEMMA ShellSteps ==
    ASSUME ShellTypeOK, NEW P, Careful(P), [Next]_shellVars
    PROVE  Stepped(P)
<1>1. RegistersOK
  BY DEF ShellTypeOK
<1>2. CASE UNCHANGED mem
  BY <1>2, UnchangedKeeps DEF Stepped
<1>3. CASE VMStep
  BY <1>1, <1>2, <1>3, InstructionKeeps DEF VMStep, Leave, Stepped
<1>4. CASE NativeStep
  BY <1>4, NativeSteps
<1>5. CASE CompileLine
  BY <1>1, <1>5, CompileLineKeeps DEF Stepped
<1>6. CASE Process
  BY <1>1, <1>6, ProcessSteps
<1>7. CASE Over \/ UNCHANGED shellVars
  BY <1>2, <1>7 DEF Over, shellVars, vmVars
<1>8. QED
  BY <1>3, <1>4, <1>5, <1>6, <1>7 DEF Next, Running
-----------------------------------------------------------------------------
(* The dictionary: where its cells are.                                     *)

\* Addresses of a chain are numbers.
LEMMA ChainIsInt ==
    ASSUME NEW m, NEW s, Linked(m, s)
    PROVE  /\ Len(s) \in Nat /\ Len(s) > 11
           /\ \A i \in 1 .. Len(s) : s[i] \in Word /\ s[i] \in Int
<1>1. s \in Seq(Word) /\ Len(s) > 11
  BY DEF Linked
<1>2. Len(s) \in Nat /\ \A i \in 1 .. Len(s) : s[i] \in Word
  BY <1>1
<1>3. QED
  BY <1>1, <1>2, WordIsInt

LEMMA SystemSteps ==
    \A k \in 1 .. 8 : SystemAt(k) \in Int /\ SystemAt(k + 1) = SystemAt(k) + 4
                      /\ SystemAt(k) >= DictBase /\ SystemAt(k) <= DictBase + 28
<1>1. DictBase \in Int
  BY DictAssumption
<1>2. QED
  BY <1>1, SystemPlaces

\* The only word whose cells reach the datum of the k-th own word is this word.
LEMMA DatumOf ==
    ASSUME NEW L \in Nat, L > 11, NEW s, \A i \in 1 .. L : s[i] \in Int,
           \A i, j \in 1 .. (L - 1) : i < j => s[j] + 2 < s[i],
           \A i \in 1 .. 11 : s[L - i] = SystemAt(i),
           NEW k \in 1 .. 8, NEW i \in 1 .. (L - 1),
           s[i] <= SystemAt(k) + 3, i = 1 \/ SystemAt(k) + 3 < s[i - 1]
    PROVE  i = L - k
<1>1. L - k \in 1 .. (L - 1) /\ L - (k + 1) \in 1 .. (L - 1) /\ L - k > 1 /\ k \in 1 .. 11
      /\ k + 1 \in 1 .. 11 /\ L - (k + 1) = (L - k) - 1 /\ L \in Int /\ i \in Int /\ i \in 1 .. L
  OBVIOUS
<1>2. s[L - k] = SystemAt(k) /\ s[L - (k + 1)] = SystemAt(k) + 4 /\ SystemAt(k) \in Int
  BY <1>1, SystemSteps
<1>3. CASE i < L - k
  <2>1. i = L - (k + 1) \/ i < L - (k + 1)
    BY <1>1, <1>3
  <2>2. i < L - (k + 1) => s[L - (k + 1)] + 2 < s[i]
    BY <1>1
  <2>3. s[i] >= SystemAt(k) + 4
    BY <1>1, <1>2, <2>1, <2>2
  <2>4. QED
    BY <1>1, <1>2, <2>3
<1>4. CASE i > L - k
  <2>1. i - 1 \in 1 .. (L - 1) /\ i # 1 /\ (i - 1 = L - k \/ L - k < i - 1) /\ i - 1 \in 1 .. L
    BY <1>1, <1>4
  <2>2. L - k < i - 1 => s[i - 1] + 2 < s[L - k]
    BY <1>1, <2>1
  <2>3. s[i - 1] <= SystemAt(k)
    BY <1>1, <1>2, <2>1, <2>2
  <2>4. QED
    BY <1>1, <1>2, <2>1, <2>3
<1>5. QED
  BY <1>1, <1>3, <1>4

\* The variables and pointers are data of the shell's own words.
LEMMA PlacesAreData ==
    \A p \in Variables \cup Pointers : \E k \in 1 .. 8 : p = SystemAt(k) + 3
<1>1. DictBase \in Int
  BY DictAssumption
<1>2. /\ forth_ptr = SystemAt(1) + 3 /\ here_ptr = SystemAt(2) + 3 /\ in_ptr = SystemAt(3) + 3
      /\ state_ptr = SystemAt(4) + 3 /\ sandbox_ptr = SystemAt(5) + 3 /\ i_var = SystemAt(7) + 3
  BY <1>1, SystemPlaces DEF forth_ptr, here_ptr, in_ptr, state_ptr, sandbox_ptr, i_var
<1>3. 1 \in 1 .. 8 /\ 2 \in 1 .. 8 /\ 3 \in 1 .. 8 /\ 4 \in 1 .. 8 /\ 5 \in 1 .. 8 /\ 7 \in 1 .. 8
  OBVIOUS
<1>4. QED
  BY <1>2, <1>3 DEF Variables, Pointers

\* The newest header lies behind the shell's own ones.
LEMMA NewestIsHigh ==
    ASSUME NEW m, NEW s, Chained(m, s)
    PROVE  /\ s[1] >= DictBase + 46 /\ m[forth_ptr] = s[1] /\ DictBase + 48 <= m[here_ptr]
           /\ m[here_ptr] \in Int
<1> DEFINE L == Len(s)
<1>1. L \in Nat /\ L > 11 /\ \A i \in 1 .. L : s[i] \in Int
  BY ChainIsInt DEF Chained
<1>2. s[L - 11] = DictBase + 46
  <2>1. s[L - 11] = SystemAt(11)
    BY DEF Chained
  <2>2. QED
    BY <2>1, SystemPlaces
<1>3. \A i, j \in 1 .. (L - 1) : i < j => s[j] + 2 < s[i]
  BY DEF Chained, Linked
<1>4. m[forth_ptr] = s[1] /\ s[1] + 2 <= m[here_ptr] /\ m[here_ptr] \in Ram
  BY DEF Chained, Linked
<1>5. m[here_ptr] \in Int /\ DictBase \in Int
  BY <1>4, LayoutAssumption, WordIsInt, DictAssumption
<1> HIDE DEF L
<1>6. 1 \in 1 .. (L - 1) /\ L - 11 \in 1 .. (L - 1) /\ (L - 11 = 1 \/ 1 < L - 11) /\ 1 \in 1 .. L
      /\ L - 11 \in 1 .. L
  BY <1>1
<1>7. 1 < L - 11 => s[L - 11] + 2 < s[1]
  BY <1>3, <1>6
<1>8. s[1] >= DictBase + 46
  BY <1>1, <1>2, <1>5, <1>6, <1>7
<1>9. DictBase + 48 <= m[here_ptr]
  BY <1>1, <1>4, <1>5, <1>6, <1>8
<1>10. QED
  BY <1>4, <1>5, <1>8, <1>9

\* The cells from the first to the last address of two cells in the RAM.
LEMMA RamIsRange ==
    ASSUME NEW a \in Ram, NEW b \in Ram, NEW c \in Int, a <= c, c <= b
    PROVE  c \in Ram
<1>1. PICK last \in Word : Ram = SandboxBase .. last
  BY SystemAssumption
<1>2. SandboxBase \in Int /\ last \in Int
  BY <1>1, DictAssumption, WordIsInt
<1>3. QED
  BY <1>1, <1>2

\* Headers lie in the dictionary, behind none of the variables.
LEMMA HeadsAreKept ==
    ASSUME NEW m, NEW s, Chained(m, s), NEW a \in Heads(s)
    PROVE  /\ a \in Ram /\ DictBase <= a /\ a <= m[here_ptr]
           /\ a \notin Variables \cup Pointers
<1> DEFINE L == Len(s)
<1>1. L \in Nat /\ L > 11 /\ \A i \in 1 .. L : s[i] \in Int
  BY ChainIsInt DEF Chained
<1>2. \A i, j \in 1 .. (L - 1) : i < j => s[j] + 2 < s[i]
  BY DEF Chained, Linked
<1>3. \A i \in 1 .. 11 : s[L - i] = SystemAt(i)
  BY DEF Chained
<1>4. PICK i \in 1 .. (L - 1) : a \in s[i] .. (s[i] + 2)
  BY DEF Heads
<1>5. {s[i], s[i] + 1, s[i] + 2} \subseteq Ram /\ DictBase <= s[i]
  BY DEF Chained, Linked
<1>6. s[1] + 2 <= m[here_ptr] /\ m[here_ptr] \in Int
  BY NewestIsHigh DEF Chained
<1> HIDE DEF L
<1>7. i \in 1 .. L /\ 1 \in 1 .. L /\ i \in Int /\ L \in Int /\ (i = 1 \/ 1 < i) /\ 1 \in 1 .. (L - 1)
  BY <1>1
<1>8. s[i] \in Int /\ a \in Int /\ s[1] \in Int /\ DictBase \in Int
  BY <1>1, <1>4, <1>7, DictAssumption
<1>9. a = s[i] \/ a = s[i] + 1 \/ a = s[i] + 2
  BY <1>4, <1>8
<1>10. a \in Ram /\ DictBase <= a
  BY <1>5, <1>8, <1>9
<1>11. 1 < i => s[i] + 2 < s[1]
  BY <1>2, <1>7
<1>12. a <= m[here_ptr]
  BY <1>6, <1>7, <1>8, <1>9, <1>11
<1>13. ASSUME NEW k \in 1 .. 8, a = SystemAt(k) + 3 PROVE FALSE
  <2>1. s[i] <= SystemAt(k) + 3
    BY <1>4, <1>8, <1>13
  <2>2. i = 1 \/ SystemAt(k) + 3 < s[i - 1]
    <3>1. i # 1 => i - 1 \in 1 .. (L - 1) /\ i - 1 < i /\ i - 1 \in 1 .. L
      BY <1>1, <1>7
    <3>2. i # 1 => s[i] + 2 < s[i - 1] /\ s[i - 1] \in Int
      BY <1>1, <1>2, <3>1
    <3>3. QED
      BY <1>8, <1>9, <1>13, <3>2
  <2>3. i = L - k
    BY <1>1, <1>2, <1>3, <2>1, <2>2, DatumOf
  <2>4. s[i] = SystemAt(k)
    <3>1. k \in 1 .. 11
      OBVIOUS
    <3>2. QED
      BY <1>3, <2>3, <3>1
  <2>5. QED
    BY <1>8, <1>9, <1>13, <2>4
<1>14. a \notin Variables \cup Pointers
  BY <1>13, PlacesAreData
<1>15. QED
  BY <1>10, <1>12, <1>14

\* The cells of a word with code are none of the variables either.
LEMMA BodiesAreKept ==
    ASSUME NEW m, NEW s, Chained(m, s), NEW i \in 1 .. (Len(s) - 1),
           m[s[i]] \notin {HeaderMark + VAR, HeaderMark + CONST}, NEW a \in Body(m, s, i)
    PROVE  /\ a \in Ram /\ DictBase <= a /\ a <= m[here_ptr]
           /\ a \notin Variables \cup Pointers
<1> DEFINE L == Len(s)
<1>1. L \in Nat /\ L > 11 /\ \A j \in 1 .. L : s[j] \in Int
  BY ChainIsInt DEF Chained
<1>2. \A j, k \in 1 .. (L - 1) : j < k => s[k] + 2 < s[j]
  BY DEF Chained, Linked
<1>3. \A j \in 1 .. 11 : s[L - j] = SystemAt(j)
  BY DEF Chained
<1>4. s[i] \in Ram /\ DictBase <= s[i] /\ \A k \in 1 .. 8 : m[SystemAt(k)] \in {HeaderMark + VAR, HeaderMark + CONST}
  BY DEF Chained, Linked
<1>5. s[1] + 2 <= m[here_ptr] /\ m[here_ptr] \in Int /\ m[here_ptr] \in Ram
  BY NewestIsHigh DEF Chained
<1>16. i \in 1 .. (L - 1)
  OBVIOUS
<1> HIDE DEF L
<1>6. i \in 1 .. L /\ 1 \in 1 .. L /\ i \in Int /\ L \in Int /\ 1 \in 1 .. (L - 1)
  BY <1>1, <1>16
<1>7. s[i] \in Int /\ s[1] \in Int /\ DictBase \in Int
  BY <1>1, <1>6, DictAssumption
<1>8. i # 1 => i - 1 \in 1 .. (L - 1) /\ i - 1 \in 1 .. L /\ (i - 1 = 1 \/ 1 < i - 1)
  BY <1>6, <1>16
<1>9. i # 1 => s[i - 1] \in Int /\ s[i - 1] <= s[1]
  <2>1. 1 < i - 1 => (i # 1 => s[i - 1] + 2 < s[1])
    BY <1>2, <1>6, <1>8
  <2>2. i # 1 => s[i - 1] \in Int
    BY <1>1, <1>8
  <2>3. QED
    BY <1>7, <1>8, <2>1, <2>2
<1>10. a \in Int /\ s[i] <= a /\ (i = 1 => a <= m[here_ptr]) /\ (i # 1 => a < s[i - 1])
  BY <1>5, <1>7, <1>9 DEF Body
<1>11. a <= m[here_ptr] /\ DictBase <= a
  BY <1>4, <1>5, <1>7, <1>9, <1>10
<1>12. a \in Ram
  BY <1>4, <1>5, <1>10, <1>11, RamIsRange
<1>13. ASSUME NEW k \in 1 .. 8, a = SystemAt(k) + 3 PROVE FALSE
  <2>1. i = L - k
    BY <1>1, <1>2, <1>3, <1>10, <1>13, <1>16, DatumOf
  <2>2. s[i] = SystemAt(k)
    <3>1. k \in 1 .. 11
      OBVIOUS
    <3>2. QED
      BY <1>3, <2>1, <3>1
  <2>3. QED
    BY <1>4, <2>2
<1>14. a \notin Variables \cup Pointers
  BY <1>13, PlacesAreData
<1>15. QED
  BY <1>11, <1>12, <1>14

-----------------------------------------------------------------------------
(* The dictionary: what the steps make of the list of words.                *)

\* A step that keeps the headers keeps the list.
LEMMA KeepingChained ==
    ASSUME NEW m, NEW s, Chained(m, s), NEW P, Heads(s) \subseteq P, NEW m2, Leaves(P, m, m2)
    PROVE  Chained(m2, s)
<1>1. Linked(m, s)
  BY DEF Chained
<1>2. \A a \in Heads(s) : m2[a] = m[a]
  BY DEF Leaves
<1>3. m2[forth_ptr] = m[forth_ptr] /\ m2[here_ptr] \in Ram /\ m[forth_ptr] + 2 <= m2[here_ptr]
  BY DEF Leaves
<1>4. \A i \in 1 .. (Len(s) - 1) : /\ s[i] \in Heads(s) /\ s[i] + 2 \in Heads(s)
  <2> SUFFICES ASSUME NEW i \in 1 .. (Len(s) - 1) PROVE s[i] \in Heads(s) /\ s[i] + 2 \in Heads(s)
    OBVIOUS
  <2>1. Len(s) \in Nat
    BY <1>1, ChainIsInt
  <2>2. i \in 1 .. Len(s)
    BY <2>1
  <2>3. s[i] \in Int
    BY <1>1, <2>2, ChainIsInt
  <2>4. s[i] \in s[i] .. (s[i] + 2) /\ s[i] + 2 \in s[i] .. (s[i] + 2)
    BY <2>3
  <2>5. QED
    BY <2>4 DEF Heads
<1>5. Linked(m2, s)
  <2>1. \A i \in 1 .. (Len(s) - 1) : m2[s[i] + 2] = s[i + 1]
    BY <1>1, <1>2, <1>4 DEF Linked
  <2>2. s[1] = m2[forth_ptr]
    BY <1>1, <1>3 DEF Linked
  <2>3. QED
    BY <1>1, <2>1, <2>2 DEF Linked
<1>6. \A i \in 1 .. 8 : m2[SystemAt(i)] = m[SystemAt(i)]
  <2> SUFFICES ASSUME NEW i \in 1 .. 8 PROVE m2[SystemAt(i)] = m[SystemAt(i)]
    OBVIOUS
  <2>1. Len(s) \in Nat /\ Len(s) > 11
    BY <1>1, ChainIsInt
  <2>2. Len(s) - i \in 1 .. (Len(s) - 1) /\ i \in 1 .. 11
    BY <2>1
  <2>3. s[Len(s) - i] = SystemAt(i)
    BY <2>2 DEF Chained
  <2>4. SystemAt(i) \in Heads(s)
    BY <1>4, <2>2, <2>3
  <2>5. QED
    BY <1>2, <2>4
<1>7. \A i \in 1 .. 8 : m2[SystemAt(i)] \in {HeaderMark + VAR, HeaderMark + CONST}
  BY <1>6 DEF Chained
<1>8. \A i \in 1 .. (Len(s) - 1) : /\ m2[s[i]] \in HeaderMark .. (HeaderMark + 15)
                                   /\ DictBase <= s[i]
  BY <1>2, <1>4 DEF Chained
<1>9. s[1] + 2 <= m2[here_ptr]
  BY <1>1, <1>3 DEF Linked
<1>10. QED
  BY <1>3, <1>5, <1>7, <1>8, <1>9 DEF Chained

LEMMA ConsIs ==
    ASSUME NEW s \in Seq(Word), NEW h \in Word
    PROVE  /\ <<h>> \o s \in Seq(Word) /\ Len(<<h>> \o s) = Len(s) + 1 /\ (<<h>> \o s)[1] = h
           /\ \A i \in 2 .. (Len(s) + 1) : (<<h>> \o s)[i] = s[i - 1]
           /\ Tail(<<h>> \o s) = s /\ Head(<<h>> \o s) = h
<1>1. <<h>> \in Seq(Word) /\ Len(<<h>>) = 1 /\ <<h>>[1] = h
  OBVIOUS
<1> DEFINE t == <<h>>
<1>2. t \in Seq(Word) /\ Len(t) = 1 /\ t[1] = h
  BY <1>1
<1>3. Tail(<<h>> \o s) = s /\ Head(<<h>> \o s) = h
  OBVIOUS
<1> HIDE DEF t
<1>4. t \o s \in Seq(Word) /\ Len(t \o s) = 1 + Len(s)
  BY <1>2, ConcatProperties
<1>5. \A i \in 1 .. (1 + Len(s)) : (t \o s)[i] = IF i <= 1 THEN t[i] ELSE s[i - 1]
  BY <1>2, ConcatProperties
<1>6. Len(s) \in Nat
  OBVIOUS
<1>7. (t \o s)[1] = h
  <2>1. 1 \in 1 .. (1 + Len(s))
    BY <1>6
  <2>2. QED
    BY <1>2, <1>5, <2>1
<1>8. \A i \in 2 .. (Len(s) + 1) : (t \o s)[i] = s[i - 1]
  <2>1. \A i \in 2 .. (Len(s) + 1) : i \in 1 .. (1 + Len(s)) /\ ~(i <= 1)
    BY <1>6
  <2>2. QED
    BY <1>5, <2>1
<1>9. Len(t \o s) = Len(s) + 1
  BY <1>4, <1>6
<1>10. QED
  BY <1>3, <1>4, <1>7, <1>8, <1>9 DEF t

\* A new word comes before the list.
LEMMA AddingChained ==
    ASSUME NEW m, NEW s, Chained(m, s), NEW P, Heads(s) \subseteq P, NEW m2, Adds(P, m, m2)
    PROVE  Chained(m2, <<m[here_ptr] + 1>> \o s)
<1> DEFINE h == m[here_ptr] + 1
           t == <<h>> \o s
           L == Len(s)
<1>1. /\ Linked(m, s) /\ L \in Nat /\ L > 11 /\ s \in Seq(Word)
      /\ \A i \in 1 .. L : s[i] \in Int
  BY ChainIsInt DEF Chained, Linked
<1>2. /\ \A a \in Heads(s) : m2[a] = m[a]
      /\ {h, h + 1, h + 2} \subseteq Ram
      /\ m2[forth_ptr] = h /\ m2[h + 2] = m[forth_ptr]
      /\ m2[h] \in {HeaderMark + VAR, HeaderMark + CONST, HeaderMark + TEXT}
      /\ m2[here_ptr] \in Ram /\ h + 2 <= m2[here_ptr]
  BY DEF Adds
<1>3. h \in Word /\ h \in Int
  BY <1>2, LayoutAssumption, WordIsInt
<1>4. /\ t \in Seq(Word) /\ Len(t) = L + 1 /\ t[1] = h
      /\ \A i \in 2 .. (L + 1) : t[i] = s[i - 1]
  BY <1>1, <1>3, ConsIs
<1>5. /\ m[forth_ptr] = s[1] /\ s[1] + 2 <= m[here_ptr] /\ m[here_ptr] \in Int /\ s[1] >= DictBase + 46
  BY NewestIsHigh DEF Chained
<1>6. /\ s[1] = m[forth_ptr] /\ s[L] = LastRom
      /\ \A i \in 1 .. (L - 1) : {s[i], s[i] + 1, s[i] + 2} \subseteq Ram
      /\ \A i \in 1 .. (L - 1) : m[s[i] + 2] = s[i + 1]
      /\ \A i, j \in 1 .. (L - 1) : i < j => s[j] + 2 < s[i]
  BY <1>1 DEF Linked
<1>7. \A i \in 1 .. 11 : s[L - i] = SystemAt(i)
  BY DEF Chained
<1>8. \A i \in 1 .. (L - 1) : /\ m[s[i]] \in HeaderMark .. (HeaderMark + 15)
                              /\ DictBase <= s[i]
  BY DEF Chained
<1>9. \A i \in 1 .. (L - 1) : s[i] \in Heads(s) /\ s[i] + 2 \in Heads(s)
  <2> SUFFICES ASSUME NEW i \in 1 .. (L - 1) PROVE s[i] \in Heads(s) /\ s[i] + 2 \in Heads(s)
    OBVIOUS
  <2>1. i \in 1 .. L
    <3>1. i \in 1 .. (L - 1)
      OBVIOUS
    <3> HIDE DEF L
    <3>2. QED
      BY <1>1, <3>1
  <2>2. s[i] \in s[i] .. (s[i] + 2) /\ s[i] + 2 \in s[i] .. (s[i] + 2)
    BY <1>1, <2>1
  <2>3. QED
    BY <2>2 DEF Heads
<1>10. \A i \in 1 .. (L - 1) : m2[s[i] + 2] = s[i + 1] /\ m2[s[i]] = m[s[i]]
  BY <1>2, <1>6, <1>9
<1>11. \A i \in 1 .. 8 : m2[SystemAt(i)] \in {HeaderMark + VAR, HeaderMark + CONST}
  <2> SUFFICES ASSUME NEW i \in 1 .. 8
               PROVE  m2[SystemAt(i)] \in {HeaderMark + VAR, HeaderMark + CONST}
    OBVIOUS
  <2>1. m[SystemAt(i)] \in {HeaderMark + VAR, HeaderMark + CONST}
    BY DEF Chained
  <2> HIDE DEF L
  <2>2. L - i \in 1 .. (L - 1) /\ i \in 1 .. 11
    BY <1>1
  <2>3. s[L - i] = SystemAt(i)
    BY <1>7, <2>2
  <2>4. QED
    BY <1>10, <2>1, <2>2, <2>3
<1> HIDE DEF t, L, h
<1>12. \A i \in 2 .. L : i - 1 \in 1 .. (L - 1) /\ i + 1 \in 2 .. (L + 1) /\ (i + 1) - 1 = i
                         /\ (i - 1) + 1 = i /\ i \in 2 .. (L + 1)
  BY <1>1
<1>13. \A i \in 1 .. L : i = 1 \/ i \in 2 .. L
  BY <1>1
<1>14. 2 \in 2 .. (L + 1) /\ 2 - 1 = 1 /\ 1 + 1 = 2 /\ L + 1 \in 2 .. (L + 1) /\ (L + 1) - 1 = L
  BY <1>1
<1>15. \A i \in 1 .. L : {t[i], t[i] + 1, t[i] + 2} \subseteq Ram
  BY <1>2, <1>4, <1>6, <1>12, <1>13
<1>16. \A i \in 1 .. L : m2[t[i] + 2] = t[i + 1]
  <2>1. m2[t[1] + 2] = t[2]
    BY <1>2, <1>4, <1>6, <1>14
  <2>2. ASSUME NEW i \in 2 .. L PROVE m2[t[i] + 2] = t[i + 1]
    <3>1. i - 1 \in 1 .. (L - 1) /\ (i - 1) + 1 = i /\ i \in 2 .. (L + 1) /\ i + 1 \in 2 .. (L + 1)
          /\ (i + 1) - 1 = i
      BY <1>12
    <3>2. m2[s[i - 1] + 2] = s[i]
      BY <1>10, <3>1
    <3>3. t[i] = s[i - 1] /\ t[i + 1] = s[i]
      BY <1>4, <3>1
    <3>4. QED
      BY <3>2, <3>3
  <2>3. QED
    BY <1>13, <1>14, <2>1, <2>2
<1>17. \A i, j \in 1 .. L : i < j => t[j] + 2 < t[i]
  <2> SUFFICES ASSUME NEW i \in 1 .. L, NEW j \in 1 .. L, i < j PROVE t[j] + 2 < t[i]
    OBVIOUS
  <2>1. j \in 2 .. L /\ (i = 1 \/ i \in 2 .. L)
    BY <1>1
  <2>2. j - 1 \in 1 .. (L - 1) /\ j \in 2 .. (L + 1) /\ (j - 1 = 1 \/ 1 < j - 1) /\ j - 1 \in 1 .. L
        /\ 1 \in 1 .. (L - 1) /\ 1 \in 1 .. L
    BY <1>1, <2>1
  <2>3. t[j] = s[j - 1] /\ s[j - 1] \in Int /\ s[1] \in Int
    BY <1>1, <1>4, <2>2
  <2>4. CASE i = 1
    <3>1. 1 < j - 1 => s[j - 1] + 2 < s[1]
      BY <1>6, <2>2
    <3>2. s[j - 1] + 2 < h
      BY <1>5, <2>2, <2>3, <3>1 DEF h
    <3>3. QED
      BY <1>4, <2>3, <2>4, <3>2
  <2>5. CASE i \in 2 .. L
    <3>1. i - 1 \in 1 .. (L - 1) /\ i \in 2 .. (L + 1) /\ i - 1 < j - 1
      BY <1>1, <2>2, <2>5
    <3>2. s[j - 1] + 2 < s[i - 1]
      BY <1>6, <2>2, <3>1
    <3>3. QED
      BY <1>4, <2>3, <3>1, <3>2
  <2>6. QED
    BY <2>1, <2>4, <2>5
<1>18. t[L + 1] = LastRom
  BY <1>4, <1>6, <1>14
<1>19. (L + 1) - 1 = L /\ L + 1 > 11
  BY <1>1
<1>20. Linked(m2, t)
  BY <1>2, <1>4, <1>15, <1>16, <1>17, <1>18, <1>19 DEF Linked
<1>21. \A i \in 1 .. 11 : t[(L + 1) - i] = SystemAt(i)
  <2> SUFFICES ASSUME NEW i \in 1 .. 11 PROVE t[(L + 1) - i] = SystemAt(i)
    OBVIOUS
  <2>1. (L + 1) - i \in 2 .. (L + 1) /\ ((L + 1) - i) - 1 = L - i
    BY <1>1
  <2>2. QED
    BY <1>4, <1>7, <2>1
<1>22. \A i \in 1 .. L : m2[t[i]] \in HeaderMark .. (HeaderMark + 15) /\ DictBase <= t[i]
  <2>1. m2[h] \in HeaderMark .. (HeaderMark + 15)
    BY <1>2 DEF HeaderMark, VAR, CONST, TEXT
  <2>2. DictBase <= h
    <3>1. s[1] \in Int /\ DictBase \in Int
      <4>1. 1 \in 1 .. L
        BY <1>1
      <4>2. QED
        BY <1>1, <4>1, DictAssumption
    <3>2. QED
      BY <1>5, <3>1 DEF h
  <2>3. ASSUME NEW i \in 2 .. L
        PROVE  m2[t[i]] \in HeaderMark .. (HeaderMark + 15) /\ DictBase <= t[i]
    <3>1. i - 1 \in 1 .. (L - 1) /\ i \in 2 .. (L + 1)
      BY <1>12
    <3>2. t[i] = s[i - 1]
      BY <1>4, <3>1
    <3>3. QED
      BY <1>8, <1>10, <3>1, <3>2
  <2>4. QED
    BY <1>4, <1>13, <2>1, <2>2, <2>3
<1>23. t[1] + 2 <= m2[here_ptr] /\ m2[here_ptr] \in Ram
  BY <1>2, <1>4
<1>24. Chained(m2, t)
  BY <1>4, <1>11, <1>19, <1>20, <1>21, <1>22, <1>23 DEF Chained
<1>25. QED
  BY <1>24 DEF t, h

\* A header with the flag set is a header.
LEMMA FlagOfHeader ==
    \A w \in HeaderMark .. (HeaderMark + 15) :
        (w \div IMMEDIATE) % 2 # 1 => w + IMMEDIATE \in HeaderMark .. (HeaderMark + 15)
<1>1. \A w \in 64 .. 79 : (w \div 2) % 2 # 1 => w + 2 \in 64 .. 79
  <2>1. (78 \div 2) % 2 = 1 /\ (79 \div 2) % 2 = 1
    OBVIOUS
  <2>2. \A w \in 64 .. 79 : w \in 64 .. 77 \/ w = 78 \/ w = 79
    OBVIOUS
  <2>3. \A w \in 64 .. 77 : w + 2 \in 64 .. 79
    OBVIOUS
  <2>4. QED
    BY <2>1, <2>2, <2>3
<1>2. HeaderMark = 64 /\ HeaderMark + 15 = 79 /\ IMMEDIATE = 2
  BY DEF HeaderMark, IMMEDIATE
<1>3. QED
  BY <1>1, <1>2

\* The newest word made immediate is still the same word.
LEMMA MarkingChained ==
    ASSUME NEW m, DOMAIN m = Memory, NEW s, Chained(m, s), NEW P, NEW m2, Marks(P, m, m2)
    PROVE  /\ Chained(m2, s)
           /\ \A a \in Memory : a # m[forth_ptr] => m2[a] = m[a]
           /\ m2[m[forth_ptr]] = m[m[forth_ptr]] + IMMEDIATE
           /\ (m[m[forth_ptr]] \div IMMEDIATE) % 2 # 1
<1> DEFINE h == m[forth_ptr]
           L == Len(s)
<1>1. /\ Linked(m, s) /\ L \in Nat /\ L > 11
      /\ \A i \in 1 .. L : s[i] \in Int
  BY ChainIsInt DEF Chained
<1>2. h \in Ram /\ (m[h] \div IMMEDIATE) % 2 # 1 /\ m2 = [m EXCEPT ![h] = m[h] + IMMEDIATE]
  BY DEF Marks
<1>3. h = s[1] /\ h >= DictBase + 46 /\ h \in Int /\ DictBase \in Int
  BY <1>2, NewestIsHigh, LayoutAssumption, WordIsInt, DictAssumption
<1>4. h \in Memory
  BY <1>2 DEF Memory, Cells
<1>5. (\A a \in Memory : a # h => m2[a] = m[a]) /\ m2[h] = m[h] + IMMEDIATE
  BY <1>2, <1>4
<1>6. forth_ptr # h /\ here_ptr # h /\ forth_ptr \in Memory /\ here_ptr \in Memory
  BY <1>3, PlacesOfVariables DEF Pointers
<1>7. m2[forth_ptr] = m[forth_ptr] /\ m2[here_ptr] = m[here_ptr]
  BY <1>5, <1>6
<1>8. \A i, j \in 1 .. (L - 1) : i < j => s[j] + 2 < s[i]
  BY <1>1 DEF Linked
<1> HIDE DEF h, L
<1>9. \A i \in 1 .. (L - 1) : s[i] \in Int /\ s[i] + 2 # h /\ (i = 1 \/ s[i] # h) /\ i \in 1 .. L
  <2> SUFFICES ASSUME NEW i \in 1 .. (L - 1)
               PROVE  s[i] \in Int /\ s[i] + 2 # h /\ (i = 1 \/ s[i] # h) /\ i \in 1 .. L
    OBVIOUS
  <2>1. i \in 1 .. L /\ (i = 1 \/ 1 < i) /\ 1 \in 1 .. (L - 1) /\ 1 \in 1 .. L
    BY <1>1
  <2>2. 1 < i => s[i] + 2 < s[1]
    BY <1>8, <2>1
  <2>3. s[i] \in Int /\ s[1] \in Int
    BY <1>1, <2>1
  <2>4. QED
    BY <1>3, <2>1, <2>2, <2>3
<1>10. \A i \in 1 .. (L - 1) : {s[i], s[i] + 1, s[i] + 2} \subseteq Ram /\ m[s[i] + 2] = s[i + 1]
  BY <1>1 DEF Linked, L
<1>11. \A i \in 1 .. (L - 1) : m2[s[i] + 2] = s[i + 1]
  <2>1. \A i \in 1 .. (L - 1) : s[i] + 2 \in Memory
    BY <1>10 DEF Memory, Cells
  <2>2. QED
    BY <1>5, <1>9, <1>10, <2>1
<1>12. Linked(m2, s)
  BY <1>1, <1>7, <1>11 DEF Linked, L
<1>13. \A i \in 1 .. (L - 1) : m[s[i]] \in HeaderMark .. (HeaderMark + 15) /\ DictBase <= s[i]
  BY DEF Chained, L
<1>14. \A i \in 1 .. (L - 1) : m2[s[i]] \in HeaderMark .. (HeaderMark + 15)
  <2>1. 1 \in 1 .. (L - 1)
    BY <1>1
  <2>2. m2[s[1]] \in HeaderMark .. (HeaderMark + 15)
    BY <1>2, <1>3, <1>5, <1>13, <2>1, FlagOfHeader
  <2>3. \A i \in 1 .. (L - 1) : s[i] \in Memory
    BY <1>10 DEF Memory, Cells
  <2>4. QED
    BY <1>5, <1>9, <1>13, <2>2, <2>3
<1>15. \A i \in 1 .. 8 : m2[SystemAt(i)] = m[SystemAt(i)]
  <2> SUFFICES ASSUME NEW i \in 1 .. 8 PROVE m2[SystemAt(i)] = m[SystemAt(i)]
    OBVIOUS
  <2>1. SystemAt(i) \in Int /\ SystemAt(i) <= DictBase + 28
    BY SystemSteps
  <2>2. SystemAt(i) # h
    BY <1>3, <2>1
  <2>3. L - i \in 1 .. (L - 1) /\ i \in 1 .. 11
    BY <1>1
  <2>4. s[L - i] = SystemAt(i)
    BY <2>3 DEF Chained, L
  <2>5. SystemAt(i) \in Memory
    BY <1>10, <2>3, <2>4 DEF Memory, Cells
  <2>6. QED
    BY <1>5, <2>2, <2>5
<1>16. Chained(m2, s)
  BY <1>7, <1>12, <1>13, <1>14, <1>15 DEF Chained, L
<1>17. QED
  BY <1>2, <1>5, <1>16 DEF h
-----------------------------------------------------------------------------
(* The dictionary: the invariant.                                           *)

LEMMA ListIsChain ==
    ASSUME NEW m, MemoryOK(m), NEW s, Chained(m, s)
    PROVE  WordList(m) = s
  BY MemoryIsRam, LinkedIsList DEF Chained

LEMMA FlagsOfData ==
    /\ ((HeaderMark + VAR) \div VAR) % 2 = 1
    /\ ((HeaderMark + CONST) \div CONST) % 2 = 1
  BY DEF HeaderMark, VAR, CONST

\* A word with code is none of the shell's own data.
LEMMA CodeIsNoDatum ==
    ASSUME RegistersOK, NEW a \in Ram, ~HasFlag(a, VAR), ~HasFlag(a, CONST)
    PROVE  mem[a] \notin {HeaderMark + VAR, HeaderMark + CONST}
<1>1. Load(a) = mem[a]
  BY DEF Load, RegistersOK, Memory, Cells
<1>2. QED
  BY <1>1, FlagsOfData DEF HasFlag

LEMMA CodeCellsAre ==
    ASSUME ShellTypeOK, NEW s, Chained(mem, s), NEW a \in CodeCells
    PROVE  \E i \in 1 .. (Len(s) - 1) : /\ mem[s[i]] \notin {HeaderMark + VAR, HeaderMark + CONST}
                                        /\ a \in Body(mem, s, i)
<1>1. RegistersOK /\ MemoryOK(mem) /\ WordList(mem) = s
  BY MemoryIsTyped, ListIsChain DEF ShellTypeOK
<1>2. PICK i \in 1 .. (Len(s) - 1) : /\ ~HasFlag(s[i], VAR) /\ ~HasFlag(s[i], CONST)
                                     /\ a \in s[i] .. (IF i = 1 THEN mem[here_ptr] ELSE s[i - 1] - 1)
  BY <1>1 DEF CodeCells
<1>3. s[i] \in Ram
  BY DEF Chained, Linked
<1>4. mem[s[i]] \notin {HeaderMark + VAR, HeaderMark + CONST}
  BY <1>1, <1>2, <1>3, CodeIsNoDatum
<1>5. QED
  BY <1>2, <1>4 DEF Body

\* A tame step is careful about the headers and the finished code.
LEMMA TameIsCareful ==
    ASSUME ShellTypeOK, NEW s, Chained(mem, s), Tame
    PROVE  Careful(KeptCells) /\ Heads(s) \subseteq KeptCells
<1>1. RegistersOK /\ MemoryOK(mem) /\ WordList(mem) = s
  BY MemoryIsTyped, ListIsChain DEF ShellTypeOK
<1>2. HeaderCells = Heads(s)
  BY <1>1 DEF HeaderCells, Heads
<1>3. \A a \in KeptCells : /\ a \in DOMAIN Rom \/ (a \in Ram /\ DictBase <= a /\ a <= mem[here_ptr])
                           /\ a \notin Variables \cup Pointers
  <2>1. \A a \in HeaderCells : /\ a \in Ram /\ DictBase <= a /\ a <= mem[here_ptr]
                               /\ a \notin Variables \cup Pointers
    BY <1>2, HeadsAreKept
  <2>2. \A a \in CodeCells : /\ a \in Ram /\ DictBase <= a /\ a <= mem[here_ptr]
                             /\ a \notin Variables \cup Pointers
    BY CodeCellsAre, BodiesAreKept
  <2>3. \A a \in DOMAIN Rom : a \notin Variables \cup Pointers
    BY PlacesOfVariables, LayoutAssumption DEF Cells
  <2>4. QED
    BY <2>1, <2>2, <2>3 DEF KeptCells
<1>4. Roomy(mem, KeptCells)
  <2>1. mem[here_ptr] \in Ram /\ mem[forth_ptr] + 2 <= mem[here_ptr] /\ DictBase + 48 <= mem[here_ptr]
    BY NewestIsHigh DEF Chained
  <2>2. QED
    BY <1>1, <1>3, <2>1 DEF Roomy, RegistersOK
<1>5. \A a \in KeptCells \cup Pointers : a \in Cells => ~StoresAt(a)
  <2>1. \A a \in Protected : ~StoresAt(a)
    BY DEF Tame
  <2>2. \A a \in KeptCells \cup Pointers : a \in Cells => a \in Protected
    BY LayoutAssumption DEF KeptCells, Pointers, Protected
  <2>3. QED
    BY <2>1, <2>2
<1>6. HereStays /\ SandboxFits
  BY DEF Tame, HereStays, SandboxFits
<1>7. QED
  BY <1>2, <1>4, <1>5, <1>6 DEF Careful, KeptCells

\* What a tame step may do to the list s: nothing, a new word, a flag.
Progress(s) ==
    /\ \A a \in KeptCells : mem'[a] = mem[a] \/ (a = mem[forth_ptr] /\ mem'[a] = mem[a] + IMMEDIATE)
    /\ \/ Chained(mem', s) /\ \A a \in KeptCells : mem'[a] = mem[a]
       \/ Chained(mem', <<mem[here_ptr] + 1>> \o s) /\ Adds(KeptCells, mem, mem')
       \/ Chained(mem', s) /\ Marks(KeptCells, mem, mem')

LEMMA TameSteps ==
    ASSUME DictInv, NEW s, Chained(mem, s), [Next]_shellVars, [Tame]_shellVars
    PROVE  Progress(s)
<1>1. CASE UNCHANGED shellVars
  <2>1. UNCHANGED mem
    BY <1>1 DEF shellVars, vmVars
  <2>2. QED
    BY <2>1 DEF Progress
<1>2. CASE Tame
  <2>1. ShellTypeOK /\ RegistersOK
    BY DEF DictInv, ShellTypeOK
  <2>2. Careful(KeptCells) /\ Heads(s) \subseteq KeptCells
    BY <1>2, <2>1, TameIsCareful
  <2>3. Stepped(KeptCells)
    BY <2>1, <2>2, ShellSteps
  <2>4. CASE Kept(KeptCells)
    <3>1. Chained(mem', s)
      BY <2>2, <2>4, KeepingChained DEF Kept
    <3>2. QED
      BY <2>4, <3>1 DEF Kept, Leaves, Progress
  <2>5. CASE Adds(KeptCells, mem, mem')
    <3>1. Chained(mem', <<mem[here_ptr] + 1>> \o s)
      BY <2>2, <2>5, AddingChained
    <3>2. \A a \in KeptCells : mem'[a] = mem[a]
      BY <2>5 DEF Adds
    <3>3. QED
      BY <2>5, <3>1, <3>2 DEF Progress
  <2>6. CASE Marks(KeptCells, mem, mem')
    <3>1. DOMAIN mem = Memory
      BY <2>1 DEF RegistersOK
    <3>2. /\ Chained(mem', s)
          /\ \A a \in Memory : a # mem[forth_ptr] => mem'[a] = mem[a]
          /\ mem'[mem[forth_ptr]] = mem[mem[forth_ptr]] + IMMEDIATE
      BY <2>6, <3>1, MarkingChained
    <3>3. \A a \in KeptCells : a \in Memory
      BY <2>2, KeptAreCells DEF Careful
    <3>4. QED
      BY <2>6, <3>2, <3>3 DEF Progress
  <2>7. QED
    BY <2>3, <2>4, <2>5, <2>6 DEF Stepped
<1>3. QED
  BY <1>1, <1>2

LEMMA TameKeepsDict == DictInv /\ [Next]_shellVars /\ [Tame]_shellVars => DictInv'
<1> SUFFICES ASSUME DictInv, [Next]_shellVars, [Tame]_shellVars PROVE DictInv'
  OBVIOUS
<1>1. PICK s : Chained(mem, s)
  BY DEF DictInv
<1>2. Progress(s)
  BY <1>1, TameSteps
<1>3. ShellTypeOK'
  BY NextKeepsTypes DEF DictInv
<1>4. \E t : Chained(mem', t)
  BY <1>2 DEF Progress
<1>5. ASSUME NEW a \in DOMAIN Rom PROVE mem'[a] = Rom[a]
  <2>1. a \in KeptCells /\ mem[a] = Rom[a]
    BY DEF KeptCells, DictInv
  <2>2. a # mem[forth_ptr]
    <3>1. mem[forth_ptr] \in Ram
      <4>1. Len(s) \in Nat /\ Len(s) > 11
        BY <1>1, ChainIsInt DEF Chained
      <4>2. 1 \in 1 .. (Len(s) - 1)
        BY <4>1
      <4>3. s[1] \in Ram /\ s[1] = mem[forth_ptr]
        BY <1>1, <4>2 DEF Chained, Linked
      <4>4. QED
        BY <4>3
    <3>2. QED
      BY <3>1, LayoutAssumption DEF Cells
  <2>3. QED
    BY <1>2, <2>1, <2>2 DEF Progress
<1>6. QED
  BY <1>3, <1>4, <1>5 DEF DictInv

LEMMA SystemOrder ==
    /\ \A i \in 1 .. 11 : SystemAt(i) \in Int /\ DictBase <= SystemAt(i) /\ SystemAt(i) + 2 <= DictBase + 52
    /\ \A i, j \in 1 .. 11 : i < j => SystemAt(i) + 2 < SystemAt(j)
<1>1. DictBase \in Nat
  BY DictAssumption
<1>2. \A i \in 1 .. 11 : i \in 1 .. 8 \/ i = 9 \/ i = 10 \/ i = 11
  OBVIOUS
<1>3. \A i \in 1 .. 11 : SystemAt(i) \in Int /\ DictBase <= SystemAt(i) /\ SystemAt(i) + 2 <= DictBase + 52
  BY <1>1, <1>2, SystemPlaces
<1>4. ASSUME NEW i \in 1 .. 11, NEW j \in 1 .. 11, i < j PROVE SystemAt(i) + 2 < SystemAt(j)
  <2>1. CASE j \in 1 .. 8
    <3>1. i \in 1 .. 8
      BY <1>4, <2>1
    <3>2. SystemAt(i) = DictBase + 4 * i - 4 /\ SystemAt(j) = DictBase + 4 * j - 4
      BY <2>1, <3>1, SystemPlaces
    <3>3. QED
      BY <1>1, <1>4, <2>1, <3>1, <3>2
  <2>2. CASE j = 9 \/ j = 10 \/ j = 11
    <3>1. CASE i \in 1 .. 8
      <4>1. SystemAt(i) = DictBase + 4 * i - 4
        BY <3>1, SystemPlaces
      <4>2. QED
        BY <1>1, <2>2, <3>1, <4>1, SystemPlaces
    <3>2. CASE i \in {9, 10, 11}
      BY <1>1, <1>4, <2>2, <3>2, SystemPlaces
    <3>3. QED
      BY <1>2, <3>1, <3>2
  <2>3. QED
    BY <1>2, <2>1, <2>2
<1>5. QED
  BY <1>3, <1>4

\* A function on an interval from 1 is a sequence.
LEMMA FunctionIsSeq ==
    ASSUME NEW S, NEW n \in Nat, NEW f \in [1 .. n -> S]
    PROVE  f \in Seq(S) /\ Len(f) = n
  OBVIOUS

LEMMA FirstListIs ==
    /\ FirstList \in Seq(Word) /\ Len(FirstList) = 12 /\ FirstList[12] = LastRom
    /\ \A i \in 1 .. 11 : FirstList[i] = SystemAt(12 - i) /\ 12 - i \in 1 .. 11
<1>1. ASSUME NEW i \in 1 .. 11 PROVE FirstList[i] = SystemAt(12 - i) /\ 12 - i \in 1 .. 11
  BY DEF FirstList
<1>2. FirstList[12] = LastRom
  BY DEF FirstList
<1>3. ASSUME NEW i \in 1 .. 12 PROVE FirstList[i] \in Word
  <2>1. CASE i = 12
    BY <1>2, <2>1, SystemAssumption
  <2>2. CASE i \in 1 .. 11
    <3>1. SystemAt(12 - i) \in DictBase .. LastSystemCell
      BY <1>1, <2>2, SystemOrder, DictAssumption DEF LastSystemCell
    <3>2. QED
      BY <1>1, <2>2, <3>1, SystemAssumption, LayoutAssumption
  <2>3. QED
    BY <2>1, <2>2
<1>4. FirstList \in [1 .. 12 -> Word]
  BY <1>3 DEF FirstList
<1>5. 12 \in Nat
  OBVIOUS
<1>6. FirstList \in Seq(Word) /\ Len(FirstList) = 12
  BY <1>4, <1>5, FunctionIsSeq
<1>7. QED
  BY <1>1, <1>2, <1>6

\* What the RAM holds of the headers of the shell's own words.
LEMMA ImageOfHeads ==
    ASSUME NEW i \in 1 .. 11
    PROVE  /\ {SystemAt(i), SystemAt(i) + 1, SystemAt(i) + 2} \subseteq Ram
           /\ RamImage[SystemAt(i)] = HeaderMark + SystemWords[i].flags
           /\ RamImage[SystemAt(i) + 2] = IF i = 1 THEN LastRom ELSE SystemAt(i - 1)
<1> DEFINE head == SystemHead(i)
           text == SystemWords[i].text
<1>1. /\ SystemCells(i) = head \o text /\ head \in Seq(Word) /\ Len(head) = 3 /\ text \in Seq(Word)
  BY SystemParts
<1>2. /\ head[1] = HeaderMark + SystemWords[i].flags
      /\ head[3] = IF i = 1 THEN LastRom ELSE SystemAt(i - 1)
  BY DEF SystemHead
<1> HIDE DEF head, text
<1>3. 1 \in 1 .. 3 /\ 2 \in 1 .. 3 /\ 3 \in 1 .. 3
  OBVIOUS
<1>4. SystemCells(i)[1] = head[1] /\ SystemCells(i)[3] = head[3]
  BY <1>1, <1>3, HeadOfConcat
<1>5. SystemAt(i) \in Int
  BY SystemOrder
<1>6. 1 \in 1 .. SystemSize(i) /\ 2 \in 1 .. SystemSize(i) /\ 3 \in 1 .. SystemSize(i)
  BY DEF SystemSize
<1>7. /\ SystemAt(i) + 1 - 1 = SystemAt(i) /\ SystemAt(i) + 2 - 1 = SystemAt(i) + 1
      /\ SystemAt(i) + 3 - 1 = SystemAt(i) + 2
  BY <1>5
<1>8. /\ SystemAt(i) \in DictBase .. LastSystemCell /\ SystemAt(i) + 1 \in DictBase .. LastSystemCell
      /\ SystemAt(i) + 2 \in DictBase .. LastSystemCell
  BY <1>6, <1>7, RamImageIs
<1>9. RamImage[SystemAt(i)] = SystemCells(i)[1] /\ RamImage[SystemAt(i) + 2] = SystemCells(i)[3]
  BY <1>6, <1>7, RamImageIs
<1>10. QED
  BY <1>2, <1>4, <1>8, <1>9, SystemAssumption

LEMMA FourthOfConcat ==
    ASSUME NEW s \in Seq(Word), NEW t \in Seq(Word), Len(s) = 3, Len(t) = 1
    PROVE  (s \o t)[4] = t[1]
<1> DEFINE c == s \o t
<1>1. \A i \in 1 .. (Len(s) + Len(t)) : c[i] = IF i <= Len(s) THEN s[i] ELSE t[i - Len(s)]
  BY ConcatProperties
<1> HIDE DEF c
<1>2. 4 \in 1 .. (Len(s) + Len(t)) /\ ~(4 <= Len(s)) /\ 4 - Len(s) = 1
  OBVIOUS
<1>3. c[4] = t[1]
  BY <1>1, <1>2
<1>4. QED
  BY <1>3 DEF c

\* What FORTH and HERE start with.
LEMMA ImageOfPointers ==
    RamImage[forth_ptr] = DictBase + 46 /\ RamImage[here_ptr] = DictBase + 52
<1>1. ASSUME NEW i \in 1 .. 2
      PROVE  RamImage[SystemAt(i) + 3] = SystemWords[i].text[1]
  <2> DEFINE head == SystemHead(i)
             text == SystemWords[i].text
  <2>1. i \in 1 .. 11 /\ SystemSize(i) = 4 /\ 4 \in 1 .. 4
    BY DEF SystemSize
  <2>2. /\ SystemCells(i) = head \o text /\ head \in Seq(Word) /\ Len(head) = 3
        /\ text \in Seq(Word) /\ Len(text) + 3 = 4
    BY <2>1, SystemParts
  <2> HIDE DEF head, text
  <2>3. Len(text) = 1
    <3> DEFINE n == Len(text)
    <3>1. n \in Nat /\ n + 3 = 4
      BY <2>2
    <3> HIDE DEF n
    <3>2. n = 1
      BY <3>1
    <3>3. QED
      BY <3>2 DEF n
  <2>4. SystemCells(i)[4] = text[1]
    BY <2>2, <2>3, FourthOfConcat
  <2>5. SystemAt(i) + 4 - 1 = SystemAt(i) + 3
    BY <2>1, SystemOrder
  <2>6. RamImage[SystemAt(i) + 3] = SystemCells(i)[4]
    BY <2>1, <2>5, RamImageIs
  <2>7. QED
    BY <2>4, <2>6 DEF text
<1>2. DictBase \in Nat
  BY DictAssumption
<1>3. forth_ptr = SystemAt(1) + 3 /\ here_ptr = SystemAt(2) + 3
  BY <1>2, SystemPlaces DEF forth_ptr, here_ptr
<1>4. SystemWords[1].text[1] = DictBase + 46 /\ SystemWords[2].text[1] = DictBase + 52
  BY DEF SystemWords, Entry, LastSystemCell
<1>5. QED
  BY <1>1, <1>3, <1>4

LEMMA OwnFlags ==
    /\ \A i \in 1 .. 8 : SystemWords[i].flags \in {VAR, CONST}
    /\ \A i \in 9 .. 11 : SystemWords[i].flags = TEXT
  BY DEF SystemWords, Entry

\* The shell's set-up lays its own words out as a list.
LEMMA ImageChained ==
    ASSUME NEW m, \A a \in Ram : m[a] = RamImage[a]
    PROVE  Chained(m, FirstList)
<1> DEFINE s == FirstList
<1>1. \A i \in 1 .. 11 : s[i] = SystemAt(12 - i) /\ 12 - i \in 1 .. 11
  BY FirstListIs
<1>2. DictBase \in Nat /\ DictBase .. LastSystemCell \subseteq Ram /\ LastSystemCell = DictBase + 52
  BY DictAssumption, SystemAssumption DEF LastSystemCell
<1>3. m[forth_ptr] = DictBase + 46 /\ m[here_ptr] = DictBase + 52
  BY ImageOfPointers, PlacesOfVariables DEF Pointers
<1>4. \A i \in 1 .. 11 : /\ {SystemAt(i), SystemAt(i) + 1, SystemAt(i) + 2} \subseteq Ram
                         /\ m[SystemAt(i)] = HeaderMark + SystemWords[i].flags
                         /\ m[SystemAt(i) + 2] = IF i = 1 THEN LastRom ELSE SystemAt(i - 1)
  BY ImageOfHeads
<1> HIDE DEF s
<1>5. s[1] = DictBase + 46
  <2>1. 1 \in 1 .. 11 /\ 12 - 1 = 11
    OBVIOUS
  <2>2. QED
    BY <1>1, <2>1, SystemPlaces
<1>6. ASSUME NEW i \in 1 .. 11
      PROVE  {s[i], s[i] + 1, s[i] + 2} \subseteq Ram /\ m[s[i] + 2] = s[i + 1]
  <2>1. s[i] = SystemAt(12 - i) /\ 12 - i \in 1 .. 11
    BY <1>1
  <2>2. {s[i], s[i] + 1, s[i] + 2} \subseteq Ram
        /\ m[s[i] + 2] = IF 12 - i = 1 THEN LastRom ELSE SystemAt((12 - i) - 1)
    BY <1>4, <2>1
  <2>3. CASE i = 11
    BY <2>2, <2>3, FirstListIs DEF s
  <2>4. CASE i \in 1 .. 10
    <3>1. i + 1 \in 1 .. 11 /\ 12 - (i + 1) = (12 - i) - 1 /\ 12 - i # 1
      BY <2>4
    <3>2. QED
      BY <1>1, <2>2, <3>1
  <2>5. QED
    BY <2>3, <2>4
<1>7. ASSUME NEW i \in 1 .. 11, NEW j \in 1 .. 11, i < j PROVE s[j] + 2 < s[i]
  <2>1. 12 - j < 12 - i
    BY <1>7
  <2>2. QED
    BY <1>1, <2>1, SystemOrder
<1>8. Linked(m, s)
  <2>1. s \in Seq(Word) /\ Len(s) = 12 /\ s[12] = LastRom
    BY FirstListIs DEF s
  <2>2. Len(s) > 11 /\ Len(s) - 1 = 11 /\ s[Len(s)] = LastRom
    BY <2>1
  <2>3. QED
    BY <1>3, <1>5, <1>6, <1>7, <2>1, <2>2 DEF Linked
<1>9. ASSUME NEW i \in 1 .. 11 PROVE s[12 - i] = SystemAt(i)
  <2>1. 12 - i \in 1 .. 11 /\ 12 - (12 - i) = i
    OBVIOUS
  <2>2. QED
    BY <1>1, <2>1
<1>10. \A i \in 1 .. 8 : m[SystemAt(i)] \in {HeaderMark + VAR, HeaderMark + CONST}
  BY <1>4, OwnFlags
<1>11. ASSUME NEW i \in 1 .. 11
       PROVE  m[s[i]] \in HeaderMark .. (HeaderMark + 15) /\ DictBase <= s[i]
  <2>1. s[i] = SystemAt(12 - i) /\ 12 - i \in 1 .. 11
    BY <1>1
  <2>2. m[s[i]] = HeaderMark + SystemWords[12 - i].flags
    BY <1>4, <2>1
  <2>3. SystemWords[12 - i].flags \in {VAR, CONST, TEXT}
    <3>1. 12 - i \in 1 .. 8 \/ 12 - i \in 9 .. 11
      OBVIOUS
    <3>2. QED
      BY <3>1, OwnFlags
  <2>4. \A f \in {VAR, CONST, TEXT} : HeaderMark + f \in HeaderMark .. (HeaderMark + 15)
    BY DEF HeaderMark, VAR, CONST, TEXT
  <2>5. QED
    BY <2>1, <2>2, <2>3, <2>4, SystemOrder
<1>12. s[1] + 2 <= m[here_ptr] /\ m[here_ptr] \in Ram
  BY <1>2, <1>3, <1>5
<1>13. Len(s) = 12 /\ Len(s) - 1 = 11
  BY FirstListIs DEF s
<1>14. QED
  BY <1>8, <1>9, <1>10, <1>11, <1>12, <1>13 DEF Chained, s

\* What the machine starts with.
LEMMA InitMemory ==
    ASSUME Init
    PROVE  /\ \A a \in Ram : mem[a] = RamImage[a]
           /\ \A a \in DOMAIN Rom : mem[a] = Rom[a]
<1>1. mem = [a \in Memory |-> IF a \in DOMAIN Rom THEN Rom[a]
                              ELSE IF a \in Ram THEN RamImage[a] ELSE 0]
  BY DEF Init, vm_init
<1>2. \A a \in Ram : a \in Memory /\ a \notin DOMAIN Rom
  BY LayoutAssumption DEF Memory, Cells
<1>3. \A a \in DOMAIN Rom : a \in Memory
  BY DEF Memory
<1>4. QED
  BY <1>1, <1>2, <1>3

LEMMA InitDict == Init => DictInv
  BY InitTyped, InitMemory, ImageChained DEF DictInv

-----------------------------------------------------------------------------
(* The dictionary: what tame programs leave of it.                          *)

\* The own words at the end of a chain.
LEMMA OwnWordsLast ==
    ASSUME NEW m, NEW s, Chained(m, s)
    PROVE  SubSeq(s, Len(s) - 11, Len(s) - 1) = SystemHeaders /\ Len(SystemHeaders) = 11
<1> DEFINE L == Len(s)
           r == SubSeq(s, L - 11, L - 1)
           t == [i \in 1 .. 11 |-> SystemAt(12 - i)]
<1>1. L \in Nat /\ L > 11 /\ \A i \in 1 .. L : s[i] \in Word
  BY ChainIsInt DEF Chained
<1>2. \A i \in 1 .. 11 : s[L - i] = SystemAt(i)
  BY DEF Chained
<1>3. s \in Seq(Word)
  BY DEF Chained, Linked
<1>4. SystemHeaders = t
  <2>1. Len(SystemWords) = 11
    BY DEF SystemWords
  <2>2. SystemHeaders = [i \in 1 .. 11 |-> SystemAt(11 + 1 - i)]
    BY <2>1 DEF SystemHeaders
  <2>3. 11 + 1 = 12
    OBVIOUS
  <2>4. QED
    BY <2>2, <2>3
<1>5. L - 11 \in Int /\ L - 1 \in Int /\ L - 11 <= L - 1 /\ (L - 1) - (L - 11) + 1 = 11
      /\ \A i \in (L - 11) .. (L - 1) : i \in 1 .. L
  <2> HIDE DEF L
  <2>1. QED
    BY <1>1
<1>6. \A i \in (L - 11) .. (L - 1) : s[i] \in Word
  BY <1>1, <1>5
<1>7. r \in Seq(Word) /\ Len(r) = 11 /\ \A i \in 1 .. 11 : r[i] = s[(L - 11) + i - 1]
  <2> HIDE DEF L
  <2>1. QED
    BY <1>5, <1>6, SubSeqProperties
<1>8. \A i \in 1 .. 11 : 12 - i \in 1 .. 11 /\ (L - 11) + i - 1 = L - (12 - i)
  <2> HIDE DEF L
  <2>1. QED
    BY <1>1
<1>9. \A i \in 1 .. 11 : r[i] = SystemAt(12 - i) /\ SystemAt(12 - i) \in Word
  <2> HIDE DEF L, r
  <2>1. \A i \in 1 .. 11 : SystemAt(12 - i) \in Int /\ DictBase <= SystemAt(12 - i)
                           /\ SystemAt(12 - i) + 2 <= DictBase + 52
    BY <1>8, SystemOrder
  <2>2. \A i \in 1 .. 11 : SystemAt(12 - i) \in DictBase .. LastSystemCell
    BY <2>1, DictAssumption DEF LastSystemCell
  <2>3. \A i \in 1 .. 11 : SystemAt(12 - i) \in Word
    BY <2>2, SystemAssumption, LayoutAssumption
  <2>4. \A i \in 1 .. 11 : r[i] = SystemAt(12 - i)
    BY <1>2, <1>7, <1>8
  <2>5. QED
    BY <2>3, <2>4
<1> HIDE DEF r
<1>10. t \in [1 .. 11 -> Word] /\ 11 \in Nat
  BY <1>9
<1>11. t \in Seq(Word) /\ Len(t) = 11 /\ \A i \in 1 .. 11 : t[i] = SystemAt(12 - i)
  <2>1. \A i \in 1 .. 11 : t[i] = SystemAt(12 - i)
    OBVIOUS
  <2> HIDE DEF t
  <2>2. t \in Seq(Word) /\ Len(t) = 11
    BY <1>10, FunctionIsSeq
  <2>3. QED
    BY <2>1, <2>2
<1> HIDE DEF t
<1>12. r = t
  <2>1. \A i \in 1 .. Len(r) : r[i] = t[i]
    BY <1>7, <1>9, <1>11
  <2>2. QED
    BY <1>7, <1>11, <2>1, SeqEqual
<1>13. QED
  BY <1>4, <1>11, <1>12 DEF r

LEMMA DictInvIntact == DictInv => DictionaryIntact
<1> SUFFICES ASSUME DictInv PROVE DictionaryIntact
  OBVIOUS
<1>1. PICK s : Chained(mem, s)
  BY DEF DictInv
<1>2. RegistersOK /\ MemoryOK(mem)
  BY MemoryIsTyped DEF DictInv, ShellTypeOK
<1>3. WordList(mem) = s
  BY <1>1, <1>2, ListIsChain
<1>4. Len(s) \in Nat /\ Len(s) > 11
  BY <1>1, ChainIsInt DEF Chained
<1>5. s[Len(s)] = LastRom
  BY <1>1 DEF Chained, Linked
<1>6. ASSUME NEW i \in 1 .. Len(s) PROVE IsHeader(s[i])
  <2>1. CASE i \in 1 .. (Len(s) - 1)
    <3>1. {s[i], s[i] + 1, s[i] + 2} \subseteq Ram
      BY <1>1, <2>1 DEF Chained, Linked
    <3>2. mem[s[i]] \in HeaderMark .. (HeaderMark + 15)
      BY <1>1, <2>1 DEF Chained
    <3>3. DOMAIN mem = Memory /\ Ram \subseteq Memory
      BY <1>2 DEF RegistersOK, Memory, Cells
    <3>4. Load(s[i]) = mem[s[i]]
      BY <3>1, <3>3 DEF Load
    <3>5. QED
      BY <3>1, <3>2, <3>3, <3>4 DEF IsHeader
  <2>2. CASE i = Len(s)
    <3>1. DOMAIN mem = Memory /\ DOMAIN Rom \subseteq Memory
      BY <1>2 DEF RegistersOK, Memory
    <3>2. {LastRom, LastRom + 1, LastRom + 2} \subseteq DOMAIN Rom
      BY SystemAssumption
    <3>3. mem[LastRom] = Rom[LastRom]
      BY <3>2 DEF DictInv
    <3>4. Load(LastRom) \in HeaderMark .. (HeaderMark + 15)
      BY <3>1, <3>2, <3>3, SystemAssumption DEF Load
    <3>5. QED
      BY <1>5, <2>2, <3>1, <3>2, <3>4 DEF IsHeader
  <2>3. i \in 1 .. (Len(s) - 1) \/ i = Len(s)
    BY <1>4
  <2>4. QED
    BY <2>1, <2>2, <2>3
<1>7. s[1] + 2 <= mem[here_ptr]
  BY <1>1 DEF Chained
<1>8. SubSeq(s, Len(s) - 11, Len(s) - 1) = SystemHeaders /\ Len(SystemHeaders) = 11
  BY <1>1, OwnWordsLast
<1>9. QED
  BY <1>3, <1>4, <1>5, <1>6, <1>7, <1>8 DEF DictionaryIntact, Last

\* The list stays intact, whatever lines, errors and half-finished definitions
\* come, for programs that store at no header, at no finished code and at none
\* of the two pointers, and whose lines fit.
THEOREM DictionaryStaysIntact == Spec /\ SessionsAreTame => []DictionaryIntact
<1>1. Init => DictInv
  BY InitDict
<1>2. DictInv /\ [Next]_shellVars /\ [Tame]_shellVars => DictInv'
  BY TameKeepsDict
<1>3. DictInv => DictionaryIntact
  BY DictInvIntact
<1>4. QED
  BY <1>1, <1>2, <1>3, PTL DEF Spec, SessionsAreTame

\* The action of CodeFrozen.
CodeStays ==
    mem' # mem =>
        \A a \in CodeCells : \/ mem'[a] = mem[a]
                             \/ a = mem[forth_ptr] /\ mem'[a] = mem[a] + IMMEDIATE

LEMMA TameKeepsCode == DictInv /\ [Next]_shellVars /\ [Tame]_shellVars => CodeStays
<1> SUFFICES ASSUME DictInv, [Next]_shellVars, [Tame]_shellVars PROVE CodeStays
  OBVIOUS
<1>1. PICK s : Chained(mem, s)
  BY DEF DictInv
<1>2. Progress(s)
  BY <1>1, TameSteps
<1>3. QED
  BY <1>2 DEF Progress, KeptCells, CodeStays

\* No step of a tame program, of the shell's own lines or of its loop, changes
\* a cell of a finished word but by IMMEDIATE.
THEOREM CodeStaysFrozen == Spec /\ SessionsAreTame => CodeFrozen
<1>1. Init => DictInv
  BY InitDict
<1>2. DictInv /\ [Next]_shellVars /\ [Tame]_shellVars => DictInv'
  BY TameKeepsDict
<1>3. DictInv /\ [Next]_shellVars /\ [Tame]_shellVars => CodeStays
  BY TameKeepsCode
<1>4. Spec /\ SessionsAreTame => [][CodeStays]_shellVars
  BY <1>1, <1>2, <1>3, PTL DEF Spec, SessionsAreTame
<1>5. QED
  BY <1>4 DEF CodeFrozen, CodeStays

\* The action of DictionaryGrows.
ListGrows ==
    mem' # mem =>
        LET old == WordList(mem)
            new == WordList(mem')
        IN \/ new = old
           \/ Tail(new) = old /\ Head(new) > mem[here_ptr]

LEMMA TameGrows == DictInv /\ [Next]_shellVars /\ [Tame]_shellVars => ListGrows
<1> SUFFICES ASSUME DictInv, [Next]_shellVars, [Tame]_shellVars PROVE ListGrows
  OBVIOUS
<1>1. PICK s : Chained(mem, s)
  BY DEF DictInv
<1>2. Progress(s)
  BY <1>1, TameSteps
<1>3. ShellTypeOK'
  BY NextKeepsTypes DEF DictInv
<1>4. MemoryOK(mem) /\ MemoryOK(mem')
  <2>1. RegistersOK /\ RegistersOK'
    BY <1>3 DEF DictInv, ShellTypeOK
  <2>2. QED
    BY <2>1 DEF RegistersOK, MemoryOK
<1>5. WordList(mem) = s
  BY <1>1, <1>4, ListIsChain
<1>6. CASE Chained(mem', s)
  <2>1. WordList(mem') = s
    BY <1>4, <1>6, ListIsChain
  <2>2. QED
    BY <1>5, <2>1 DEF ListGrows
<1>7. CASE Chained(mem', <<mem[here_ptr] + 1>> \o s) /\ Adds(KeptCells, mem, mem')
  <2> DEFINE h == mem[here_ptr] + 1
             t == <<h>> \o s
  <2>1. WordList(mem') = t
    BY <1>4, <1>7, ListIsChain
  <2>2. h \in Word /\ s \in Seq(Word)
    BY <1>1, <1>7, LayoutAssumption DEF Adds, Chained, Linked
  <2>3. Tail(t) = s /\ Head(t) = h
    BY <2>2, ConsIs
  <2>4. h > mem[here_ptr]
    <3>1. mem[here_ptr] \in Int
      BY <1>1, NewestIsHigh
    <3>2. QED
      BY <3>1
  <2> HIDE DEF h, t
  <2>5. QED
    BY <1>5, <2>1, <2>3, <2>4 DEF ListGrows
<1>8. QED
  BY <1>2, <1>6, <1>7 DEF Progress

\* A tame program never loses a word, nor does the shell: each step leaves the
\* list of words or puts one before it, behind all that has been compiled.
THEOREM DictionaryOnlyGrows == Spec /\ SessionsAreTame => DictionaryGrows
<1>1. Init => DictInv
  BY InitDict
<1>2. DictInv /\ [Next]_shellVars /\ [Tame]_shellVars => DictInv'
  BY TameKeepsDict
<1>3. DictInv /\ [Next]_shellVars /\ [Tame]_shellVars => ListGrows
  BY TameGrows
<1>4. Spec /\ SessionsAreTame => [][ListGrows]_shellVars
  BY <1>1, <1>2, <1>3, PTL DEF Spec, SessionsAreTame
<1>5. QED
  BY <1>4 DEF DictionaryGrows, ListGrows
-----------------------------------------------------------------------------
(* The dictionary refines the list of words.                                *)

LEMMA ListedIs ==
    ASSUME NEW m, RamOK(m), NEW s, Linked(m, s)
    PROVE  ListedWords(m) = [i \in 1 .. (Len(s) - 1) |-> ListedAt(m, s[i])]
<1>1. WordList(m) = s
  BY LinkedIsList
<1>2. QED
  BY <1>1 DEF ListedWords, ListedAt

\* What a word is depends on two cells of its header.
LEMMA ListedSame ==
    ASSUME NEW m, NEW m2, NEW a, m2[a] = m[a], m2[a + 1] = m[a + 1]
    PROVE  ListedAt(m2, a) = ListedAt(m, a)
  BY DEF ListedAt

\* Words as records.
LEMMA RecordIs ==
    ASSUME NEW A, NEW B, NEW a \in A, NEW b \in B
    PROVE  [name |-> a, kind |-> b, immediate |-> FALSE] \in [name : A, kind : B, immediate : {FALSE}]
  OBVIOUS

LEMMA RecordMarked ==
    ASSUME NEW a, NEW b, NEW c
    PROVE  [[name |-> a, kind |-> b, immediate |-> c] EXCEPT !.immediate = TRUE] =
               [name |-> a, kind |-> b, immediate |-> TRUE]
<1>1. \A y : [[name |-> a, kind |-> b, immediate |-> c] EXCEPT !.immediate = y] =
              [name |-> a, kind |-> b, immediate |-> y]
  OBVIOUS
<1>2. QED
  BY <1>1, Zenon

\* A new header is a new word.
LEMMA NewListed ==
    ASSUME NEW m, NEW h, m[h] \in {HeaderMark + VAR, HeaderMark + CONST, HeaderMark + TEXT},
           m[h + 1] \in {Name[token] : token \in Tokens}
    PROVE  ListedAt(m, h) \in Listed!NewWord
<1> DEFINE b == ((m[h] - HeaderMark) \div IMMEDIATE) % 2 = 1
           k == 4 * ((m[h] - HeaderMark) \div 4)
<1>1. k \in {VAR, CONST, TEXT}
  BY DEF HeaderMark, VAR, CONST, TEXT
<1>2. ~b
  <2>1. ((m[h] - HeaderMark) \div IMMEDIATE) % 2 # 1
    BY DEF HeaderMark, VAR, CONST, TEXT, IMMEDIATE
  <2>2. QED
    BY <2>1
<1>3. ListedAt(m, h) = [name |-> m[h + 1], kind |-> k, immediate |-> b]
  BY DEF ListedAt
<1>4. b = FALSE
  <2>1. b \in BOOLEAN
    OBVIOUS
  <2> HIDE DEF b
  <2>2. QED
    BY <1>2, <2>1
<1> HIDE DEF b, k
<1>5. ListedAt(m, h) = [name |-> m[h + 1], kind |-> k, immediate |-> FALSE]
  BY <1>3, <1>4
<1>6. QED
  BY <1>1, <1>5, RecordIs DEF Listed!NewWord

\* The flag makes a word immediate and nothing else.
LEMMA MarkedListed ==
    ASSUME NEW m, NEW m2, NEW h, m[h] \in HeaderMark .. (HeaderMark + 15),
           (m[h] \div IMMEDIATE) % 2 # 1, m2[h] = m[h] + IMMEDIATE, m2[h + 1] = m[h + 1]
    PROVE  ListedAt(m2, h) = [ListedAt(m, h) EXCEPT !.immediate = TRUE]
<1> DEFINE w == m[h]
           b2 == ((m2[h] - HeaderMark) \div IMMEDIATE) % 2 = 1
<1>1. w \in {64, 65, 68, 69, 72, 73, 76, 77}
  <2>1. w \in 64 .. 79 /\ (w \div 2) % 2 # 1
    BY DEF HeaderMark, IMMEDIATE
  <2> HIDE DEF w
  <2>2. QED
    BY <2>1
<1>2. m2[h] = w + 2
  BY DEF IMMEDIATE
<1> HIDE DEF w
<1>3. ((w + 2) - 64) \div 4 = (w - 64) \div 4
  BY <1>1
<1>4. (((w + 2) - 64) \div 2) % 2 = 1
  BY <1>1
<1>5. 4 * ((m2[h] - HeaderMark) \div 4) = 4 * ((m[h] - HeaderMark) \div 4)
  BY <1>2, <1>3 DEF HeaderMark, w
<1>6. b2 = TRUE
  BY <1>2, <1>4 DEF HeaderMark, IMMEDIATE
<1> HIDE DEF b2
<1>7. ListedAt(m2, h) = [name |-> m2[h + 1], kind |-> 4 * ((m2[h] - HeaderMark) \div 4), immediate |-> b2]
  BY DEF ListedAt, b2
<1> DEFINE n == m[h + 1]
           k == 4 * ((m[h] - HeaderMark) \div 4)
           b == ((m[h] - HeaderMark) \div IMMEDIATE) % 2 = 1
<1>8. ListedAt(m, h) = [name |-> n, kind |-> k, immediate |-> b]
  BY DEF ListedAt
<1>9. ListedAt(m2, h) = [name |-> n, kind |-> k, immediate |-> TRUE]
  BY <1>5, <1>6, <1>7
<1> HIDE DEF n, k, b
<1>10. QED
  BY <1>8, <1>9, RecordMarked

\* A sequence with one element put before it.
LEMMA PutBefore ==
    ASSUME NEW S, NEW n \in Nat, NEW f \in [1 .. n -> S], NEW g \in [1 .. (n + 1) -> S],
           \A i \in 1 .. n : g[i + 1] = f[i]
    PROVE  Len(g) = Len(f) + 1 /\ Head(g) = g[1] /\ Tail(g) = f
<1>1. f \in Seq(S) /\ Len(f) = n
  OBVIOUS
<1>2. n + 1 \in Nat
  OBVIOUS
<1>3. g \in Seq(S) /\ Len(g) = n + 1
  BY <1>2
<1>4. g # <<>>
  BY <1>3
<1>5. /\ Tail(g) \in Seq(S) /\ Len(Tail(g)) = Len(g) - 1
      /\ \A i \in 1 .. Len(Tail(g)) : Tail(g)[i] = g[i + 1]
  BY <1>3, <1>4, HeadTailProperties
<1>6. Len(Tail(g)) = n
  BY <1>3, <1>5
<1>7. Tail(g) = f
  <2>1. \A i \in 1 .. Len(Tail(g)) : Tail(g)[i] = f[i]
    BY <1>5, <1>6
  <2>2. QED
    BY <1>1, <1>5, <1>6, <2>1, SeqEqual
<1>8. Head(g) = g[1]
  BY <1>3, <1>4
<1>9. QED
  BY <1>1, <1>3, <1>7, <1>8

LEMMA ListedInit == Init => ListedWords(mem) = ListedWords(RamImage)
<1> SUFFICES ASSUME Init PROVE ListedWords(mem) = ListedWords(RamImage)
  OBVIOUS
<1> DEFINE s == FirstList
<1>1. \A a \in Ram : mem[a] = RamImage[a]
  BY InitMemory
<1>2. Linked(mem, s) /\ Linked(RamImage, s)
  <2>1. Chained(mem, s)
    BY <1>1, ImageChained
  <2>2. Chained(RamImage, s)
    BY ImageChained
  <2>3. QED
    BY <2>1, <2>2 DEF Chained
<1>3. RamOK(RamImage)
  BY RamImageTyped DEF RamOK
<1>4. RamOK(mem)
  BY <1>1, <1>3 DEF RamOK
<1>5. \A i \in 1 .. (Len(s) - 1) : s[i] \in Ram /\ s[i] + 1 \in Ram
  BY <1>2 DEF Linked
<1> HIDE DEF s
<1>6. \A i \in 1 .. (Len(s) - 1) : ListedAt(mem, s[i]) = ListedAt(RamImage, s[i])
  BY <1>1, <1>5, ListedSame
<1>7. ListedWords(mem) = [i \in 1 .. (Len(s) - 1) |-> ListedAt(mem, s[i])]
  BY <1>2, <1>4, ListedIs
<1>8. ListedWords(RamImage) = [i \in 1 .. (Len(s) - 1) |-> ListedAt(RamImage, s[i])]
  BY <1>2, <1>3, ListedIs
<1>9. QED
  BY <1>6, <1>7, <1>8

\* The list with a new word before it.
LEMMA AddingListed ==
    ASSUME NEW m, RamOK(m), NEW s, Linked(m, s), NEW m2, RamOK(m2),
           NEW h \in Word, Linked(m2, <<h>> \o s),
           \A i \in 1 .. (Len(s) - 1) : m2[s[i]] = m[s[i]] /\ m2[s[i] + 1] = m[s[i] + 1]
    PROVE  /\ Len(ListedWords(m2)) = Len(ListedWords(m)) + 1
           /\ Head(ListedWords(m2)) = ListedAt(m2, h)
           /\ Tail(ListedWords(m2)) = ListedWords(m)
<1> DEFINE L == Len(s)
           t == <<h>> \o s
           n == L - 1
           S == {ListedAt(m, a) : a \in Word} \cup {ListedAt(m2, a) : a \in Word}
           f == [i \in 1 .. n |-> ListedAt(m, s[i])]
           g == [i \in 1 .. (n + 1) |-> ListedAt(m2, t[i])]
<1>1. s \in Seq(Word) /\ L \in Nat /\ L > 11
  BY ChainIsInt DEF Linked
<1>2. /\ t \in Seq(Word) /\ Len(t) = L + 1 /\ t[1] = h
      /\ \A i \in 2 .. (L + 1) : t[i] = s[i - 1]
  BY <1>1, ConsIs
<1>3. ListedWords(m) = f
  BY ListedIs
<1>4. ListedWords(m2) = [i \in 1 .. (Len(t) - 1) |-> ListedAt(m2, t[i])]
  <2> HIDE DEF t
  <2>1. Linked(m2, t)
    BY DEF t
  <2>2. QED
    BY <2>1, ListedIs
<1> HIDE DEF t, L
<1>5. n \in Nat /\ Len(t) - 1 = n + 1 /\ n + 1 \in Nat
  BY <1>1, <1>2
<1>6. ListedWords(m2) = g
  BY <1>4, <1>5
<1>7. \A i \in 1 .. n : s[i] \in Word /\ t[i + 1] = s[i]
  <2>1. \A i \in 1 .. n : i \in 1 .. L /\ i + 1 \in 2 .. (L + 1) /\ (i + 1) - 1 = i
    BY <1>1
  <2>2. \A i \in 1 .. L : s[i] \in Word
    BY <1>1 DEF L
  <2>3. QED
    BY <1>2, <2>1, <2>2
<1>8. \A i \in 1 .. (n + 1) : t[i] \in Word
  <2>1. \A i \in 1 .. (n + 1) : i \in 1 .. Len(t)
    BY <1>1, <1>2
  <2>2. QED
    BY <1>2, <2>1
<1>9. \A i \in 1 .. n : ListedAt(m2, s[i]) = ListedAt(m, s[i])
  BY ListedSame DEF L
<1>10. f \in [1 .. n -> S]
  BY <1>7
<1>11. g \in [1 .. (n + 1) -> S]
  BY <1>8
<1>12. \A i \in 1 .. n : g[i + 1] = f[i]
  <2>1. \A i \in 1 .. n : i + 1 \in 1 .. (n + 1)
    BY <1>5
  <2>2. QED
    BY <1>7, <1>9, <2>1
<1>13. g[1] = ListedAt(m2, h)
  <2>1. 1 \in 1 .. (n + 1)
    BY <1>5
  <2>2. QED
    BY <1>2, <2>1
<1> HIDE DEF f, g, S, n
<1>14. Len(g) = Len(f) + 1 /\ Head(g) = g[1] /\ Tail(g) = f
  BY <1>5, <1>10, <1>11, <1>12, PutBefore
<1>15. QED
  BY <1>3, <1>6, <1>13, <1>14

\* The list with its newest word made immediate.
LEMMA MarkingListed ==
    ASSUME NEW m, RamOK(m), NEW s, Linked(m, s), NEW m2, RamOK(m2), Linked(m2, s),
           \A i \in 2 .. (Len(s) - 1) : m2[s[i]] = m[s[i]] /\ m2[s[i] + 1] = m[s[i] + 1],
           ListedAt(m2, s[1]) = [ListedAt(m, s[1]) EXCEPT !.immediate = TRUE]
    PROVE  /\ ListedWords(m) # <<>>
           /\ ListedWords(m2) = [ListedWords(m) EXCEPT ![1].immediate = TRUE]
<1> DEFINE n == Len(s) - 1
           f == [i \in 1 .. n |-> ListedAt(m, s[i])]
           g == [i \in 1 .. n |-> ListedAt(m2, s[i])]
<1>1. ListedWords(m) = f /\ ListedWords(m2) = g
  BY ListedIs
<1>2. n \in Nat /\ 1 \in 1 .. n
  <2>1. Len(s) \in Nat /\ Len(s) > 11
    BY ChainIsInt
  <2>2. QED
    BY <2>1
<1>3. \A i \in 2 .. n : ListedAt(m2, s[i]) = ListedAt(m, s[i])
  BY ListedSame
<1>4. DOMAIN f = 1 .. n /\ \A i \in 1 .. n : f[i] = ListedAt(m, s[i])
  OBVIOUS
<1>5. DOMAIN g = 1 .. n /\ (\A i \in 1 .. n : g[i] = ListedAt(m2, s[i])) /\ g = [i \in 1 .. n |-> g[i]]
  OBVIOUS
<1> HIDE DEF f, g, n
<1>6. \A i \in 1 .. n : i = 1 \/ i \in 2 .. n
  BY <1>2
<1>7. g[1] = [f[1] EXCEPT !.immediate = TRUE]
  BY <1>2, <1>4, <1>5
<1>8. \A i \in 1 .. n : i # 1 => g[i] = f[i]
  BY <1>3, <1>4, <1>5, <1>6
<1> DEFINE e == [f[1] EXCEPT !.immediate = TRUE]
           k == [f EXCEPT ![1] = e]
<1>9. g = k
  <2>1. DOMAIN k = 1 .. n
    BY <1>4
  <2>2. k = [i \in 1 .. n |-> k[i]]
    BY <1>4
  <2>3. \A i \in 1 .. n : k[i] = IF i = 1 THEN e ELSE f[i]
    <3> HIDE DEF e
    <3>1. QED
      BY <1>4
  <2>4. \A i \in 1 .. n : g[i] = k[i]
    <3>1. g[1] = e
      BY <1>7
    <3> HIDE DEF e, k
    <3>2. QED
      BY <1>8, <2>3, <3>1
  <2> HIDE DEF k
  <2>5. QED
    BY <1>5, <2>2, <2>4
<1>10. k = [f EXCEPT ![1].immediate = TRUE]
  OBVIOUS
<1>11. f # <<>>
  BY <1>2, <1>4
<1>12. QED
  BY <1>1, <1>9, <1>10, <1>11

\* The cells that make a word are headers' cells.
LEMMA WordsAreKept ==
    ASSUME ShellTypeOK, NEW s, Chained(mem, s), NEW i \in 1 .. (Len(s) - 1)
    PROVE  /\ s[i] \in KeptCells /\ s[i] + 1 \in KeptCells
           /\ i # 1 => s[i] # mem[forth_ptr] /\ s[i] + 1 # mem[forth_ptr]
<1> DEFINE L == Len(s)
<1>1. MemoryOK(mem) /\ WordList(mem) = s
  BY MemoryIsTyped, ListIsChain DEF ShellTypeOK
<1>2. HeaderCells = Heads(s)
  BY <1>1 DEF HeaderCells, Heads
<1>3. L \in Nat /\ L > 11 /\ \A j \in 1 .. L : s[j] \in Int
  BY ChainIsInt DEF Chained
<1>4. \A k, j \in 1 .. (L - 1) : k < j => s[j] + 2 < s[k]
  BY DEF Chained, Linked
<1>5. mem[forth_ptr] = s[1]
  BY NewestIsHigh
<1>6. i \in 1 .. (L - 1)
  OBVIOUS
<1> HIDE DEF L
<1>7. i \in 1 .. L /\ 1 \in 1 .. (L - 1) /\ 1 \in 1 .. L /\ (i # 1 => 1 < i)
  BY <1>3, <1>6
<1>8. s[i] \in Int /\ s[1] \in Int
  BY <1>3, <1>7
<1>9. s[i] \in s[i] .. (s[i] + 2) /\ s[i] + 1 \in s[i] .. (s[i] + 2)
  BY <1>8
<1>10. s[i] \in Heads(s) /\ s[i] + 1 \in Heads(s)
  BY <1>6, <1>9 DEF Heads, L
<1>11. i # 1 => s[i] + 2 < s[1]
  BY <1>4, <1>6, <1>7
<1>12. i # 1 => s[i] # s[1] /\ s[i] + 1 # s[1]
  BY <1>8, <1>11
<1>13. QED
  BY <1>2, <1>5, <1>10, <1>12 DEF KeptCells

\* A step's effect on the list of words.
LEMMA TameLists ==
    DictInv /\ [Next]_shellVars /\ [Tame]_shellVars => [Listed!Next]_(ListedWords(mem))
<1> SUFFICES ASSUME DictInv, [Next]_shellVars, [Tame]_shellVars
             PROVE  [Listed!Next]_(ListedWords(mem))
  OBVIOUS
<1>1. PICK s : Chained(mem, s)
  BY DEF DictInv
<1>2. Progress(s)
  BY <1>1, TameSteps
<1>3. ShellTypeOK /\ ShellTypeOK'
  BY NextKeepsTypes DEF DictInv
<1>4. RamOK(mem) /\ RamOK(mem')
  <2>1. RegistersOK /\ RegistersOK'
    BY <1>3 DEF ShellTypeOK
  <2>2. QED
    BY <2>1 DEF RegistersOK, RamOK, Memory, Cells
<1>5. Linked(mem, s)
  BY <1>1 DEF Chained
<1>6. \A i \in 1 .. (Len(s) - 1) :
          /\ s[i] \in KeptCells /\ s[i] + 1 \in KeptCells
          /\ i # 1 => s[i] # mem[forth_ptr] /\ s[i] + 1 # mem[forth_ptr]
  BY <1>1, <1>3, WordsAreKept
<1>7. CASE Chained(mem', s) /\ \A a \in KeptCells : mem'[a] = mem[a]
  <2>1. Linked(mem', s)
    BY <1>7 DEF Chained
  <2>2. \A i \in 1 .. (Len(s) - 1) : ListedAt(mem', s[i]) = ListedAt(mem, s[i])
    BY <1>6, <1>7, ListedSame
  <2>3. ListedWords(mem) = [i \in 1 .. (Len(s) - 1) |-> ListedAt(mem, s[i])]
    BY <1>4, <1>5, ListedIs
  <2>4. ListedWords(mem') = [i \in 1 .. (Len(s) - 1) |-> ListedAt(mem', s[i])]
    BY <1>4, <2>1, ListedIs
  <2>5. ListedWords(mem') = ListedWords(mem)
    BY <2>2, <2>3, <2>4
  <2>6. ListedWords(mem)' = ListedWords(mem')
    BY DEF ListedWords, WordList
  <2>7. QED
    BY <2>5, <2>6
<1>8. CASE Chained(mem', <<mem[here_ptr] + 1>> \o s) /\ Adds(KeptCells, mem, mem')
  <2> DEFINE h == mem[here_ptr] + 1
  <2>1. h \in Word /\ Linked(mem', <<h>> \o s)
    BY <1>8, LayoutAssumption DEF Adds, Chained
  <2>2. \A i \in 1 .. (Len(s) - 1) : mem'[s[i]] = mem[s[i]] /\ mem'[s[i] + 1] = mem[s[i] + 1]
    BY <1>6, <1>8 DEF Adds
  <2>3. ListedAt(mem', h) \in Listed!NewWord
    BY <1>8, NewListed DEF Adds
  <2> HIDE DEF h
  <2>4. /\ Len(ListedWords(mem')) = Len(ListedWords(mem)) + 1
        /\ Head(ListedWords(mem')) = ListedAt(mem', h)
        /\ Tail(ListedWords(mem')) = ListedWords(mem)
    BY <1>4, <1>5, <2>1, <2>2, AddingListed
  <2>5. ListedWords(mem)' = ListedWords(mem')
    BY DEF ListedWords, WordList
  <2>6. Listed!Define
    BY <2>3, <2>4, <2>5 DEF Listed!Define
  <2>7. QED
    BY <2>6 DEF Listed!Next
<1>9. CASE Chained(mem', s) /\ Marks(KeptCells, mem, mem')
  <2>1. Linked(mem', s)
    BY <1>9 DEF Chained
  <2>2. s[1] = mem[forth_ptr] /\ mem[s[1]] \in HeaderMark .. (HeaderMark + 15)
        /\ {s[1], s[1] + 1, s[1] + 2} \subseteq Ram /\ s[1] \in Int
    <3>1. Len(s) \in Nat /\ Len(s) > 11 /\ \A i \in 1 .. Len(s) : s[i] \in Int
      BY <1>5, ChainIsInt
    <3>2. 1 \in 1 .. (Len(s) - 1) /\ 1 \in 1 .. Len(s)
      BY <3>1
    <3>3. QED
      BY <1>1, <3>1, <3>2 DEF Chained, Linked
  <2>3. DOMAIN mem = Memory
    BY <1>3 DEF ShellTypeOK, RegistersOK
  <2>4. /\ \A a \in Memory : a # mem[forth_ptr] => mem'[a] = mem[a]
        /\ mem'[s[1]] = mem[s[1]] + IMMEDIATE /\ (mem[s[1]] \div IMMEDIATE) % 2 # 1
    BY <1>1, <1>9, <2>2, <2>3, MarkingChained
  <2>5. mem'[s[1] + 1] = mem[s[1] + 1]
    <3>1. s[1] + 1 \in Memory /\ s[1] + 1 # s[1]
      BY <2>2 DEF Memory, Cells
    <3>2. QED
      BY <2>2, <2>4, <3>1
  <2>6. ListedAt(mem', s[1]) = [ListedAt(mem, s[1]) EXCEPT !.immediate = TRUE]
    <3> DEFINE h == s[1]
    <3>1. /\ mem[h] \in HeaderMark .. (HeaderMark + 15) /\ (mem[h] \div IMMEDIATE) % 2 # 1
          /\ mem'[h] = mem[h] + IMMEDIATE /\ mem'[h + 1] = mem[h + 1]
      BY <2>2, <2>4, <2>5
    <3> HIDE DEF h
    <3>2. ListedAt(mem', h) = [ListedAt(mem, h) EXCEPT !.immediate = TRUE]
      BY <3>1, MarkedListed
    <3>3. QED
      BY <3>2 DEF h
  <2>7. \A i \in 2 .. (Len(s) - 1) : mem'[s[i]] = mem[s[i]] /\ mem'[s[i] + 1] = mem[s[i] + 1]
    <3>1. \A a \in KeptCells : a # mem[forth_ptr] => mem'[a] = mem[a]
      BY <1>2 DEF Progress
    <3>2. \A i \in 2 .. (Len(s) - 1) : i \in 1 .. (Len(s) - 1) /\ i # 1
      OBVIOUS
    <3>3. QED
      BY <1>6, <3>1, <3>2
  <2>8. /\ ListedWords(mem) # <<>>
        /\ ListedWords(mem') = [ListedWords(mem) EXCEPT ![1].immediate = TRUE]
    BY <1>4, <1>5, <2>1, <2>6, <2>7, MarkingListed
  <2>9. ListedWords(mem)' = ListedWords(mem')
    BY DEF ListedWords, WordList
  <2>10. Listed!MakeImmediate
    BY <2>8, <2>9 DEF Listed!MakeImmediate
  <2>11. QED
    BY <2>10 DEF Listed!Next
<1>10. QED
  BY <1>2, <1>7, <1>8, <1>9 DEF Progress

\* Through its headers the shell's dictionary is a list of words that only grows
\* at its head: no step of a tame program or of the shell renames a word, changes
\* its kind, loses it, or makes an older one immediate.
THEOREM ShellListsWords == Spec /\ SessionsAreTame => ListsWords
<1>1. Init => DictInv
  BY InitDict
<1>2. DictInv /\ [Next]_shellVars /\ [Tame]_shellVars => DictInv'
  BY TameKeepsDict
<1>3. Init => Listed!Init
  BY ListedInit DEF Listed!Init
<1>4. DictInv /\ [Next]_shellVars /\ [Tame]_shellVars => [Listed!Next]_(ListedWords(mem))
  BY TameLists
<1>5. Spec /\ SessionsAreTame => Listed!Init /\ [][Listed!Next]_(ListedWords(mem))
  BY <1>1, <1>2, <1>3, <1>4, PTL DEF Spec, SessionsAreTame
<1>6. QED
  BY <1>5 DEF ListsWords, Listed!Spec
-----------------------------------------------------------------------------
(* The shell's own lines.                                                   *)
-----------------------------------------------------------------------------
(* The shell's own lines: which handler runs.                               *)

\* The opcodes of the shell's own lines, each the instruction with its handler.
LEMMA OneHandler ==
    ASSUME Instruction, flags = {}, pc \in DOMAIN mem
    PROVE  /\ mem[pc] = Op.PUSH => vm_push
           /\ mem[pc] = Op.C_EXEC => vm_c_exec
           /\ mem[pc] = Op.RET => vm_ret
           /\ mem[pc] = Op.CALL => vm_call
           /\ mem[pc] = Op.LOAD => vm_load
           /\ mem[pc] = Op.PC => vm_pc
           /\ mem[pc] = Op.ADD => vm_add
<1>1. Load(pc) = mem[pc]
  BY DEF Load
<1>2. CASE vm_push \/ vm_c_exec \/ vm_ret \/ vm_call \/ vm_load \/ vm_pc \/ vm_add
  BY <1>1, <1>2 DEF vm_push, vm_c_exec, vm_ret, vm_call, vm_load, vm_pc, vm_add, Binary, Executing, Op
<1>3. CASE vm_none \/ vm_jmp \/ vm_sp \/ vm_sub \/ vm_mul
  BY <1>1, <1>3 DEF vm_none, vm_jmp, vm_sp, vm_sub, vm_mul, Binary, Executing, Op
<1>4. CASE vm_div \/ vm_mod \/ vm_and \/ vm_or \/ vm_xor \/ vm_less \/ vm_greater
  BY <1>1, <1>4 DEF vm_div, vm_mod, vm_and, vm_or, vm_xor, vm_less, vm_greater, Binary, Dividing, Executing, Op
<1>5. CASE vm_str \/ vm_it \/ vm_drop \/ vm_rdrop \/ vm_swap
  BY <1>1, <1>5 DEF vm_str, vm_it, vm_drop, vm_rdrop, vm_swap, Executing, Op
<1>6. CASE vm_rpush \/ vm_rpop \/ vm_quit
  BY <1>1, <1>6 DEF vm_rpush, vm_rpop, vm_quit, Executing, Op
<1>7. CASE BadFetch
  <2>1. Load(pc) \notin Implemented
    BY <1>7 DEF BadFetch
  <2>2. \A f \in {"PUSH", "C_EXEC", "RET", "CALL", "LOAD", "PC", "ADD"} :
           f \in DOMAIN Op \ {"RSP", "LOADBYTE", "STRBYTE", "BYE"}
    BY DEF Op
  <2>3. \A f \in {"PUSH", "C_EXEC", "RET", "CALL", "LOAD", "PC", "ADD"} : Op[f] \in Implemented
    BY <2>2 DEF Implemented
  <2>4. /\ Op.PUSH \in Implemented /\ Op.C_EXEC \in Implemented /\ Op.RET \in Implemented
        /\ Op.CALL \in Implemented /\ Op.LOAD \in Implemented /\ Op.PC \in Implemented
        /\ Op.ADD \in Implemented
    BY <2>3
  <2>5. QED
    BY <1>1, <2>1, <2>4
<1>8. QED
  BY <1>2, <1>3, <1>4, <1>5, <1>6, <1>7 DEF Instruction

\* A C function is called by C_EXEC, with its address on the stack.
LEMMA CallsNeed ==
    ASSUME NEW f \in DOMAIN Fn, Calls(f)
    PROVE  Executing(Op.C_EXEC) /\ TOS = Fn[f]
  BY DEF Calls, NativeCall

OtherFns == DOMAIN Fn \ {"dot_quote_immediate", "dot_quote_post", "output"}

LEMMA OthersDiffer ==
    \A f \in OtherFns : Fn[f] \notin {Fn.dot_quote_immediate, Fn.dot_quote_post, Fn.output}
  BY DEF OtherFns, Fn

LEMMA ArithmeticCalls ==
    ASSUME ArithmeticWord
    PROVE  \E f \in OtherFns : Calls(f)
<1>1. {"invert", "negate", "abs", "max", "min", "equal", "rshift", "lshift", "dup_if_no_zero",
       "drop", "swap"} \subseteq OtherFns
  BY DEF OtherFns, Fn
<1>2. CASE invert_handler \/ negate_handler \/ abs_handler \/ max_handler \/ min_handler
  BY <1>1, <1>2 DEF invert_handler, negate_handler, abs_handler, max_handler, min_handler, Unary, Pair
<1>3. CASE equal_handler \/ rshift_handler \/ lshift_handler
  BY <1>1, <1>3 DEF equal_handler, rshift_handler, lshift_handler, Shift, Pair
<1>4. CASE dup_if_no_zero_handler \/ drop_handler \/ forth_swap_handler
  BY <1>1, <1>4 DEF dup_if_no_zero_handler, drop_handler, forth_swap_handler
<1>5. QED
  BY <1>2, <1>3, <1>4 DEF ArithmeticWord

LEMMA CompilingCalls ==
    ASSUME CompilingWord
    PROVE  \E f \in OtherFns : Calls(f)
<1>1. {"postpone", "literal", "left_bracket", "immediate", "exit", "recurse", "paren", "tick",
       "bracket_tick", "execute", "allot", "variable", "constant", "constant_post", "colon",
       "semicolon"} \subseteq OtherFns
  BY DEF OtherFns, Fn
<1>2. CASE postpone_handler \/ literal_handler \/ left_bracket_handler \/ immediate_handler \/ exit_handler
  BY <1>1, <1>2 DEF postpone_handler, literal_handler, left_bracket_handler, immediate_handler, exit_handler
<1>3. CASE recurse_handler \/ paren_immediate_handler \/ tick_handler \/ bracket_tick_handler
  BY <1>1, <1>3 DEF recurse_handler, paren_immediate_handler, tick_handler, bracket_tick_handler
<1>4. CASE execute_handler \/ allot_handler \/ variable_handler \/ constant_handler
  BY <1>1, <1>4 DEF execute_handler, allot_handler, variable_handler, constant_handler
<1>5. CASE constant_post_handler \/ forth_colon_handler \/ forth_semicolon_handler
  BY <1>1, <1>5 DEF constant_post_handler, forth_colon_handler, forth_semicolon_handler
<1>6. QED
  BY <1>2, <1>3, <1>4, <1>5 DEF CompilingWord

LEMMA ControlCalls ==
    ASSUME ControlWord
    PROVE  \E f \in OtherFns : Calls(f)
<1>1. {"if_immediate", "else_immediate", "then_immediate", "do_immediate", "loop_immediate",
       "leave_immediate", "unloop_immediate", "do", "loop", "leave", "unloop"} \subseteq OtherFns
  BY DEF OtherFns, Fn
<1>2. CASE forth_if_immediate_handler \/ forth_else_immediate_handler \/ forth_then_immediate_handler
  BY <1>1, <1>2 DEF forth_if_immediate_handler, forth_else_immediate_handler, forth_then_immediate_handler
<1>3. CASE forth_do_immediate_handler \/ forth_loop_immediate_handler \/ forth_leave_immediate_handler
           \/ forth_unloop_immediate_handler
  BY <1>1, <1>3 DEF forth_do_immediate_handler, forth_loop_immediate_handler, forth_leave_immediate_handler,
                    forth_unloop_immediate_handler
<1>4. CASE forth_do_handler \/ forth_loop_handler \/ forth_leave_handler \/ forth_unloop_handler
  BY <1>1, <1>4 DEF forth_do_handler, forth_loop_handler, forth_leave_handler, forth_unloop_handler
<1>5. QED
  BY <1>2, <1>3, <1>4 DEF ControlWord

LEMMA PrintingCalls ==
    ASSUME PrintingWord
    PROVE  forth_output_data \/ \E f \in OtherFns : Calls(f)
<1>1. {"emit", "cr", "dot", "words", "key", "custom"} \subseteq OtherFns
  BY DEF OtherFns, Fn
<1>2. CASE forth_emit \/ cr_handler \/ forth_dot_handler
  BY <1>1, <1>2 DEF forth_emit, cr_handler, forth_dot_handler
<1>3. CASE words_handler \/ forth_key \/ custom_function
  BY <1>1, <1>3 DEF words_handler, forth_key, custom_function
<1>4. QED
  BY <1>2, <1>3 DEF PrintingWord

\* The C functions of the shell's own lines.
LEMMA OneNative ==
    ASSUME Native
    PROVE  /\ Executing(Op.C_EXEC)
           /\ TOS = Fn.dot_quote_immediate => dot_quote_immediate_handler /\ WordsUnchanged
           /\ TOS = Fn.dot_quote_post => forth_dot_quote_post_handler /\ WordsUnchanged
           /\ TOS = Fn.output => forth_output_data /\ UNCHANGED <<strbuf, brackets>>
<1>1. /\ "dot_quote_immediate" \in DOMAIN Fn /\ "dot_quote_post" \in DOMAIN Fn /\ "output" \in DOMAIN Fn
      /\ "right_bracket" \in OtherFns /\ OtherFns \subseteq DOMAIN Fn
  BY DEF OtherFns, Fn
<1>2. /\ Fn.dot_quote_immediate # Fn.dot_quote_post /\ Fn.dot_quote_immediate # Fn.output
      /\ Fn.dot_quote_post # Fn.output
  BY DEF Fn
<1>3. CASE \E f \in OtherFns : Calls(f)
  BY <1>1, <1>3, OthersDiffer, CallsNeed
<1>4. CASE dot_quote_immediate_handler /\ WordsUnchanged
  <2>1. Calls("dot_quote_immediate")
    BY <1>4 DEF dot_quote_immediate_handler
  <2>2. QED
    BY <1>1, <1>2, <1>4, <2>1, CallsNeed
<1>5. CASE forth_dot_quote_post_handler /\ WordsUnchanged
  <2>1. Calls("dot_quote_post")
    BY <1>5 DEF forth_dot_quote_post_handler
  <2>2. QED
    BY <1>1, <1>2, <1>5, <2>1, CallsNeed
<1>6. CASE forth_output_data /\ UNCHANGED <<strbuf, brackets>>
  <2>1. Calls("output")
    BY <1>6 DEF forth_output_data
  <2>2. QED
    BY <1>1, <1>2, <1>6, <2>1, CallsNeed
<1>7. CASE right_bracket_handler
  <2>1. Calls("right_bracket")
    BY <1>7 DEF right_bracket_handler
  <2>2. QED
    BY <1>1, <1>3, <2>1
<1>8. CASE SilentWord
  BY <1>3, <1>4, <1>5, <1>8, ArithmeticCalls, CompilingCalls, ControlCalls DEF SilentWord
<1>9. CASE PrintingWord
  BY <1>3, <1>6, <1>9, PrintingCalls DEF PrintingWord
<1>10. QED
  BY <1>7, <1>8, <1>9 DEF Native

-----------------------------------------------------------------------------
(* One instruction of the shell's own lines.                                *)

\* Nothing but the machine changes.
Others == WordsUnchanged /\ UNCHANGED <<job, at, err, typed, kept>>
Dies == Undefined /\ Others
Goes(b, s, r, m) ==
    /\ status' = "running" /\ flags' = {} /\ pc' = b
    /\ sp' = s /\ rsp' = r /\ mem' = m

LEMMA RunningStep ==
    ASSUME [Next]_shellVars, status = "running", flags = {}
    PROVE  \/ UNCHANGED shellVars
           \/ Instruction /\ Others
           \/ Native /\ UNCHANGED <<job, at, err, typed, kept>>
<1>1. ~HostIdle
  BY DEF HostIdle
<1>2. ~Leave /\ ~right_bracket_returns /\ ~Over
  BY <1>1 DEF Leave, right_bracket_returns, Over
<1>3. ~forth_compile /\ ~ImmediateReturns /\ ~EndOfLine
  BY <1>1 DEF forth_compile, Compiling, ImmediateReturns, EndOfLine
<1>4. ~Process
  BY <1>1 DEF Process, PromptUser, ReadLine, LineCompiled, ReportCompiled, LineRejected,
              PromptPrinted, LineRan, ReportPrinted, BannerPrinted
<1>5. QED
  BY <1>2, <1>3, <1>4 DEF Next, Running, VMStep, NativeStep, CompileLine, Others

PlainOps == {Op.PUSH, Op.RET, Op.CALL, Op.LOAD, Op.PC, Op.ADD}

LEMMA PlainStep ==
    ASSUME RegistersOK, [Next]_shellVars, NEW a \in Memory, Runs(a), mem[a] \in PlainOps
    PROVE  UNCHANGED shellVars \/ (Instruction /\ Others)
<1>1. Load(pc) # Op.C_EXEC
  <2>1. Load(pc) = mem[a]
    BY DEF Runs, RegistersOK, Load
  <2>2. Op.C_EXEC \notin PlainOps
    BY DEF PlainOps, Op
  <2>3. QED
    BY <2>1, <2>2
<1>2. ~Native
  BY <1>1, OneNative DEF Executing
<1>3. QED
  BY <1>2, RunningStep DEF Runs

LEMMA PushStep ==
    ASSUME RegistersOK, [Next]_shellVars, NEW a \in Memory, Runs(a), mem[a] = Op.PUSH,
           a + 1 \in Memory, a + 2 \in Word
    PROVE  \/ UNCHANGED shellVars
           \/ Dies
           \/ Others /\ sp - 1 \in Stack /\ Goes(a + 2, sp - 1, rsp, [mem EXCEPT ![sp - 1] = mem[a + 1]])
<1>1. UNCHANGED shellVars \/ (Instruction /\ Others)
  BY PlainStep DEF PlainOps
<1>2. ASSUME Instruction, Others
      PROVE  vm_push
  BY <1>2, OneHandler DEF Runs, RegistersOK
<1>3. Load(a + 1) = mem[a + 1]
  BY DEF RegistersOK, Load
<1>4. (a + 2) % Modulus = a + 2
  BY ModulusIs DEF Word
<1>5. ~Full => sp - 1 \in Stack
  BY LayoutAssumption DEF RegistersOK, Full, Stack
<1>6. QED
  BY <1>1, <1>2, <1>3, <1>4, <1>5 DEF vm_push, Push, Goto, Dies, Goes, Runs

LEMMA PcStep ==
    ASSUME RegistersOK, [Next]_shellVars, NEW a \in Memory, Runs(a), mem[a] = Op.PC, a + 1 \in Word
    PROVE  \/ UNCHANGED shellVars
           \/ Dies
           \/ Others /\ sp - 1 \in Stack /\ Goes(a + 1, sp - 1, rsp, [mem EXCEPT ![sp - 1] = RegPC])
<1>1. UNCHANGED shellVars \/ (Instruction /\ Others)
  BY PlainStep DEF PlainOps
<1>2. ASSUME Instruction, Others
      PROVE  vm_pc
  BY <1>2, OneHandler DEF Runs, RegistersOK
<1>3. (a + 1) % Modulus = a + 1
  BY ModulusIs DEF Word
<1>4. ~Full => sp - 1 \in Stack
  BY LayoutAssumption DEF RegistersOK, Full, Stack
<1>5. QED
  BY <1>1, <1>2, <1>3, <1>4 DEF vm_pc, Push, Goto, Dies, Goes, Runs

LEMMA LoadStep ==
    ASSUME RegistersOK, [Next]_shellVars, NEW a \in Memory, Runs(a), mem[a] = Op.LOAD, a + 1 \in Word,
           Holds(1), TOS = RegPC
    PROVE  \/ UNCHANGED shellVars
           \/ Others /\ Goes(a + 1, sp, rsp, [mem EXCEPT ![sp] = a])
<1>1. UNCHANGED shellVars \/ (Instruction /\ Others)
  BY PlainStep DEF PlainOps
<1>2. ASSUME Instruction, Others
      PROVE  vm_load
  BY <1>2, OneHandler DEF Runs, RegistersOK
<1>3. (a + 1) % Modulus = a + 1
  BY ModulusIs DEF Word
<1>4. Load(TOS) = a /\ Readable(TOS)
  BY LayoutAssumption DEF RegistersOK, Load, Readable, Runs
<1>5. ~Underflow(1)
  BY LayoutAssumption DEF Underflow, Holds, RegistersOK
<1>6. QED
  BY <1>1, <1>2, <1>3, <1>4, <1>5 DEF vm_load, Goto, Goes, Runs

LEMMA AddStep ==
    ASSUME RegistersOK, [Next]_shellVars, NEW a \in Memory, Runs(a), mem[a] = Op.ADD, a + 1 \in Word,
           Holds(2)
    PROVE  \/ UNCHANGED shellVars
           \/ Others /\ Goes(a + 1, sp + 1, rsp, [mem EXCEPT ![sp + 1] = (NOS + TOS) % Modulus])
<1>1. UNCHANGED shellVars \/ (Instruction /\ Others)
  BY PlainStep DEF PlainOps
<1>2. ASSUME Instruction, Others
      PROVE  vm_add
  BY <1>2, OneHandler DEF Runs, RegistersOK
<1>3. (a + 1) % Modulus = a + 1
  BY ModulusIs DEF Word
<1>5. ~Underflow(2)
  BY LayoutAssumption DEF Underflow, Holds, RegistersOK
<1>6. QED
  BY <1>1, <1>2, <1>3, <1>5 DEF vm_add, Binary, Goto, Goes, Runs

LEMMA CallStep ==
    ASSUME RegistersOK, [Next]_shellVars, NEW a \in Memory, Runs(a), mem[a] = Op.CALL,
           Holds(1), TOS \in Word, rsp = RStackTop
    PROVE  \/ UNCHANGED shellVars
           \/ /\ Others /\ rsp - 1 \in RStack
              /\ Goes(TOS, sp + 1, rsp - 1, [mem EXCEPT ![rsp - 1] = a])
<1>1. UNCHANGED shellVars \/ (Instruction /\ Others)
  BY PlainStep DEF PlainOps
<1>2. ASSUME Instruction, Others
      PROVE  vm_call
  BY <1>2, OneHandler DEF Runs, RegistersOK
<1>3. TOS % Modulus = TOS
  BY ModulusIs DEF Word
<1>4. rsp - 1 \in RStack /\ ~RFull
  BY LayoutAssumption DEF RStack, RFull
<1>5. ~Underflow(1)
  BY LayoutAssumption DEF Underflow, Holds, RegistersOK
<1>6. QED
  BY <1>1, <1>2, <1>3, <1>4, <1>5 DEF vm_call, Goto, Goes, Runs

LEMMA RetStep ==
    ASSUME RegistersOK, [Next]_shellVars, NEW a \in Memory, Runs(a), mem[a] = Op.RET
    PROVE  /\ rsp = RStackTop =>
                 \/ UNCHANGED shellVars
                 \/ Others /\ Stopping' /\ UNCHANGED <<mem, sp, rsp>>
           /\ \A b \in Word : rsp < RStackTop /\ mem[rsp] = b /\ b + 1 \in Word =>
                 \/ UNCHANGED shellVars
                 \/ Others /\ Goes(b + 1, sp, rsp + 1, mem)
<1>1. UNCHANGED shellVars \/ (Instruction /\ Others)
  BY PlainStep DEF PlainOps
<1>2. ASSUME Instruction, Others
      PROVE  vm_ret
  BY <1>2, OneHandler DEF Runs, RegistersOK
<1>3. \A b \in Word : b + 1 \in Word => (b + 1) % Modulus = b + 1
  BY ModulusIs DEF Word
<1>4. RStackTop \in Int /\ rsp \in Int
  BY LayoutAssumption DEF RegistersOK
<1>5. CASE rsp = RStackTop
  BY <1>1, <1>2, <1>4, <1>5 DEF vm_ret, Raise, Stopping, Runs
<1>6. ASSUME NEW b \in Word, rsp < RStackTop, mem[rsp] = b, b + 1 \in Word
      PROVE  UNCHANGED shellVars \/ (Others /\ Goes(b + 1, sp, rsp + 1, mem))
  BY <1>1, <1>2, <1>3, <1>4, <1>6 DEF vm_ret, Goto, Goes, Runs
<1>7. QED
  BY <1>5, <1>6, <1>4

\* A C function is entered: C_EXEC itself neither fails nor stops.
LEMMA ExecStep ==
    ASSUME RegistersOK, [Next]_shellVars, NEW a \in Memory, Runs(a), mem[a] = Op.C_EXEC,
           Holds(1), TOS \in Functions
    PROVE  UNCHANGED shellVars \/ (Native /\ UNCHANGED <<job, at, err, typed, kept>>)
<1>1. TOS \in Natives /\ TOS # 0
  BY OwnLinesAssumption DEF Functions, Fn
<1>2. ~Underflow(1)
  BY LayoutAssumption DEF Underflow, Holds, RegistersOK
<1>3. ASSUME Instruction
      PROVE  FALSE
  <2>1. vm_c_exec
    BY <1>3, OneHandler DEF Runs, RegistersOK
  <2>2. QED
    BY <1>1, <1>2, <2>1 DEF vm_c_exec
<1>4. QED
  BY <1>3, RunningStep DEF Runs

\* The step over the text.
LEMMA PostStep ==
    ASSUME RegistersOK, [Next]_shellVars, NEW a \in Memory, Runs(a), mem[a] = Op.C_EXEC, a + 2 \in Word,
           Holds(2), TOS = Fn.dot_quote_post, NOS = 1
    PROVE  \/ UNCHANGED shellVars
           \/ Others /\ Goes(a + 2, sp + 2, rsp, mem)
<1>1. Holds(1) /\ TOS \in Functions
  BY LayoutAssumption DEF Holds, RegistersOK, Functions, Fn
<1>2. UNCHANGED shellVars \/ (Native /\ UNCHANGED <<job, at, err, typed, kept>>)
  BY <1>1, ExecStep
<1>3. Top = sp + 1 /\ Has(1) /\ Arg(0) = 1
  BY LayoutAssumption DEF Holds, RegistersOK, Top, Has, Arg, NOS
<1>4. pc + Arg(0) + 1 = a + 2 /\ (a + 2) % Modulus = a + 2 /\ Top + 1 = sp + 2
  BY <1>3, ModulusIs, LayoutAssumption DEF Runs, Word, RegistersOK
<1>5. ASSUME Native
      PROVE  forth_dot_quote_post_handler /\ WordsUnchanged
  BY <1>5, OneNative
<1>6. QED
  BY <1>2, <1>3, <1>4, <1>5 DEF forth_dot_quote_post_handler, Goto, Goes, Others, Runs

LEMMA OneIsOne == AsInt(1) = 1
<1>1. 1 % IntModulus = 1 /\ ~(2 * 1 >= IntModulus)
  BY OwnLinesAssumption, ModulusAssumption
<1>2. QED
  BY <1>1 DEF AsInt

\* One cell is sent to the terminal.
LEMMA OutputStep ==
    ASSUME RegistersOK, [Next]_shellVars, NEW a \in Memory, Runs(a), mem[a] = Op.C_EXEC, a + 1 \in Word,
           Holds(3), TOS = Fn.output, mem[sp + 2] = 1, NEW b \in Memory, NOS = b, b \in Int,
           NEW S, screen \in Seq(S)
    PROVE  \/ UNCHANGED shellVars
           \/ /\ UNCHANGED <<job, at, err, typed, kept, strbuf, brackets>>
              /\ Goes(a + 1, sp + 3, rsp, mem)
              /\ Len(screen') = Len(screen) + 1 /\ screen'[Len(screen) + 1][2] = mem[b]
<1>1. Holds(1) /\ TOS \in Functions
  BY LayoutAssumption DEF Holds, RegistersOK, Functions, Fn
<1>2. UNCHANGED shellVars \/ (Native /\ UNCHANGED <<job, at, err, typed, kept>>)
  BY <1>1, ExecStep
<1>3. Top = sp + 1 /\ Has(2) /\ Arg(0) = b /\ Arg(1) = 1 /\ Top + 2 = sp + 3
  BY LayoutAssumption DEF Holds, RegistersOK, Top, Has, Arg, NOS
<1>4. (a + 1) % Modulus = a + 1 /\ pc = a
  BY ModulusIs DEF Runs, Word
<1>5. ASSUME Native
      PROVE  forth_output_data /\ UNCHANGED <<strbuf, brackets>>
  BY <1>5, OneNative
<1> DEFINE items == [i \in 1 .. AsInt(Arg(1)) |-> Arg(0) + i - 1]
           shown == [i \in DOMAIN items |-> <<"text", Load(items[i])>>]
<1>6. DOMAIN items = 1 .. 1 /\ items[1] = b
  BY <1>3, OneIsOne
<1>7. \A i \in DOMAIN items : Readable(items[i])
  BY <1>6 DEF Readable, RegistersOK
<1>8. shown = <<<<"text", mem[b]>>>>
  <2>1. Load(items[1]) = mem[b]
    BY <1>6 DEF Load, RegistersOK
  <2> HIDE DEF items
  <2>2. shown = [i \in 1 .. 1 |-> <<"text", mem[b]>>]
    BY <1>6, <2>1
  <2>3. QED
    BY <2>2
<1>9. ASSUME Native
      PROVE  Returns(mem, sp + 3) /\ screen' = screen \o shown
  BY <1>3, <1>5, <1>7, <1>9 DEF forth_output_data, PrintsIf, Prints
<1> HIDE DEF shown
<1>10. /\ Len(screen \o shown) = Len(screen) + 1
       /\ (screen \o shown)[Len(screen) + 1] = <<"text", mem[b]>>
  <2>1. shown \in Seq({<<"text", mem[b]>>}) /\ Len(shown) = 1 /\ shown[1] = <<"text", mem[b]>>
    BY <1>8
  <2> HIDE DEF shown
  <2> DEFINE T == S \cup {<<"text", mem[b]>>}
  <2>2. screen \in Seq(T) /\ shown \in Seq(T)
    BY <2>1
  <2>3. Len(screen) \in Nat
    OBVIOUS
  <2> HIDE DEF T
  <2>4. /\ Len(screen \o shown) = Len(screen) + Len(shown)
        /\ \A i \in 1 .. (Len(screen) + Len(shown)) :
              (screen \o shown)[i] = IF i <= Len(screen) THEN screen[i] ELSE shown[i - Len(screen)]
    BY <2>2, ConcatProperties
  <2>5. Len(screen) + 1 \in 1 .. (Len(screen) + Len(shown)) /\ ~(Len(screen) + 1 <= Len(screen))
        /\ (Len(screen) + 1) - Len(screen) = 1
    BY <2>1, <2>3
  <2>6. QED
    BY <2>1, <2>4, <2>5
<1>11. QED
  BY <1>2, <1>4, <1>5, <1>9, <1>10 DEF Returns, Goto, Goes, Runs

\* ." takes the text behind it and, interpreting, compiles it into the sandbox.
LEMMA DotQuoteStep ==
    ASSUME RegistersOK, [Next]_shellVars, NEW a \in Memory, Runs(a), mem[a] = Op.C_EXEC, a + 1 \in Word,
           Holds(1), TOS = Fn.dot_quote_immediate
    PROVE  LET k == mem[in_ptr] + 1
               ws == <<Op.PUSH, 1, Op.PUSH, 1, Op.PC, Op.LOAD, Op.PUSH, 10, Op.ADD,
                       Op.PUSH, output_text, Op.CALL, Op.PUSH, Fn.dot_quote_post,
                       Op.C_EXEC, Name[strbuf[k]]>>
           IN  \/ UNCHANGED shellVars
               \/ Dies
               \/ /\ Others /\ k \in DOMAIN strbuf
                  /\ Fits([mem EXCEPT ![in_ptr] = k], TextCopyPtr, 16)
                  /\ Goes(a + 1, sp + 1, rsp, Appended([mem EXCEPT ![in_ptr] = k], TextCopyPtr, ws))
<1>1. TOS \in Functions
  BY DEF Functions, Fn
<1>2. UNCHANGED shellVars \/ (Native /\ UNCHANGED <<job, at, err, typed, kept>>)
  BY <1>1, ExecStep
<1>3. (a + 1) % Modulus = a + 1 /\ pc = a
  BY ModulusIs DEF Runs, Word
<1>4. ASSUME Native
      PROVE  dot_quote_immediate_handler /\ WordsUnchanged
  BY <1>4, OneNative
<1> DEFINE k == mem[in_ptr] + 1
           ws == <<Op.PUSH, 1, Op.PUSH, 1, Op.PC, Op.LOAD, Op.PUSH, 10, Op.ADD,
                   Op.PUSH, output_text, Op.CALL, Op.PUSH, Fn.dot_quote_post,
                   Op.C_EXEC, Name[strbuf[k]]>>
<1>5. Len(ws) = 16
  OBVIOUS
<1>6. ASSUME Native
      PROVE  \/ Undefined
             \/ k \in DOMAIN strbuf /\ Compiles([mem EXCEPT ![in_ptr] = k], TextCopyPtr, ws, Top)
  BY <1>4, <1>6 DEF dot_quote_immediate_handler
<1> HIDE DEF ws, k
<1>7. ASSUME Compiles([mem EXCEPT ![in_ptr] = k], TextCopyPtr, ws, Top)
      PROVE  \/ Undefined
             \/ /\ Fits([mem EXCEPT ![in_ptr] = k], TextCopyPtr, 16)
                /\ Goes(a + 1, sp + 1, rsp, Appended([mem EXCEPT ![in_ptr] = k], TextCopyPtr, ws))
  BY <1>3, <1>5, <1>7 DEF Compiles, Returns, Goto, Goes, Top, Runs
<1>8. UNCHANGED shellVars \/ Dies
         \/ /\ Others /\ k \in DOMAIN strbuf
            /\ Fits([mem EXCEPT ![in_ptr] = k], TextCopyPtr, 16)
            /\ Goes(a + 1, sp + 1, rsp, Appended([mem EXCEPT ![in_ptr] = k], TextCopyPtr, ws))
  BY <1>2, <1>4, <1>6, <1>7 DEF Dies, Others
<1>9. QED
  BY <1>8 DEF k, ws
-----------------------------------------------------------------------------
(* What a step of the machine leaves as it is.                              *)

\* The RAM, the compiled-in words and the user's stack.
Steady ==
    \A b \in Memory : b \in Ram \/ b \in DOMAIN Rom \/ (b \in Stack /\ b >= Base) => mem'[b] = mem[b]

Words == /\ mem'[state_ptr] = mem[state_ptr]
         /\ Interprets => \A b \in Ram : b >= DictBase /\ b \notin {in_ptr, sandbox_ptr} => mem'[b] = mem[b]

Framed ==
    /\ OwnSetting' /\ Base' = Base /\ OwnText' = OwnText /\ (Interprets' <=> Interprets)
    /\ UNCHANGED <<job, kept, strbuf, typed, at, err>>
    /\ Words /\ (StateKnown' <=> StateKnown) /\ mem'[in_ptr] = mem[in_ptr]
    /\ Closed => Closed'
    /\ Laid => Laid'
    /\ Empty => Empty'

LEMMA BaseIs ==
    ASSUME UserKept
    PROVE  /\ Base \in Int /\ StackLo <= Base /\ Base <= StackTop /\ StackTop - Base = Len(kept.stack)
           /\ Len(kept.stack) \in Nat
           /\ \A i \in 1 .. Len(kept.stack) : Base + i - 1 \in Stack /\ Base + i - 1 >= Base
           /\ \A b \in Int : sp \in StackLo .. StackTop /\ b >= sp /\ b < Base => b \in Stack /\ b \in Memory
<1>1. Len(kept.stack) \in Nat
  BY DEF UserKept
<1>2. /\ Base \in Int /\ StackLo <= Base /\ Base <= StackTop /\ StackTop - Base = Len(kept.stack)
      /\ StackLo \in Int /\ StackTop \in Int
  BY <1>1, LayoutAssumption DEF UserKept, Base
<1> HIDE DEF Base
<1>3. \A i \in 1 .. Len(kept.stack) : Base + i - 1 \in Stack /\ Base + i - 1 >= Base
  BY <1>1, <1>2 DEF Stack
<1>4. \A b \in Int : sp \in StackLo .. StackTop /\ b >= sp /\ b < Base => b \in Stack
  BY <1>2 DEF Stack
<1>5. Stack \subseteq Memory
  BY DEF Memory, Cells
<1>6. QED
  BY <1>1, <1>2, <1>3, <1>4, <1>5

LEMMA SandboxCells ==
    \A i \in Nat : SandboxBase + i < DictBase => SandboxBase + i \in Ram /\ SandboxBase + i \in Memory
                                                 /\ SandboxBase + i \in Word
<1>1. PICK last \in Word : Ram = SandboxBase .. last
  BY SystemAssumption
<1>2. DictBase \in Ram
  BY PlacesAreCells, SystemAssumption, BasesAreWords DEF LastSystemCell, Word
<1>3. Ram \subseteq Word /\ Ram \subseteq Memory
  BY LayoutAssumption DEF Memory, Cells
<1>4. \A i \in Nat : SandboxBase + i < DictBase => SandboxBase + i \in Ram
  BY <1>1, <1>2, BasesAreWords, ModulusIs DEF Word
<1>5. QED
  BY <1>3, <1>4

LEMMA OwnPlaces ==
    /\ state_ptr \in Ram /\ in_ptr \in Ram /\ sandbox_ptr \in Ram /\ Ram \subseteq Memory
    /\ state_ptr # in_ptr /\ state_ptr # sandbox_ptr /\ in_ptr # sandbox_ptr
    /\ DictBase <= state_ptr /\ DictBase \in Int
<1>1. state_ptr \in Ram /\ in_ptr \in Ram /\ sandbox_ptr \in Ram
  BY PlacesAreCells DEF Places
<1>2. QED
  BY <1>1, PlacesDiffer, DictAssumption DEF Memory, Cells, state_ptr

LEMMA KeptText ==
    ASSUME \A i \in 0 .. 15 : mem'[SandboxBase + i] = mem[SandboxBase + i], UNCHANGED strbuf, TextLaid
    PROVE  TextLaid'
<1>1. SandboxBase + 0 = SandboxBase
  BY BasesAreWords, ModulusIs DEF Word
<1>2. /\ mem'[SandboxBase] = mem[SandboxBase] /\ mem'[SandboxBase + 1] = mem[SandboxBase + 1]
      /\ mem'[SandboxBase + 2] = mem[SandboxBase + 2] /\ mem'[SandboxBase + 3] = mem[SandboxBase + 3]
      /\ mem'[SandboxBase + 4] = mem[SandboxBase + 4] /\ mem'[SandboxBase + 5] = mem[SandboxBase + 5]
      /\ mem'[SandboxBase + 6] = mem[SandboxBase + 6] /\ mem'[SandboxBase + 7] = mem[SandboxBase + 7]
      /\ mem'[SandboxBase + 8] = mem[SandboxBase + 8] /\ mem'[SandboxBase + 9] = mem[SandboxBase + 9]
      /\ mem'[SandboxBase + 10] = mem[SandboxBase + 10] /\ mem'[SandboxBase + 11] = mem[SandboxBase + 11]
      /\ mem'[SandboxBase + 12] = mem[SandboxBase + 12] /\ mem'[SandboxBase + 13] = mem[SandboxBase + 13]
      /\ mem'[SandboxBase + 14] = mem[SandboxBase + 14] /\ mem'[SandboxBase + 15] = mem[SandboxBase + 15]
  BY <1>1
<1>3. OwnText' = OwnText
  BY DEF OwnText
<1>4. QED
  BY <1>2, <1>3 DEF TextLaid, output_text

LEMMA SteadyText ==
    ASSUME Steady, UNCHANGED strbuf, SandboxBase + 15 < DictBase, TextLaid
    PROVE  TextLaid'
<1>1. \A i \in 0 .. 15 : mem'[SandboxBase + i] = mem[SandboxBase + i]
  <2> TAKE i \in 0 .. 15
  <2>1. SandboxBase + i < DictBase /\ i \in Nat
    BY BasesAreWords, ModulusIs DEF Word
  <2>2. SandboxBase + i \in Ram /\ SandboxBase + i \in Memory
    BY <2>1, SandboxCells
  <2>3. QED
    BY <2>2 DEF Steady
<1>2. QED
  BY <1>1, KeptText

LEMMA SteadyFramed ==
    ASSUME RegistersOK, OwnSetting, Steady, UNCHANGED <<job, kept, strbuf, typed, at, err, brackets>>
    PROVE  Framed
<1>1. \A b \in Ram : mem'[b] = mem[b]
  BY OwnPlaces DEF Steady
<1>2. mem'[state_ptr] = mem[state_ptr] /\ mem'[in_ptr] = mem[in_ptr] /\ mem'[sandbox_ptr] = mem[sandbox_ptr]
  BY <1>1, OwnPlaces
<1>3. Base' = Base /\ OwnText' = OwnText /\ (Interprets' <=> Interprets) /\ (StateKnown' <=> StateKnown)
  BY <1>2 DEF Base, OwnText, Interprets, StateKnown, state_ptr
<1>4. OwnLine'
  BY <1>3 DEF OwnSetting, OwnLine
<1>5. UserKept'
  <2>1. \A i \in 1 .. Len(kept.stack) : mem'[Base + i - 1] = mem[Base + i - 1]
    <3> TAKE i \in 1 .. Len(kept.stack)
    <3>1. Base + i - 1 \in Stack /\ Base + i - 1 >= Base
      BY BaseIs DEF OwnSetting
    <3>2. Base + i - 1 \in Memory
      BY <3>1 DEF Memory, Cells
    <3>3. QED
      BY <3>1, <3>2 DEF Steady
  <2>2. QED
    BY <1>3, <2>1 DEF OwnSetting, UserKept
<1>6. Words
  BY <1>1, <1>2 DEF Words
<1>7. Empty => Empty'
  BY <1>2 DEF Empty, sandbox_ptr
<1>8. Laid => Laid'
  BY <1>2, <1>3, <1>7, SteadyText DEF Laid, sandbox_ptr
<1>9. Closed => Closed'
  <2>1. SandboxBase < DictBase => mem'[SandboxBase] = mem[SandboxBase]
    <3>1. SandboxBase + 0 = SandboxBase
      BY BasesAreWords, ModulusIs DEF Word
    <3>2. QED
      BY <1>1, <3>1, SandboxCells
  <2>2. SandboxBase + 16 < DictBase => /\ mem'[SandboxBase + 16] = mem[SandboxBase + 16]
                                       /\ SandboxBase + 15 < DictBase
    BY <1>1, SandboxCells, BasesAreWords, ModulusIs DEF Word
  <2>3. QED
    BY <1>3, <2>1, <2>2, SteadyText DEF Closed
<1>10. QED
  BY <1>2, <1>3, <1>4, <1>5, <1>6, <1>7, <1>8, <1>9 DEF OwnSetting, Framed

\* A store under the user's stack, or on the return stack.
LEMMA StoredFramed ==
    ASSUME RegistersOK, OwnSetting, NEW x, (x \in Stack /\ x < Base) \/ x \in RStack, NEW v,
           mem' = [mem EXCEPT ![x] = v], UNCHANGED <<job, kept, strbuf, typed, at, err, brackets>>
    PROVE  /\ Framed /\ mem'[x] = v
           /\ \A b \in Int : b >= sp /\ b < Base /\ b # x => mem'[b] = mem[b]
<1>1. x \in Memory /\ x \notin Ram /\ x \notin DOMAIN Rom /\ mem'[x] = v
  BY LayoutAssumption DEF RegistersOK, Memory, Cells
<1>2. \A b \in Memory : b # x => mem'[b] = mem[b]
  BY DEF RegistersOK
<1>3. x \in Stack => ~(x >= Base)
  <2>1. Base \in Int
    BY BaseIs DEF OwnSetting
  <2>2. x \in Stack => x \in Int /\ x < Base
    BY LayoutAssumption DEF Stack, RStack
  <2>3. QED
    BY <2>1, <2>2
<1>4. Steady
  BY <1>1, <1>2, <1>3 DEF Steady
<1>5. \A b \in Int : b >= sp /\ b < Base => b \in Memory
  BY BaseIs DEF RegistersOK, OwnSetting
<1>6. QED
  BY <1>1, <1>2, <1>4, <1>5, SteadyFramed

LEMMA UnchangedFramed ==
    ASSUME RegistersOK, OwnSetting, UNCHANGED <<mem, job, kept, strbuf, typed, at, err, brackets>>
    PROVE  Framed
<1>1. Steady
  BY DEF Steady
<1>2. QED
  BY <1>1, SteadyFramed

-----------------------------------------------------------------------------
(* The points of the shell's own lines.                                     *)

\* A step within the line: the text may have been printed.
OwnStep ==
    /\ Speaking' /\ UNCHANGED <<job, kept, strbuf, typed>> /\ Words
    /\ screen' = screen \/ (Interprets /\ Silent /\ Spoken')

Outcome == UNCHANGED shellVars \/ Dies \/ OwnStep

\* On to b, with n cells on the user's stack.
Advances(b, n, r) ==
    /\ Framed /\ status' = "running" /\ flags' = {} /\ pc' = b
    /\ sp' = Base - n /\ rsp' = r
Quietly == screen' = screen
KeepsCells(n) == \A k \in 1 .. n : mem'[Base - k] = mem[Base - k]

LEMMA OwnStack ==
    ASSUME RegistersOK, OwnSetting
    PROVE  /\ Base \in Int /\ sp \in Int /\ Base <= StackTop /\ StackTop \in Int
           /\ sp < Base => sp \in Stack
           /\ sp + 1 < Base => sp + 1 \in Stack
           /\ sp < Base => Holds(1)
           /\ sp + 1 < Base => Holds(2)
           /\ sp + 2 < Base => Holds(3)
<1>1. /\ Base \in Int /\ Base <= StackTop /\ StackTop \in Int /\ sp \in StackLo .. StackTop
      /\ StackLo \in Int
  BY BaseIs, LayoutAssumption DEF OwnSetting, RegistersOK
<1> HIDE DEF Base
<1>2. QED
  BY <1>1 DEF Stack, Holds

LEMMA CellsUnder ==
    ASSUME RegistersOK, OwnSetting, NEW n \in Nat, sp <= Base - n
    PROVE  \A k \in 1 .. n : Base - k \in Int /\ Base - k >= sp /\ Base - k < Base
<1>1. Base \in Int /\ sp \in Int
  BY OwnStack
<1> HIDE DEF Base
<1>2. QED
  BY <1>1

LEMMA PushPoint ==
    ASSUME RegistersOK, [Next]_shellVars, OwnSetting, NEW a \in Memory, NEW b \in Word, NEW v, NEW n \in Nat,
           Runs(a), a + 1 \in Memory, b = a + 2, mem[a] = Op.PUSH, mem[a + 1] = v, sp = Base - n
    PROVE  \/ UNCHANGED shellVars \/ Dies
           \/ /\ Advances(b, n + 1, rsp) /\ Quietly /\ KeepsCells(n)
              /\ mem'[Base - (n + 1)] = v /\ \A c \in RStack : mem'[c] = mem[c]
<1>1. \/ UNCHANGED shellVars \/ Dies
      \/ Others /\ sp - 1 \in Stack /\ Goes(b, sp - 1, rsp, [mem EXCEPT ![sp - 1] = v])
  BY PushStep
<1>2. ASSUME Others, sp - 1 \in Stack, Goes(b, sp - 1, rsp, [mem EXCEPT ![sp - 1] = v])
      PROVE  /\ Advances(b, n + 1, rsp) /\ Quietly /\ KeepsCells(n) /\ mem'[Base - (n + 1)] = v
             /\ \A c \in RStack : mem'[c] = mem[c]
  <2>1. sp - 1 = Base - (n + 1) /\ sp - 1 < Base /\ sp <= Base - n /\ ~(sp - 1 >= sp)
    BY OwnStack
  <2>2. UNCHANGED <<job, kept, strbuf, typed, at, err, brackets, screen>>
    BY <1>2 DEF Others, WordsUnchanged, wordVars
  <2>3. /\ Framed /\ mem'[sp - 1] = v
        /\ \A c \in Int : c >= sp /\ c < Base /\ c # sp - 1 => mem'[c] = mem[c]
    BY <1>2, <2>1, <2>2, StoredFramed DEF Goes
  <2>4. KeepsCells(n)
    <3>1. \A k \in 1 .. n : Base - k \in Int /\ Base - k >= sp /\ Base - k < Base
      BY <2>1, CellsUnder
    <3>2. sp \in Int
      BY OwnStack
    <3>3. QED
      BY <2>1, <2>3, <3>1, <3>2 DEF KeepsCells
  <2>5. \A c \in RStack : mem'[c] = mem[c]
    BY <1>2, LayoutAssumption DEF Goes, RegistersOK, Memory, Cells
  <2>6. QED
    BY <1>2, <2>1, <2>2, <2>3, <2>4, <2>5 DEF Advances, Quietly, Goes
<1>3. QED
  BY <1>1, <1>2

LEMMA PcPoint ==
    ASSUME RegistersOK, [Next]_shellVars, OwnSetting, NEW a \in Memory, NEW b \in Word, NEW n \in Nat,
           Runs(a), b = a + 1, mem[a] = Op.PC, sp = Base - n
    PROVE  \/ UNCHANGED shellVars \/ Dies
           \/ /\ Advances(b, n + 1, rsp) /\ Quietly /\ KeepsCells(n)
              /\ mem'[Base - (n + 1)] = RegPC
<1>1. \/ UNCHANGED shellVars \/ Dies
      \/ Others /\ sp - 1 \in Stack /\ Goes(b, sp - 1, rsp, [mem EXCEPT ![sp - 1] = RegPC])
  BY PcStep
<1>2. ASSUME Others, sp - 1 \in Stack, Goes(b, sp - 1, rsp, [mem EXCEPT ![sp - 1] = RegPC])
      PROVE  Advances(b, n + 1, rsp) /\ Quietly /\ KeepsCells(n) /\ mem'[Base - (n + 1)] = RegPC
  <2>1. sp - 1 = Base - (n + 1) /\ sp - 1 < Base /\ sp <= Base - n /\ ~(sp - 1 >= sp)
    BY OwnStack
  <2>2. UNCHANGED <<job, kept, strbuf, typed, at, err, brackets, screen>>
    BY <1>2 DEF Others, WordsUnchanged, wordVars
  <2>3. /\ Framed /\ mem'[sp - 1] = RegPC
        /\ \A c \in Int : c >= sp /\ c < Base /\ c # sp - 1 => mem'[c] = mem[c]
    BY <1>2, <2>1, <2>2, StoredFramed DEF Goes
  <2>4. KeepsCells(n)
    <3>1. \A k \in 1 .. n : Base - k \in Int /\ Base - k >= sp /\ Base - k < Base
      BY <2>1, CellsUnder
    <3>2. sp \in Int
      BY OwnStack
    <3>3. QED
      BY <2>1, <2>3, <3>1, <3>2 DEF KeepsCells
  <2>5. QED
    BY <1>2, <2>1, <2>2, <2>3, <2>4 DEF Advances, Quietly, Goes
<1>3. QED
  BY <1>1, <1>2

LEMMA LoadPoint ==
    ASSUME RegistersOK, [Next]_shellVars, OwnSetting, NEW a \in Memory, NEW b \in Word, NEW n \in Nat,
           Runs(a), b = a + 1, mem[a] = Op.LOAD, sp = Base - (n + 1), mem[Base - (n + 1)] = RegPC
    PROVE  \/ UNCHANGED shellVars
           \/ /\ Advances(b, n + 1, rsp) /\ Quietly /\ KeepsCells(n)
              /\ mem'[Base - (n + 1)] = a
<1>1. sp \in Stack /\ sp < Base /\ Holds(1) /\ TOS = RegPC /\ sp <= Base - n
  <2>1. sp < Base /\ sp <= Base - n
    BY OwnStack
  <2>2. QED
    BY <2>1, OwnStack DEF TOS
<1>2. UNCHANGED shellVars \/ (Others /\ Goes(b, sp, rsp, [mem EXCEPT ![sp] = a]))
  BY <1>1, LoadStep
<1>3. ASSUME Others, Goes(b, sp, rsp, [mem EXCEPT ![sp] = a])
      PROVE  Advances(b, n + 1, rsp) /\ Quietly /\ KeepsCells(n) /\ mem'[Base - (n + 1)] = a
  <2>2. UNCHANGED <<job, kept, strbuf, typed, at, err, brackets, screen>>
    BY <1>3 DEF Others, WordsUnchanged, wordVars
  <2>3. /\ Framed /\ mem'[sp] = a
        /\ \A c \in Int : c >= sp /\ c < Base /\ c # sp => mem'[c] = mem[c]
    BY <1>1, <1>3, <2>2, StoredFramed DEF Goes
  <2>4. KeepsCells(n)
    <3>1. \A k \in 1 .. n : Base - k \in Int /\ Base - k >= sp /\ Base - k < Base
      BY <1>1, CellsUnder
    <3>2. \A k \in 1 .. n : Base - k # sp
      BY OwnStack
    <3>3. QED
      BY <2>3, <3>1, <3>2 DEF KeepsCells
  <2>5. QED
    BY <1>3, <2>2, <2>3, <2>4 DEF Advances, Quietly, Goes
<1>4. QED
  BY <1>2, <1>3

LEMMA AddPoint ==
    ASSUME RegistersOK, [Next]_shellVars, OwnSetting, NEW a \in Memory, NEW b \in Word, NEW n \in Nat,
           NEW x \in Nat, NEW y \in Nat, x + y \in Word,
           Runs(a), b = a + 1, mem[a] = Op.ADD, sp = Base - (n + 2),
           mem[Base - (n + 2)] = y, mem[Base - (n + 1)] = x
    PROVE  \/ UNCHANGED shellVars
           \/ /\ Advances(b, n + 1, rsp) /\ Quietly /\ KeepsCells(n)
              /\ mem'[Base - (n + 1)] = x + y
<1>1. sp + 1 = Base - (n + 1) /\ sp \in Stack /\ sp + 1 < Base /\ Holds(2) /\ TOS = y /\ NOS = x /\ sp + 1 \in Stack
  <2>1. sp + 1 = Base - (n + 1) /\ sp < Base /\ sp + 1 < Base
    BY OwnStack
  <2>2. sp \in Stack /\ sp + 1 \in Stack /\ Holds(2)
    BY <2>1, OwnStack
  <2>3. QED
    BY <2>1, <2>2 DEF TOS, NOS
<1>2. (NOS + TOS) % Modulus = x + y
  BY <1>1, ModulusIs DEF Word
<1>3. UNCHANGED shellVars \/ (Others /\ Goes(b, sp + 1, rsp, [mem EXCEPT ![sp + 1] = x + y]))
  BY <1>1, <1>2, AddStep
<1>4. ASSUME Others, Goes(b, sp + 1, rsp, [mem EXCEPT ![sp + 1] = x + y])
      PROVE  Advances(b, n + 1, rsp) /\ Quietly /\ KeepsCells(n) /\ mem'[Base - (n + 1)] = x + y
  <2>2. UNCHANGED <<job, kept, strbuf, typed, at, err, brackets, screen>>
    BY <1>4 DEF Others, WordsUnchanged, wordVars
  <2>3. /\ Framed /\ mem'[sp + 1] = x + y
        /\ \A c \in Int : c >= sp /\ c < Base /\ c # sp + 1 => mem'[c] = mem[c]
    BY <1>1, <1>4, <2>2, StoredFramed DEF Goes
  <2>4. KeepsCells(n)
    <3>1. sp <= Base - n
      BY OwnStack
    <3>2. \A k \in 1 .. n : Base - k \in Int /\ Base - k >= sp /\ Base - k < Base
      BY <3>1, CellsUnder
    <3>3. \A k \in 1 .. n : Base - k # sp + 1
      BY OwnStack
    <3>4. QED
      BY <2>3, <3>2, <3>3 DEF KeepsCells
  <2>5. QED
    BY <1>1, <1>4, <2>2, <2>3, <2>4 DEF Advances, Quietly, Goes
<1>5. QED
  BY <1>3, <1>4

LEMMA CallPoint ==
    ASSUME RegistersOK, [Next]_shellVars, OwnSetting, NEW a \in Memory, NEW b \in Word, NEW n \in Nat,
           Runs(a), mem[a] = Op.CALL, sp = Base - (n + 1), mem[Base - (n + 1)] = b, rsp = RStackTop
    PROVE  \/ UNCHANGED shellVars
           \/ /\ Advances(b, n, RStackTop - 1) /\ Quietly /\ KeepsCells(n)
              /\ mem'[RStackTop - 1] = a
<1>1. sp + 1 = Base - n /\ Holds(1) /\ TOS = b /\ sp <= Base - n
  <2>1. sp + 1 = Base - n /\ sp < Base /\ sp <= Base - n
    BY OwnStack
  <2>2. QED
    BY <2>1, OwnStack DEF TOS
<1>2. \/ UNCHANGED shellVars
      \/ Others /\ rsp - 1 \in RStack /\ Goes(b, sp + 1, rsp - 1, [mem EXCEPT ![rsp - 1] = a])
  BY <1>1, CallStep
<1>3. ASSUME Others, rsp - 1 \in RStack, Goes(b, sp + 1, rsp - 1, [mem EXCEPT ![rsp - 1] = a])
      PROVE  Advances(b, n, RStackTop - 1) /\ Quietly /\ KeepsCells(n) /\ mem'[RStackTop - 1] = a
  <2>2. UNCHANGED <<job, kept, strbuf, typed, at, err, brackets, screen>>
    BY <1>3 DEF Others, WordsUnchanged, wordVars
  <2>3. /\ Framed /\ mem'[rsp - 1] = a
        /\ \A c \in Int : c >= sp /\ c < Base /\ c # rsp - 1 => mem'[c] = mem[c]
    BY <1>3, <2>2, StoredFramed DEF Goes
  <2>4. KeepsCells(n)
    <3>1. \A k \in 1 .. n : Base - k \in Int /\ Base - k >= sp /\ Base - k < Base
      BY <1>1, CellsUnder
    <3>2. \A k \in 1 .. n : Base - k \in Stack
      BY <3>1, BaseIs DEF OwnSetting, RegistersOK
    <3>3. \A k \in 1 .. n : Base - k # rsp - 1
      BY <3>2, <1>3, LayoutAssumption
    <3>4. QED
      BY <2>3, <3>1, <3>3 DEF KeepsCells
  <2>5. QED
    BY <1>1, <1>3, <2>2, <2>3, <2>4 DEF Advances, Quietly, Goes
<1>4. QED
  BY <1>2, <1>3

\* Returning from a word, or ending the line.
LEMMA RetPoint ==
    ASSUME RegistersOK, [Next]_shellVars, OwnSetting, NEW a \in Memory, NEW b \in Word, NEW c \in Word,
           Runs(a), mem[a] = Op.RET, b = c + 1, rsp = RStackTop - 1, mem[rsp] = c
    PROVE  \/ UNCHANGED shellVars
           \/ /\ Framed /\ status' = "running" /\ flags' = {} /\ pc' = b
              /\ sp' = sp /\ rsp' = RStackTop /\ Quietly /\ mem' = mem
<1>1. rsp < RStackTop /\ rsp + 1 = RStackTop
  BY LayoutAssumption
<1>2. UNCHANGED shellVars \/ (Others /\ Goes(b, sp, RStackTop, mem))
  BY <1>1, RetStep
<1>3. Others => UNCHANGED <<job, kept, strbuf, typed, at, err, brackets, screen>>
  BY DEF Others, WordsUnchanged, wordVars
<1>4. QED
  BY <1>2, <1>3, UnchangedFramed DEF Goes, Quietly

LEMMA EndPoint ==
    ASSUME RegistersOK, [Next]_shellVars, OwnSetting, NEW a \in Memory,
           Runs(a), mem[a] = Op.RET, rsp = RStackTop
    PROVE  \/ UNCHANGED shellVars
           \/ Framed /\ Stopping' /\ sp' = sp /\ rsp' = RStackTop /\ Quietly /\ mem' = mem
<1>1. UNCHANGED shellVars \/ (Others /\ Stopping' /\ UNCHANGED <<mem, sp, rsp>>)
  BY RetStep
<1>2. Others => UNCHANGED <<job, kept, strbuf, typed, at, err, brackets, screen>>
  BY DEF Others, WordsUnchanged, wordVars
<1>3. QED
  BY <1>1, <1>2, UnchangedFramed DEF Quietly

\* vm_start returns.
LEMMA LeavePoint ==
    ASSUME RegistersOK, [Next]_shellVars, OwnSetting, Stopping
    PROVE  \/ UNCHANGED shellVars
           \/ Framed /\ Rests({"BYE"})' /\ sp' = sp /\ rsp' = RStackTop /\ Quietly /\ mem' = mem
<1>1. status = "running" /\ flags # {} /\ ~HostIdle
  BY DEF Stopping, HostIdle
<1>2. ~Instruction
  BY <1>1 DEF Instruction, vm_none, vm_push, vm_ret, vm_call, vm_c_exec, vm_jmp, vm_pc,
         vm_sp, vm_add, vm_sub, vm_mul, vm_div, vm_mod, vm_and, vm_or, vm_xor,
         vm_load, vm_less, vm_greater, vm_str, vm_it, vm_drop, vm_rdrop, vm_swap,
         vm_rpush, vm_rpop, vm_quit, BadFetch, Executing, Binary, Dividing
<1>3. ~Native
  BY <1>1, OneNative DEF Executing
<1>4. ~right_bracket_returns /\ ~Over
  BY <1>1 DEF right_bracket_returns, Over
<1>5. ~forth_compile /\ ~ImmediateReturns /\ ~EndOfLine
  BY <1>1 DEF forth_compile, Compiling, ImmediateReturns, EndOfLine
<1>6. ~Process
  BY <1>1 DEF Process, PromptUser, ReadLine, LineCompiled, ReportCompiled, LineRejected,
              PromptPrinted, LineRan, ReportPrinted, BannerPrinted
<1>7. UNCHANGED shellVars \/ (Leave /\ Others)
  BY <1>2, <1>3, <1>4, <1>5, <1>6 DEF Next, Running, VMStep, NativeStep, CompileLine, Others
<1>8. Others => UNCHANGED <<job, kept, strbuf, typed, at, err, brackets, screen>>
  BY DEF Others, WordsUnchanged, wordVars
<1>9. QED
  BY <1>7, <1>8, UnchangedFramed DEF Leave, Stopping, Rests, Quietly

LEMMA PostPoint ==
    ASSUME RegistersOK, [Next]_shellVars, OwnSetting, NEW a \in Memory, NEW b \in Word,
           Runs(a), b = a + 2, mem[a] = Op.C_EXEC, sp = Base - 2,
           mem[Base - 2] = Fn.dot_quote_post, mem[Base - 1] = 1
    PROVE  \/ UNCHANGED shellVars
           \/ Advances(b, 0, rsp) /\ Quietly
<1>1. sp + 1 = Base - 1 /\ sp + 2 = Base - 0 /\ Holds(2) /\ TOS = Fn.dot_quote_post /\ NOS = 1
  <2>1. Base \in Int /\ Holds(2)
    <3>1. sp + 1 < Base
      BY OwnStack
    <3>2. QED
      BY <3>1, OwnStack
  <2>2. sp + 1 = Base - 1 /\ sp + 2 = Base - 0
    BY <2>1
  <2>3. QED
    BY <2>1, <2>2 DEF TOS, NOS
<1>2. UNCHANGED shellVars \/ (Others /\ Goes(b, sp + 2, rsp, mem))
  BY <1>1, PostStep
<1>3. Others => UNCHANGED <<job, kept, strbuf, typed, at, err, brackets, screen>>
  BY DEF Others, WordsUnchanged, wordVars
<1>4. QED
  BY <1>1, <1>2, <1>3, UnchangedFramed DEF Goes, Advances, Quietly

\* The text reaches the terminal.
LEMMA OutputPoint ==
    ASSUME RegistersOK, [Next]_shellVars, OwnSetting, NEW a \in Memory, NEW b \in Word, NEW c \in Memory,
           c \in Int, Runs(a), b = a + 1, mem[a] = Op.C_EXEC, sp = Base - 4,
           mem[Base - 4] = Fn.output, mem[Base - 3] = c, mem[Base - 2] = 1, mem[c] = Name[OwnText],
           Silent, NEW S, screen \in Seq(S)
    PROVE  \/ UNCHANGED shellVars
           \/ Advances(b, 1, rsp) /\ mem' = mem /\ Spoken'
<1>1. /\ sp + 1 = Base - 3 /\ sp + 2 = Base - 2 /\ sp + 3 = Base - 1 /\ Holds(3)
      /\ TOS = Fn.output /\ NOS = c /\ mem[sp + 2] = 1
  <2>1. Base \in Int /\ Holds(3)
    <3>1. sp + 2 < Base
      BY OwnStack
    <3>2. QED
      BY <3>1, OwnStack
  <2>2. sp + 1 = Base - 3 /\ sp + 2 = Base - 2 /\ sp + 3 = Base - 1
    BY <2>1
  <2>3. QED
    BY <2>1, <2>2 DEF TOS, NOS
<1>2. \/ UNCHANGED shellVars
      \/ /\ UNCHANGED <<job, at, err, typed, kept, strbuf, brackets>>
         /\ Goes(b, sp + 3, rsp, mem)
         /\ Len(screen') = Len(screen) + 1 /\ screen'[Len(screen) + 1][2] = mem[c]
  BY <1>1, OutputStep
<1>3. ASSUME UNCHANGED <<job, at, err, typed, kept, strbuf, brackets>>, Goes(b, sp + 3, rsp, mem),
             Len(screen') = Len(screen) + 1, screen'[Len(screen) + 1][2] = mem[c]
      PROVE  Advances(b, 1, rsp) /\ mem' = mem /\ Spoken'
  <2>1. Framed
    BY <1>3, UnchangedFramed DEF Goes
  <2>2. Spoken'
    BY <1>3, <2>1 DEF Framed, Silent, Spoken
  <2>3. QED
    BY <1>1, <1>3, <2>1, <2>2 DEF Goes, Advances
<1>4. QED
  BY <1>2, <1>3

-----------------------------------------------------------------------------
(* The line runs.                                                           *)

\* Interpreting, it is on its way to print, or has printed.
LEMMA PrintsOn ==
    ASSUME OwnSetting, Printing, Framed, PrintPoint', Quietly \/ (Silent /\ Spoken')
    PROVE  OwnStep
<1>1. Printing'
  BY DEF Printing, Framed
<1>2. Speaking'
  BY <1>1 DEF Framed, OwnSetting, Speaking
<1>3. QED
  BY <1>2 DEF OwnStep, Framed, Quietly, Printing

LEMMA StaysSilent ==
    ASSUME Framed, Quietly
    PROVE  /\ Silent => Silent'
           /\ Spoken => Spoken'
  BY DEF Framed, Quietly, Silent, Spoken

LEMMA LineCells ==
    ASSUME Printing
    PROVE  /\ TextLaid /\ mem[SandboxBase + 16] = Op.RET
           /\ \A i \in 0 .. 16 : SandboxBase + i \in Memory /\ SandboxBase + i \in Word /\ SandboxBase + i \in Int
           /\ SandboxBase \in Memory /\ SandboxBase \in Word /\ SandboxBase \in Int
<1>1. TextLaid /\ mem[SandboxBase + 16] = Op.RET /\ SandboxBase + 16 < DictBase
  BY DEF Printing, Closed
<1>2. SandboxBase \in Int /\ DictBase \in Int /\ SandboxBase \in Word
  BY BasesAreWords, ModulusIs DEF Word
<1>3. ASSUME NEW i \in 0 .. 16
      PROVE  SandboxBase + i \in Memory /\ SandboxBase + i \in Word /\ SandboxBase + i \in Int
  <2>1. SandboxBase + i < DictBase
    BY <1>1, <1>2
  <2>2. QED
    BY <1>2, <2>1, SandboxCells
<1>4. SandboxBase + 0 = SandboxBase
  BY <1>2
<1>5. SandboxBase \in Memory
  BY <1>3, <1>4
<1>6. QED
  BY <1>1, <1>2, <1>3, <1>5

\* Before OUTPUT is called.
LEMMA FirstHalf ==
    ASSUME RegistersOK, [Next]_shellVars, OwnSetting, Printing, FirstRuns, rsp = RStackTop, Silent
    PROVE  Outcome
<1>0. output_text \in Word
  BY PlacesAreCells
<1>1. CASE Runs(SandboxBase) /\ OnTop(0)
  <2>1. \/ UNCHANGED shellVars \/ Dies
        \/ Advances(SandboxBase + 2, 1, rsp) /\ Quietly /\ mem'[Base - 1] = 1
    BY <1>1, LineCells, PushPoint, 0 + 1 = 1 DEF TextLaid, OnTop
  <2>2. ASSUME Advances(SandboxBase + 2, 1, rsp), Quietly, mem'[Base - 1] = 1
        PROVE  OwnStep
    <3>1. FirstRuns'
      BY <2>2 DEF Advances, Framed, FirstRuns, Runs, OnTop, Cell
    <3>2. QED
      BY <2>2, <3>1, StaysSilent, PrintsOn DEF Advances, PrintPoint
  <2>3. QED
    BY <2>1, <2>2 DEF Outcome
<1>2. CASE Runs(SandboxBase + 2) /\ OnTop(1) /\ Cell(1) = 1
  <2>1. \/ UNCHANGED shellVars \/ Dies
        \/ /\ Advances(SandboxBase + 4, 2, rsp) /\ Quietly /\ KeepsCells(1) /\ mem'[Base - 2] = 1
    BY <1>2, LineCells, PushPoint, 1 + 1 = 2, (SandboxBase + 2) + 1 = SandboxBase + 3,
       (SandboxBase + 2) + 2 = SandboxBase + 4 DEF TextLaid, OnTop
  <2>2. ASSUME Advances(SandboxBase + 4, 2, rsp), Quietly, KeepsCells(1), mem'[Base - 2] = 1
        PROVE  OwnStep
    <3>1. FirstRuns'
      BY <1>2, <2>2 DEF Advances, Framed, FirstRuns, Runs, OnTop, Cell, KeepsCells
    <3>2. QED
      BY <2>2, <3>1, StaysSilent, PrintsOn DEF Advances, PrintPoint
  <2>3. QED
    BY <2>1, <2>2 DEF Outcome
<1>3. CASE Runs(SandboxBase + 4) /\ OnTop(2) /\ Cell(1) = 1 /\ Cell(2) = 1
  <2>1. \/ UNCHANGED shellVars \/ Dies
        \/ Advances(SandboxBase + 5, 3, rsp) /\ Quietly /\ KeepsCells(2) /\ mem'[Base - 3] = RegPC
    BY <1>3, LineCells, PcPoint, 2 + 1 = 3, (SandboxBase + 4) + 1 = SandboxBase + 5 DEF TextLaid, OnTop
  <2>2. ASSUME Advances(SandboxBase + 5, 3, rsp), Quietly, KeepsCells(2), mem'[Base - 3] = RegPC
        PROVE  OwnStep
    <3>1. FirstRuns'
      BY <1>3, <2>2 DEF Advances, Framed, FirstRuns, Runs, OnTop, Cell, KeepsCells
    <3>2. QED
      BY <2>2, <3>1, StaysSilent, PrintsOn DEF Advances, PrintPoint
  <2>3. QED
    BY <2>1, <2>2 DEF Outcome
<1>4. CASE Runs(SandboxBase + 5) /\ OnTop(3) /\ Cell(1) = 1 /\ Cell(2) = 1 /\ Cell(3) = RegPC
  <2>1. \/ UNCHANGED shellVars
        \/ Advances(SandboxBase + 6, 3, rsp) /\ Quietly /\ KeepsCells(2) /\ mem'[Base - 3] = SandboxBase + 5
    BY <1>4, LineCells, LoadPoint, 2 + 1 = 3, (SandboxBase + 5) + 1 = SandboxBase + 6 DEF TextLaid, OnTop, Cell
  <2>2. ASSUME Advances(SandboxBase + 6, 3, rsp), Quietly, KeepsCells(2), mem'[Base - 3] = SandboxBase + 5
        PROVE  OwnStep
    <3>1. FirstRuns'
      BY <1>4, <2>2 DEF Advances, Framed, FirstRuns, Runs, OnTop, Cell, KeepsCells
    <3>2. QED
      BY <2>2, <3>1, StaysSilent, PrintsOn DEF Advances, PrintPoint
  <2>3. QED
    BY <2>1, <2>2 DEF Outcome
<1>5. CASE Runs(SandboxBase + 6) /\ OnTop(3) /\ Cell(1) = 1 /\ Cell(2) = 1 /\ Cell(3) = SandboxBase + 5
  <2>1. \/ UNCHANGED shellVars \/ Dies
        \/ Advances(SandboxBase + 8, 4, rsp) /\ Quietly /\ KeepsCells(3) /\ mem'[Base - 4] = 10
    BY <1>5, LineCells, PushPoint, 3 + 1 = 4, (SandboxBase + 6) + 1 = SandboxBase + 7,
       (SandboxBase + 6) + 2 = SandboxBase + 8 DEF TextLaid, OnTop
  <2>2. ASSUME Advances(SandboxBase + 8, 4, rsp), Quietly, KeepsCells(3), mem'[Base - 4] = 10
        PROVE  OwnStep
    <3>1. FirstRuns'
      BY <1>5, <2>2 DEF Advances, Framed, FirstRuns, Runs, OnTop, Cell, KeepsCells
    <3>2. QED
      BY <2>2, <3>1, StaysSilent, PrintsOn DEF Advances, PrintPoint
  <2>3. QED
    BY <2>1, <2>2 DEF Outcome
<1>6. CASE Runs(SandboxBase + 8) /\ OnTop(4) /\ Cell(1) = 1 /\ Cell(2) = 1 /\ Cell(3) = SandboxBase + 5 /\ Cell(4) = 10
  <2>0. (SandboxBase + 5) + 10 = SandboxBase + 15 /\ (SandboxBase + 8) + 1 = SandboxBase + 9
        /\ SandboxBase + 5 \in Nat /\ SandboxBase + 15 \in Word /\ SandboxBase + 9 \in Word
        /\ SandboxBase + 8 \in Memory
    BY LineCells, ModulusIs DEF Word
  <2> DEFINE x == SandboxBase + 5
             a == SandboxBase + 8
             b == SandboxBase + 9
  <2>4. /\ Runs(a) /\ sp = Base - 4 /\ mem[Base - 3] = x /\ mem[Base - 4] = 10 /\ mem[a] = Op.ADD
        /\ a \in Memory /\ b \in Word /\ b = a + 1 /\ x \in Nat /\ x + 10 \in Word /\ x + 10 = SandboxBase + 15
    BY <1>6, <2>0, LineCells DEF TextLaid, OnTop, Cell
  <2> HIDE DEF x, a, b
  <2>5. sp = Base - (2 + 2) /\ mem[Base - (2 + 1)] = x /\ mem[Base - (2 + 2)] = 10 /\ 2 \in Nat /\ 10 \in Nat
    BY <2>4
  <2>6. \/ UNCHANGED shellVars \/ Dies
        \/ Advances(b, 2 + 1, rsp) /\ Quietly /\ KeepsCells(2) /\ mem'[Base - (2 + 1)] = x + 10
    BY <2>4, <2>5, AddPoint
  <2>1. \/ UNCHANGED shellVars \/ Dies
        \/ Advances(SandboxBase + 9, 3, rsp) /\ Quietly /\ KeepsCells(2) /\ mem'[Base - 3] = SandboxBase + 15
    BY <2>4, <2>6 DEF b
  <2>2. ASSUME Advances(SandboxBase + 9, 3, rsp), Quietly, KeepsCells(2), mem'[Base - 3] = SandboxBase + 15
        PROVE  OwnStep
    <3>1. FirstRuns'
      BY <1>6, <2>2 DEF Advances, Framed, FirstRuns, Runs, OnTop, Cell, KeepsCells
    <3>2. QED
      BY <2>2, <3>1, StaysSilent, PrintsOn DEF Advances, PrintPoint
  <2>3. QED
    BY <2>1, <2>2 DEF Outcome
<1>7. CASE Runs(SandboxBase + 9) /\ OnTop(3) /\ Cell(1) = 1 /\ Cell(2) = 1 /\ Cell(3) = SandboxBase + 15
  <2>1. \/ UNCHANGED shellVars \/ Dies
        \/ Advances(SandboxBase + 11, 4, rsp) /\ Quietly /\ KeepsCells(3) /\ mem'[Base - 4] = output_text
    BY <1>7, LineCells, PushPoint, 3 + 1 = 4, (SandboxBase + 9) + 1 = SandboxBase + 10,
       (SandboxBase + 9) + 2 = SandboxBase + 11 DEF TextLaid, OnTop
  <2>2. ASSUME Advances(SandboxBase + 11, 4, rsp), Quietly, KeepsCells(3), mem'[Base - 4] = output_text
        PROVE  OwnStep
    <3>1. FirstRuns'
      BY <1>7, <2>2 DEF Advances, Framed, FirstRuns, Runs, OnTop, Cell, KeepsCells, output_text
    <3>2. QED
      BY <2>2, <3>1, StaysSilent, PrintsOn DEF Advances, PrintPoint
  <2>3. QED
    BY <2>1, <2>2 DEF Outcome
<1>8. CASE /\ Runs(SandboxBase + 11) /\ OnTop(4) /\ Cell(1) = 1 /\ Cell(2) = 1
           /\ Cell(3) = SandboxBase + 15 /\ Cell(4) = output_text
  <2>1. \/ UNCHANGED shellVars
        \/ Advances(output_text, 3, RStackTop - 1) /\ Quietly /\ KeepsCells(3) /\ mem'[RStackTop - 1] = SandboxBase + 11
    BY <1>0, <1>8, LineCells, CallPoint, 3 + 1 = 4 DEF TextLaid, OnTop, Cell
  <2>2. ASSUME Advances(output_text, 3, RStackTop - 1), Quietly, KeepsCells(3), mem'[RStackTop - 1] = SandboxBase + 11
        PROVE  OwnStep
    <3>1. OutputRuns'
      BY <1>8, <2>2, StaysSilent DEF Advances, Framed, OutputRuns, Runs, OnTop, Cell, KeepsCells, output_text
    <3>2. QED
      BY <2>2, <3>1, PrintsOn DEF Advances, PrintPoint
  <2>3. QED
    BY <2>1, <2>2 DEF Outcome
<1>9. QED
  BY <1>1, <1>2, <1>3, <1>4, <1>5, <1>6, <1>7, <1>8 DEF FirstRuns

\* OUTPUT runs.
LEMMA OutputPlaces ==
    ASSUME OutputCells, RegistersOK
    PROVE  /\ \A i \in 0 .. 3 : output_text + i \in Memory /\ output_text + i \in Word /\ output_text + i \in Int
           /\ output_text \in Memory /\ output_text \in Word /\ output_text \in Int
<1>1. DictBase \in Nat
  BY DictAssumption
<1>2. \A i \in 0 .. 3 : output_text + i \in DictBase .. LastSystemCell /\ output_text + i \in Int
  BY <1>1 DEF output_text, LastSystemCell
<1>3. \A i \in 0 .. 3 : output_text + i \in Ram
  BY <1>2, SystemAssumption
<1>4. output_text + 0 = output_text
  BY <1>1 DEF output_text
<1>5. \A i \in 0 .. 3 : output_text + i \in Memory /\ output_text + i \in Word
  BY <1>3, LayoutAssumption DEF Memory, Cells
<1>6. QED
  BY <1>2, <1>4, <1>5

LEMMA CalledHalf ==
    ASSUME RegistersOK, [Next]_shellVars, OwnSetting, Printing, OutputRuns, OutputCells, NEW S, screen \in Seq(S)
    PROVE  Outcome
<1>0. RStackTop - 1 \in RStack /\ RStackTop \in Int
  BY LayoutAssumption DEF RegistersOK, OutputRuns, RStack
<1>1. CASE Runs(output_text) /\ OnTop(3) /\ Cell(1) = 1 /\ Cell(2) = 1 /\ Cell(3) = SandboxBase + 15 /\ Silent
  <2>1. \/ UNCHANGED shellVars \/ Dies
        \/ /\ Advances(output_text + 2, 4, rsp) /\ Quietly /\ KeepsCells(3) /\ mem'[Base - 4] = Fn.output
           /\ \A c \in RStack : mem'[c] = mem[c]
    BY <1>1, OutputPlaces, PushPoint, 3 + 1 = 4 DEF OutputCells, OnTop
  <2>2. ASSUME Advances(output_text + 2, 4, rsp), Quietly, KeepsCells(3), mem'[Base - 4] = Fn.output,
               \A c \in RStack : mem'[c] = mem[c]
        PROVE  OwnStep
    <3>1. OutputRuns'
      BY <1>0, <1>1, <2>2, StaysSilent DEF Advances, Framed, OutputRuns, Runs, OnTop, Cell, KeepsCells, output_text
    <3>2. QED
      BY <2>2, <3>1, PrintsOn DEF Advances, PrintPoint
  <2>3. QED
    BY <2>1, <2>2 DEF Outcome
<1>2. CASE /\ Runs(output_text + 2) /\ OnTop(4) /\ Cell(1) = 1 /\ Cell(2) = 1 /\ Cell(3) = SandboxBase + 15
           /\ Cell(4) = Fn.output /\ Silent
  <2>0. mem[SandboxBase + 15] = Name[OwnText]
    BY LineCells DEF TextLaid
  <2>1. \/ UNCHANGED shellVars
        \/ Advances(output_text + 3, 1, rsp) /\ mem' = mem /\ Spoken'
    <3>1. (output_text + 2) + 1 = output_text + 3
      BY OutputPlaces
    <3>2. /\ SandboxBase + 15 \in Memory /\ SandboxBase + 15 \in Int
          /\ output_text + 2 \in Memory /\ output_text + 3 \in Word
      BY LineCells, OutputPlaces
    <3>3. /\ Runs(output_text + 2) /\ mem[output_text + 2] = Op.C_EXEC /\ sp = Base - 4
          /\ mem[Base - 4] = Fn.output /\ mem[Base - 3] = SandboxBase + 15 /\ mem[Base - 2] = 1 /\ Silent
      BY <1>2 DEF OutputCells, OnTop, Cell
    <3> DEFINE a == output_text + 2
               b == output_text + 3
               c == SandboxBase + 15
    <3> HIDE DEF a, b, c
    <3>4. /\ a \in Memory /\ b \in Word /\ c \in Memory /\ c \in Int /\ b = a + 1
          /\ Runs(a) /\ mem[a] = Op.C_EXEC /\ mem[Base - 3] = c /\ mem[c] = Name[OwnText]
      BY <2>0, <3>1, <3>2, <3>3 DEF a, b, c
    <3>5. UNCHANGED shellVars \/ (Advances(b, 1, rsp) /\ mem' = mem /\ Spoken')
      BY <3>3, <3>4, OutputPoint
    <3>6. QED
      BY <3>5 DEF b
  <2>2. ASSUME Advances(output_text + 3, 1, rsp), mem' = mem, Spoken'
        PROVE  OwnStep
    <3>1. OutputRuns'
      BY <1>2, <2>2 DEF Advances, Framed, OutputRuns, Runs, OnTop, Cell, output_text
    <3>2. QED
      BY <1>2, <2>2, <3>1, PrintsOn DEF Advances, PrintPoint
  <2>3. QED
    BY <2>1, <2>2 DEF Outcome
<1>3. CASE Runs(output_text + 3) /\ OnTop(1) /\ Cell(1) = 1 /\ Spoken
  <2>1. \/ UNCHANGED shellVars
        \/ /\ Framed /\ status' = "running" /\ flags' = {} /\ pc' = SandboxBase + 12
           /\ sp' = sp /\ rsp' = RStackTop /\ Quietly /\ mem' = mem
    <3>1. (SandboxBase + 11) + 1 = SandboxBase + 12
      BY BasesAreWords, ModulusIs DEF Word
    <3>2. QED
      BY <1>3, <3>1, LineCells, OutputPlaces, RetPoint DEF OutputCells, OutputRuns
  <2>2. ASSUME Framed, status' = "running", flags' = {}, pc' = SandboxBase + 12,
               sp' = sp, rsp' = RStackTop, Quietly, mem' = mem
        PROVE  OwnStep
    <3>1. LastRuns' /\ Spoken'
      BY <1>3, <2>2, StaysSilent DEF Framed, LastRuns, Runs, OnTop, Cell
    <3>2. QED
      BY <2>2, <3>1, PrintsOn DEF PrintPoint
  <2>3. QED
    BY <2>1, <2>2 DEF Outcome
<1>4. QED
  BY <1>1, <1>2, <1>3 DEF OutputRuns

\* After it returned.
LEMMA SecondHalf ==
    ASSUME RegistersOK, [Next]_shellVars, OwnSetting, Printing, LastRuns, rsp = RStackTop, Spoken,
           status = "running"
    PROVE  Outcome
<1>1. CASE Runs(SandboxBase + 12) /\ OnTop(1) /\ Cell(1) = 1
  <2>1. \/ UNCHANGED shellVars \/ Dies
        \/ Advances(SandboxBase + 14, 2, rsp) /\ Quietly /\ KeepsCells(1) /\ mem'[Base - 2] = Fn.dot_quote_post
    BY <1>1, LineCells, PushPoint, 1 + 1 = 2, (SandboxBase + 12) + 1 = SandboxBase + 13,
       (SandboxBase + 12) + 2 = SandboxBase + 14 DEF TextLaid, OnTop
  <2>2. ASSUME Advances(SandboxBase + 14, 2, rsp), Quietly, KeepsCells(1), mem'[Base - 2] = Fn.dot_quote_post
        PROVE  OwnStep
    <3>1. LastRuns'
      BY <1>1, <2>2 DEF Advances, Framed, LastRuns, Runs, OnTop, Cell, KeepsCells
    <3>2. QED
      BY <2>2, <3>1, StaysSilent, PrintsOn DEF Advances, PrintPoint
  <2>3. QED
    BY <2>1, <2>2 DEF Outcome
<1>2. CASE Runs(SandboxBase + 14) /\ OnTop(2) /\ Cell(1) = 1 /\ Cell(2) = Fn.dot_quote_post
  <2>1. \/ UNCHANGED shellVars
        \/ Advances(SandboxBase + 16, 0, rsp) /\ Quietly
    BY <1>2, LineCells, PostPoint, (SandboxBase + 14) + 2 = SandboxBase + 16 DEF TextLaid, OnTop, Cell
  <2>2. ASSUME Advances(SandboxBase + 16, 0, rsp), Quietly
        PROVE  OwnStep
    <3>1. LastRuns'
      BY <2>2 DEF Advances, Framed, LastRuns, Runs, OnTop
    <3>2. QED
      BY <2>2, <3>1, StaysSilent, PrintsOn DEF Advances, PrintPoint
  <2>3. QED
    BY <2>1, <2>2 DEF Outcome
<1>3. CASE Runs(SandboxBase + 16) /\ OnTop(0)
  <2>1. \/ UNCHANGED shellVars
        \/ Framed /\ Stopping' /\ sp' = sp /\ rsp' = RStackTop /\ Quietly /\ mem' = mem
    BY <1>3, LineCells, EndPoint
  <2>2. ASSUME Framed, Stopping', sp' = sp, rsp' = RStackTop, Quietly
        PROVE  OwnStep
    <3>1. LastRuns'
      BY <1>3, <2>2 DEF Framed, LastRuns, OnTop
    <3>2. QED
      BY <2>2, <3>1, StaysSilent, PrintsOn DEF PrintPoint
  <2>3. QED
    BY <2>1, <2>2 DEF Outcome
<1>4. CASE Stopping /\ OnTop(0)
  <2>1. \/ UNCHANGED shellVars
        \/ Framed /\ Rests({"BYE"})' /\ sp' = sp /\ rsp' = RStackTop /\ Quietly /\ mem' = mem
    BY <1>4, LeavePoint
  <2>2. ASSUME Framed, Rests({"BYE"})', sp' = sp, rsp' = RStackTop, Quietly
        PROVE  OwnStep
    <3>1. LastRuns'
      BY <1>4, <2>2 DEF Framed, LastRuns, OnTop
    <3>2. QED
      BY <2>2, <3>1, StaysSilent, PrintsOn DEF PrintPoint
  <2>3. QED
    BY <2>1, <2>2 DEF Outcome
<1>5. QED
  BY <1>1, <1>2, <1>3, <1>4 DEF LastRuns, Rests

\* Inside a definition it has nothing to do.
LEMMA PassingOn ==
    ASSUME RegistersOK, [Next]_shellVars, OwnSetting, Passing, status = "running"
    PROVE  Outcome
<1>0. mem[SandboxBase] = Op.RET /\ SandboxBase \in Memory
  <2>1. SandboxBase + 0 = SandboxBase
    BY BasesAreWords, ModulusIs DEF Word
  <2>2. QED
    BY <2>1, SandboxCells DEF Passing, Closed
<1>1. ASSUME Framed, Stopping' \/ Rests({"BYE"})', sp' = sp, rsp' = RStackTop, Quietly
      PROVE  OwnStep
  <2>1. Passing'
    BY <1>1, StaysSilent DEF Passing, Framed, OnTop, Taken, Spoilt
  <2>2. QED
    BY <1>1, <2>1 DEF OwnStep, Speaking, Framed, OwnSetting, Quietly
<1>2. CASE Runs(SandboxBase)
  BY <1>0, <1>1, <1>2, EndPoint DEF Passing, Outcome
<1>3. CASE Stopping
  BY <1>1, <1>3, LeavePoint DEF Passing, Outcome
<1>4. QED
  BY <1>2, <1>3 DEF Passing, Rests

-----------------------------------------------------------------------------
(* The line is compiled.                                                    *)

\* What is compiled lies in the sandbox or behind HERE.
LEMMA AppendsAt ==
    ASSUME NEW m, MemoryOK(m), NEW p \in {here_ptr, sandbox_ptr}, NEW ws, Len(ws) \in Nat,
           Fits(m, p, Len(ws)), m[here_ptr] >= DictBase + 48,
           p = sandbox_ptr => m[p] + Len(ws) < DictBase
    PROVE  /\ Appended(m, p, ws)[p] = m[p] + Len(ws)
           /\ \A i \in 1 .. Len(ws) : Appended(m, p, ws)[m[p] + i] = ws[i]
           /\ \A c \in Memory : c \notin Ram => Appended(m, p, ws)[c] = m[c]
           /\ \A c \in Variables : c # p => Appended(m, p, ws)[c] = m[c]
           /\ p = sandbox_ptr => \A c \in Ram : c >= DictBase /\ c # p => Appended(m, p, ws)[c] = m[c]
<1> DEFINE n == Len(ws)
           h == m[p]
           m2 == Appended(m, p, ws)
<1>1. DOMAIN m = Memory /\ p \in Memory /\ p \in Ram /\ h \in Int /\ Ram \subseteq Memory /\ DictBase \in Int
      /\ \A c \in Ram : c \in Int
  BY PlacesOfVariables, WordIsInt, LayoutAssumption, BasesAreWords DEF MemoryOK, Variables, Pointers, Memory, Cells
<1>2. /\ m2[p] = h + n
      /\ \A c \in Memory : c # p /\ c \notin h + 1 .. h + n => m2[c] = m[c]
  BY <1>1 DEF Appended
<1>3. \A c \in h + 1 .. h + n : c \in Ram /\ c # p
  BY DEF Fits
<1>4. \A i \in 1 .. n : m2[h + i] = ws[i]
  <2> TAKE i \in 1 .. n
  <2> HIDE DEF n, h, m2
  <2>1. h + i \in h + 1 .. h + n
    BY <1>1 DEF n
  <2>2. QED
    BY <2>1, <1>1, <1>3, AppendedIs DEF n, h, m2
<1>5. \A c \in Memory : c \notin Ram => m2[c] = m[c]
  BY <1>1, <1>2, <1>3
<1>6. p = sandbox_ptr => \A c \in Ram : c >= DictBase /\ c # p => m2[c] = m[c]
  <2>1. \A c \in Ram : p = sandbox_ptr /\ c >= DictBase => c \notin h + 1 .. h + n
    <3> HIDE DEF h, n, m2
    <3>1. n \in Nat /\ (p = sandbox_ptr => h + n < DictBase)
      BY DEF h, n
    <3>2. QED
      BY <1>1, <3>1
  <2>2. QED
    BY <1>1, <1>2, <2>1
<1>7. \A c \in Variables : c # p => m2[c] = m[c]
  <2>1. \A c \in Variables : p = here_ptr => c \notin h + 1 .. h + n
    <3>1. \A c \in Variables : c <= DictBase + 27 /\ c \in Int
      BY PlacesOfVariables
    <3>2. p = here_ptr => h >= DictBase + 48
      OBVIOUS
    <3> HIDE DEF h, n, m2
    <3>3. QED
      BY <1>1, <3>1, <3>2
  <2>2. \A c \in Variables : c \in Ram /\ c >= DictBase /\ c \in Memory
    BY PlacesOfVariables
  <2>3. QED
    BY <1>2, <1>6, <2>1, <2>2
<1>8. QED
  BY <1>2, <1>4, <1>5, <1>6, <1>7

\* The user's stack is not in the RAM.
LEMMA KeptOutside ==
    ASSUME UserKept, UNCHANGED kept, \A c \in Memory : c \notin Ram => mem'[c] = mem[c]
    PROVE  UserKept' /\ Base' = Base /\ \A c \in Stack : mem'[c] = mem[c]
<1>1. \A c \in Stack : c \in Memory /\ c \notin Ram
  BY LayoutAssumption DEF Memory, Cells
<1>2. \A i \in 1 .. Len(kept.stack) : Base + i - 1 \in Stack
  BY BaseIs
<1>3. Base' = Base
  BY DEF Base
<1>4. QED
  BY <1>1, <1>2, <1>3 DEF UserKept

TextCode(w) == <<Op.PUSH, 1, Op.PUSH, 1, Op.PC, Op.LOAD, Op.PUSH, 10, Op.ADD,
                 Op.PUSH, output_text, Op.CALL, Op.PUSH, Fn.dot_quote_post, Op.C_EXEC, w>>

LEMMA CodeLaid ==
    ASSUME NEW x, x = SandboxBase - 1, \A i \in 1 .. 16 : mem'[x + i] = TextCode(Name[OwnText])[i],
           OwnText' = OwnText
    PROVE  TextLaid'
<1> DEFINE ws == TextCode(Name[OwnText])
<1>1. SandboxBase \in Int
  BY BasesAreWords, ModulusIs DEF Word
<1>3. \A i \in 1 .. 16 : mem'[SandboxBase + (i - 1)] = ws[i]
  <2> TAKE i \in 1 .. 16
  <2>1. x + i = SandboxBase + (i - 1)
    BY <1>1
  <2>2. QED
    BY <2>1
<1>4. SandboxBase + 0 = SandboxBase
  BY <1>1
<1>5. /\ mem'[SandboxBase] = Op.PUSH /\ mem'[SandboxBase + 1] = 1 /\ mem'[SandboxBase + 2] = Op.PUSH
      /\ mem'[SandboxBase + 3] = 1 /\ mem'[SandboxBase + 4] = Op.PC /\ mem'[SandboxBase + 5] = Op.LOAD
      /\ mem'[SandboxBase + 6] = Op.PUSH /\ mem'[SandboxBase + 7] = 10
      /\ mem'[SandboxBase + 8] = Op.ADD
  BY <1>3, <1>4 DEF TextCode
<1>6. /\ mem'[SandboxBase + 9] = Op.PUSH /\ mem'[SandboxBase + 10] = output_text
      /\ mem'[SandboxBase + 11] = Op.CALL
      /\ mem'[SandboxBase + 12] = Op.PUSH /\ mem'[SandboxBase + 13] = Fn.dot_quote_post
      /\ mem'[SandboxBase + 14] = Op.C_EXEC /\ mem'[SandboxBase + 15] = Name[OwnText]
  BY <1>3 DEF TextCode
<1>7. QED
  BY <1>5, <1>6 DEF TextLaid, output_text

LEMMA HereIsHigh == DictInv => mem[here_ptr] >= DictBase + 48 /\ mem[here_ptr] \in Int
  BY NewestIsHigh DEF DictInv

\* The cells of ." in the compiled-in dictionary.
LEMMA DotQuoteCells ==
    ASSUME DictInv
    PROVE  /\ \A i \in 0 .. 6 : /\ DotQuote + i \in DOMAIN Rom /\ DotQuote + i \in Memory
                                /\ DotQuote + i \in Word /\ DotQuote + i # 0
           /\ DotQuote \in Int /\ DotQuote \in Word /\ DotQuote # 0 /\ DotQuote \in Memory
           /\ mem[DotQuote] = HeaderMark + IMMEDIATE
           /\ mem[DotQuote + 3] = Op.PUSH /\ mem[DotQuote + 4] = Fn.dot_quote_immediate
           /\ mem[DotQuote + 5] = Op.C_EXEC /\ mem[DotQuote + 6] = Op.RET
<1>1. DotQuote \in Int
  BY DEF DotQuote, RomAt, RomBase, RomWords, OldWords, ArithmeticWords, LogicWords, NewWords
<1>2. \A i \in 0 .. 6 : DotQuote + i \in DotQuote .. (DotQuote + 6)
  BY <1>1
<1>3. \A i \in 0 .. 6 : /\ DotQuote + i \in DOMAIN Rom /\ DotQuote + i \in Memory
                        /\ DotQuote + i \in Word /\ DotQuote + i # 0
  BY <1>2, OwnLinesAssumption DEF Memory
<1>4. DotQuote + 0 = DotQuote
  BY <1>1
<1>5. \A i \in 0 .. 6 : mem[DotQuote + i] = Rom[DotQuote + i]
  BY <1>3 DEF DictInv
<1>6. mem[DotQuote] = HeaderMark + IMMEDIATE
  BY <1>4, <1>5, OwnLinesAssumption
<1>7. \A i \in 1 .. 4 : mem[DotQuote + (2 + i)] = Calling("dot_quote_immediate")[i]
  <2> TAKE i \in 1 .. 4
  <2>1. DotQuote + (2 + i) = DotQuote + 2 + i /\ 2 + i \in 0 .. 6
    BY <1>1
  <2>2. QED
    BY <1>5, <2>1, OwnLinesAssumption
<1>8. 2 + 1 = 3 /\ 2 + 2 = 4 /\ 2 + 3 = 5 /\ 2 + 4 = 6
  OBVIOUS
<1>9. /\ Calling("dot_quote_immediate")[1] = Op.PUSH
      /\ Calling("dot_quote_immediate")[2] = Fn.dot_quote_immediate
      /\ Calling("dot_quote_immediate")[3] = Op.C_EXEC /\ Calling("dot_quote_immediate")[4] = Op.RET
  BY DEF Calling, Fn
<1>10. /\ mem[DotQuote + 3] = Op.PUSH /\ mem[DotQuote + 4] = Fn.dot_quote_immediate
       /\ mem[DotQuote + 5] = Op.C_EXEC /\ mem[DotQuote + 6] = Op.RET
  <2>1. mem[DotQuote + (2 + 1)] = Op.PUSH /\ mem[DotQuote + (2 + 2)] = Fn.dot_quote_immediate
        /\ mem[DotQuote + (2 + 3)] = Op.C_EXEC /\ mem[DotQuote + (2 + 4)] = Op.RET
    BY <1>7, <1>9
  <2>2. QED
    BY <2>1, <1>8
<1>11. QED
  BY <1>1, <1>3, <1>4, <1>6, <1>10

\* ." has compiled its text, or left a definition its text.
LEMMA TextTaken ==
    ASSUME DictInv, Tame, OwnSetting, Quoting, Runs(DotQuote + 5), OnTop(1), mem[in_ptr] = 1, Empty,
           Others, Fits([mem EXCEPT ![in_ptr] = 2], TextCopyPtr, 16),
           Goes(DotQuote + 6, sp + 1, rsp,
                Appended([mem EXCEPT ![in_ptr] = 2], TextCopyPtr, TextCode(Name[OwnText])))
    PROVE  OwnStep
<1> DEFINE m == [mem EXCEPT ![in_ptr] = 2]
           ws == TextCode(Name[OwnText])
<1>1. Len(ws) = 16
  BY DEF TextCode
<1>2. RegistersOK /\ MemoryOK(mem) /\ 2 \in Word
  BY MemoryIsTyped, ModulusIs DEF DictInv, ShellTypeOK, Word
<1>3. MemoryOK(m) /\ (\A c \in Memory : c # in_ptr => m[c] = mem[c]) /\ m[in_ptr] = 2
  BY <1>2, OneStored, PlacesOfVariables DEF MemoryOK, Variables
<1>4. m[here_ptr] >= DictBase + 48 /\ here_ptr # in_ptr /\ sandbox_ptr # in_ptr /\ state_ptr # in_ptr
      /\ m[sandbox_ptr] = mem[sandbox_ptr] /\ m[state_ptr] = mem[state_ptr]
  BY <1>3, HereIsHigh, PlacesDiffer, PlacesOfVariables DEF Variables, Pointers
<1>5. TextCopyPtr \in {here_ptr, sandbox_ptr} /\ (TextCopyPtr = sandbox_ptr <=> Interprets)
  BY PlacesDiffer DEF TextCopyPtr, Interprets
<1>6. mem' = Appended(m, TextCopyPtr, ws) /\ Fits(m, TextCopyPtr, Len(ws))
  BY <1>1 DEF Goes
<1>7. mem[sandbox_ptr] = SandboxBase - 1 /\ SandboxBase \in Int /\ DictBase \in Int
  BY BasesAreWords, ModulusIs DEF Empty, Word
<1>8. mem'[sandbox_ptr] < DictBase
  BY DEF Tame
<1> HIDE DEF m, ws
<1>9. TextCopyPtr = sandbox_ptr => mem'[sandbox_ptr] = SandboxBase + 15 /\ SandboxBase + 15 < DictBase
  <2>1. TextCopyPtr = sandbox_ptr => mem'[sandbox_ptr] = m[sandbox_ptr] + 16
    BY <1>1, <1>3, <1>6, PlacesOfVariables DEF Appended, MemoryOK, Variables
  <2>2. (SandboxBase - 1) + 16 = SandboxBase + 15
    BY <1>7
  <2>3. QED
    BY <1>4, <1>7, <1>8, <2>1, <2>2
<1>10. TextCopyPtr = sandbox_ptr => m[TextCopyPtr] + Len(ws) < DictBase
  BY <1>1, <1>4, <1>7, <1>9
<1>11. /\ \A i \in 1 .. 16 : mem'[m[TextCopyPtr] + i] = ws[i]
       /\ \A c \in Memory : c \notin Ram => mem'[c] = m[c]
       /\ \A c \in Variables : c # TextCopyPtr => mem'[c] = m[c]
       /\ TextCopyPtr = sandbox_ptr =>
             \A c \in Ram : c >= DictBase /\ c # TextCopyPtr => mem'[c] = m[c]
  <2> DEFINE p == TextCopyPtr
  <2> HIDE DEF p
  <2>1. p \in {here_ptr, sandbox_ptr} /\ Len(ws) \in Nat /\ Fits(m, p, Len(ws)) /\ mem' = Appended(m, p, ws)
        /\ (p = sandbox_ptr => m[p] + Len(ws) < DictBase)
    BY <1>1, <1>5, <1>6, <1>10 DEF p
  <2>2. /\ \A i \in 1 .. Len(ws) : mem'[m[p] + i] = ws[i]
        /\ \A c \in Memory : c \notin Ram => mem'[c] = m[c]
        /\ \A c \in Variables : c # p => mem'[c] = m[c]
        /\ p = sandbox_ptr => \A c \in Ram : c >= DictBase /\ c # p => mem'[c] = m[c]
    BY <1>3, <1>4, <2>1, AppendsAt
  <2>3. QED
    BY <1>1, <2>2 DEF p
<1>12. UNCHANGED <<job, kept, strbuf, typed, at, err, brackets, screen>> /\ OwnText' = OwnText
  BY DEF Others, WordsUnchanged, wordVars, OwnText
<1>13. \A c \in Memory : c \notin Ram => mem'[c] = mem[c]
  BY <1>3, <1>11, PlacesOfVariables DEF Variables
<1>14. UserKept' /\ Base' = Base
  BY <1>12, <1>13, KeptOutside DEF OwnSetting
<1>15. mem'[in_ptr] = 2 /\ mem'[state_ptr] = mem[state_ptr]
  BY <1>3, <1>4, <1>5, <1>11, PlacesDiffer DEF Variables
<1>16. (Interprets' <=> Interprets) /\ (StateKnown' <=> StateKnown)
  BY <1>15 DEF Interprets, StateKnown, state_ptr
<1>17. Laid'
  <2>1. CASE Interprets
    <3>1. m[TextCopyPtr] = SandboxBase - 1
      BY <1>4, <1>5, <1>7, <2>1
    <3>2. TextLaid'
      BY <1>11, <1>12, <3>1, CodeLaid DEF ws
    <3>3. QED
      BY <1>5, <1>9, <1>16, <2>1, <3>2 DEF Laid, sandbox_ptr
  <2>2. CASE ~Interprets
    <3>1. mem'[sandbox_ptr] = mem[sandbox_ptr]
      BY <1>4, <1>5, <1>11, <2>2, PlacesDiffer DEF Variables
    <3>2. QED
      BY <1>7, <1>16, <2>2, <3>1 DEF Laid, Empty, sandbox_ptr
  <2>3. QED
    BY <2>1, <2>2
<1>18. Words
  <2>1. \A c \in Ram : c \in Memory
    BY OwnPlaces
  <2>2. QED
    BY <1>3, <1>5, <1>11, <1>15, <2>1 DEF Words
<1>19. OnTop(0)'
  <2>1. sp' = sp + 1 /\ sp = Base - 1
    BY DEF Goes, OnTop
  <2>2. Base \in Int
    BY <1>2, OwnStack
  <2> HIDE DEF Base
  <2>3. QED
    BY <1>14, <2>1, <2>2 DEF OnTop
<1>20. Quoting'
  <2>1. Runs(DotQuote + 6)' /\ rsp' = rsp
    BY DEF Goes, Runs, DotQuote
  <2>2. rsp = RStackTop
    BY DEF Quoting, Runs
  <2>3. QED
    BY <1>12, <1>15, <1>16, <1>17, <1>19, <2>1, <2>2 DEF Quoting, Silent, in_ptr
<1>21. OwnSetting'
  BY <1>12, <1>14, <1>16 DEF OwnSetting, OwnLine
<1>22. QED
  BY <1>12, <1>18, <1>20, <1>21 DEF OwnStep, Speaking, OwnSetting

LEMMA QuotingOn ==
    ASSUME DictInv, [Next]_shellVars, [Tame]_shellVars, OwnSetting, Quoting, status = "running"
    PROVE  Outcome
<1>0. RegistersOK /\ rsp = RStackTop
  BY DEF DictInv, ShellTypeOK, Quoting
<1>1. CASE Runs(DotQuote + 3) /\ OnTop(0) /\ mem[in_ptr] = 1 /\ Empty
  <2>1. (DotQuote + 3) + 1 = DotQuote + 4 /\ (DotQuote + 3) + 2 = DotQuote + 5
    BY DotQuoteCells
  <2>2. \/ UNCHANGED shellVars \/ Dies
        \/ Advances(DotQuote + 5, 1, rsp) /\ Quietly /\ mem'[Base - 1] = Fn.dot_quote_immediate
    BY <1>0, <1>1, <2>1, DotQuoteCells, PushPoint, 0 + 1 = 1 DEF OnTop
  <2>3. ASSUME Advances(DotQuote + 5, 1, rsp), Quietly, mem'[Base - 1] = Fn.dot_quote_immediate
        PROVE  OwnStep
    <3>1. Quoting'
      BY <1>0, <1>1, <2>3, StaysSilent DEF Advances, Framed, Quoting, Runs, OnTop, Cell, in_ptr, DotQuote
    <3>2. QED
      BY <2>3, <3>1 DEF Advances, Framed, OwnSetting, Speaking, OwnStep, Quietly
  <2>4. QED
    BY <2>2, <2>3 DEF Outcome
<1>2. CASE Runs(DotQuote + 5) /\ OnTop(1) /\ Cell(1) = Fn.dot_quote_immediate /\ mem[in_ptr] = 1 /\ Empty
  <2>1. (DotQuote + 5) + 1 = DotQuote + 6 /\ 1 + 1 = 2
    BY DotQuoteCells
  <2>2. Holds(1) /\ TOS = Fn.dot_quote_immediate
    <3>1. sp < Base
      BY <1>0, <1>2, OwnStack DEF OnTop
    <3>2. QED
      BY <1>0, <1>2, <3>1, OwnStack DEF TOS, OnTop, Cell
  <2>3. \/ UNCHANGED shellVars \/ Dies
        \/ /\ Others /\ Fits([mem EXCEPT ![in_ptr] = 2], TextCopyPtr, 16)
           /\ Goes(DotQuote + 6, sp + 1, rsp,
                   Appended([mem EXCEPT ![in_ptr] = 2], TextCopyPtr, TextCode(Name[OwnText])))
    <3> DEFINE a == DotQuote + 5
               b == DotQuote + 6
               k == mem[in_ptr] + 1
               m == [mem EXCEPT ![in_ptr] = k]
    <3>1. a \in Memory /\ Runs(a) /\ mem[a] = Op.C_EXEC /\ a + 1 = b /\ b \in Word /\ k = 2
      BY <1>2, <2>1, DotQuoteCells
    <3> HIDE DEF a, b, k
    <3>2. \/ UNCHANGED shellVars \/ Dies
          \/ /\ Others /\ Fits(m, TextCopyPtr, 16)
             /\ Goes(a + 1, sp + 1, rsp, Appended(m, TextCopyPtr, TextCode(Name[strbuf[k]])))
      BY <1>0, <2>2, <3>1, DotQuoteStep DEF k, TextCode
    <3> HIDE DEF m
    <3>3. strbuf[k] = OwnText /\ m = [mem EXCEPT ![in_ptr] = 2]
      BY <3>1 DEF m, OwnText
    <3>4. QED
      BY <3>1, <3>2, <3>3 DEF b
  <2>4. ASSUME Others, Fits([mem EXCEPT ![in_ptr] = 2], TextCopyPtr, 16),
               Goes(DotQuote + 6, sp + 1, rsp,
                   Appended([mem EXCEPT ![in_ptr] = 2], TextCopyPtr, TextCode(Name[OwnText])))
        PROVE  OwnStep \/ UNCHANGED shellVars
    BY <1>2, <2>4, TextTaken
  <2>5. QED
    BY <2>3, <2>4 DEF Outcome
<1>3. CASE (Runs(DotQuote + 6) \/ Stopping \/ Rests({"BYE"})) /\ OnTop(0) /\ mem[in_ptr] = 2 /\ Laid
  <2>1. ASSUME Framed, Stopping' \/ Rests({"BYE"})', sp' = sp, rsp' = RStackTop, Quietly
        PROVE  OwnStep
    <3>1. Quoting'
      BY <1>3, <2>1, StaysSilent DEF Quoting, Framed, OnTop, in_ptr
    <3>2. QED
      BY <2>1, <3>1 DEF OwnStep, Speaking, Framed, OwnSetting, Quietly
  <2>2. CASE Runs(DotQuote + 6)
    BY <1>0, <2>1, <2>2, EndPoint, DotQuoteCells DEF Outcome
  <2>3. CASE Stopping
    BY <1>0, <2>1, <2>3, LeavePoint DEF Outcome, Quoting
  <2>4. QED
    BY <1>3, <2>2, <2>3 DEF Rests
<1>4. QED
  BY <1>1, <1>2, <1>3 DEF Quoting

LEMMA RunningOwn ==
    ASSUME DictInv, [Next]_shellVars, [Tame]_shellVars, Speaking, OutputCells, NEW S, screen \in Seq(S),
           status = "running"
    PROVE  Outcome
<1>1. RegistersOK /\ OwnSetting
  BY DEF DictInv, ShellTypeOK, Speaking, OwnSetting
<1>2. CASE Quoting
  BY <1>1, <1>2, QuotingOn
<1>3. CASE Printing
  <2>1. CASE FirstRuns /\ rsp = RStackTop /\ Silent
    BY <1>1, <1>3, <2>1, FirstHalf
  <2>2. CASE OutputRuns
    BY <1>1, <1>3, <2>2, CalledHalf
  <2>3. CASE LastRuns /\ rsp = RStackTop /\ Spoken
    BY <1>1, <1>3, <2>3, SecondHalf
  <2>4. QED
    BY <1>3, <2>1, <2>2, <2>3 DEF Printing, PrintPoint
<1>4. CASE Passing
  BY <1>1, <1>4, PassingOn
<1>5. ~Begun /\ ~Refused /\ ~Quoted /\ ~Finished
  BY DEF Begun, Refused, Quoted, Finished, Rests
<1>6. QED
  BY <1>2, <1>3, <1>4, <1>5 DEF Speaking

-----------------------------------------------------------------------------
(* The host around the shell's own lines.                                   *)

LEMMA OwnLineIs ==
    ASSUME OwnLine
    PROVE  strbuf[1] = ".\"" /\ Len(strbuf) = 2 /\ strbuf[1] # NoToken
<1>1. \E t : strbuf = <<".\"", t>>
  BY DEF OwnLine, Banner, Prompt, OwnReports, OkReport, StackUnderflowReport, ZeroDivisionReport,
         NotFoundReport, CompileOnlyReport
<1>2. PICK t : strbuf = <<".\"", t>>
  BY <1>1
<1>3. strbuf[1] = ".\"" /\ Len(strbuf) = 2
  BY <1>2
<1>4. ".\"" # NoToken
  BY DEF NoToken
<1>5. QED
  BY <1>3, <1>4

\* What the host may do with a line of the shell's.
Halts == status' = "undefined" /\ ShellSpeaks' /\ UNCHANGED <<job, kept, strbuf, typed, mem, screen>>
HasSpoken == (Printing /\ Spoken) \/ Passing
LineOver == Rests({"BYE"}) /\ HasSpoken /\ (PromptPrinted \/ ReportPrinted \/ BannerPrinted)

\* The parts of the shell that have a turn.
LEMMA HostTurn ==
    ASSUME [Next]_shellVars, HostIdle, ShellSpeaks
    PROVE  \/ UNCHANGED shellVars
           \/ at = "word" /\ (forth_compile \/ EndOfLine)
           \/ at = "immediate" /\ ImmediateReturns
           \/ at = "compiled" /\ RunSandbox
           \/ at = "run" /\ (PromptPrinted \/ ReportPrinted \/ BannerPrinted)
<1>1. status = "idle" /\ brackets = <<>> /\ job # "line" /\ at \notin {"process", "line", "exit"}
  BY DEF HostIdle, ShellSpeaks
<1>2. ~Instruction /\ ~Leave
  BY <1>1 DEF Instruction, vm_none, vm_push, vm_ret, vm_call, vm_c_exec, vm_jmp, vm_pc,
         vm_sp, vm_add, vm_sub, vm_mul, vm_div, vm_mod, vm_and, vm_or, vm_xor,
         vm_load, vm_less, vm_greater, vm_str, vm_it, vm_drop, vm_rdrop, vm_swap,
         vm_rpush, vm_rpop, vm_quit, BadFetch, Executing, Binary, Dividing, Leave
<1>3. ~Native
  BY <1>1, OneNative DEF Executing
<1>4. ~right_bracket_returns /\ (~Over \/ UNCHANGED shellVars)
  BY <1>1 DEF right_bracket_returns, Over
<1>5. /\ forth_compile \/ EndOfLine => at = "word"
      /\ ImmediateReturns => at = "immediate"
  BY DEF forth_compile, Compiling, ImmediateReturns, EndOfLine
<1>6. Process => \/ at = "compiled" /\ RunSandbox
                 \/ at = "run" /\ (PromptPrinted \/ ReportPrinted \/ BannerPrinted)
  BY <1>1 DEF Process, PromptUser, ReadLine, LineCompiled, ReportCompiled, LineRejected,
              PromptPrinted, LineRan, ReportPrinted, BannerPrinted
<1>7. QED
  BY <1>2, <1>3, <1>4, <1>5, <1>6 DEF Next, Running, VMStep, NativeStep, CompileLine, Over

\* >IN moves on, or the machine starts.
LEMMA ReadFramed ==
    ASSUME RegistersOK, OwnSetting, \A b \in Memory : b # in_ptr => mem'[b] = mem[b],
           UNCHANGED <<job, kept, strbuf, typed, screen, brackets, sp>>
    PROVE  /\ OwnSetting' /\ Base' = Base /\ (Interprets' <=> Interprets) /\ (StateKnown' <=> StateKnown)
           /\ Words /\ OwnText' = OwnText
           /\ Empty => Empty'
           /\ Silent => Silent'
           /\ OnTop(0) => OnTop(0)'
<1>1. mem'[state_ptr] = mem[state_ptr] /\ mem'[sandbox_ptr] = mem[sandbox_ptr]
  BY OwnPlaces
<1>2. \A c \in Memory : c \notin Ram => mem'[c] = mem[c]
  BY OwnPlaces
<1>3. UserKept' /\ Base' = Base
  BY <1>2, KeptOutside DEF OwnSetting
<1>4. (Interprets' <=> Interprets) /\ (StateKnown' <=> StateKnown)
  BY <1>1 DEF Interprets, StateKnown, state_ptr
<1>5. OwnSetting'
  BY <1>3, <1>4 DEF OwnSetting, OwnLine
<1>6. Words
  BY <1>1, OwnPlaces DEF Words
<1>7. QED
  BY <1>1, <1>3, <1>4, <1>5, <1>6 DEF Empty, Silent, OnTop, sandbox_ptr, OwnText

\* The flags of .".
LEMMA DotQuoteFlags ==
    ASSUME DictInv
    PROVE  /\ ~HasFlag(DotQuote, COMPILE_ONLY) /\ HasFlag(DotQuote, IMMEDIATE)
           /\ ~HasFlag(DotQuote, VAR) /\ ~HasFlag(DotQuote, CONST)
           /\ TextPtr(DotQuote) = DotQuote + 3 /\ DotQuote \notin {0, Lost}
<1>1. Load(DotQuote) = 66
  BY DotQuoteCells DEF Load, DictInv, ShellTypeOK, RegistersOK, HeaderMark, IMMEDIATE
<1>2. /\ (66 \div 1) % 2 = 0 /\ (66 \div 2) % 2 = 1 /\ (66 \div 4) % 2 = 0 /\ (66 \div 8) % 2 = 0
  OBVIOUS
<1>3. DotQuote + 3 \in Word /\ DotQuote \in Word /\ DotQuote # 0
  BY DotQuoteCells
<1>4. (DotQuote + 3) % Modulus = DotQuote + 3 /\ DotQuote # Lost
  BY <1>3, ModulusIs DEF Word, Lost
<1>5. QED
  BY <1>1, <1>2, <1>3, <1>4 DEF HasFlag, COMPILE_ONLY, IMMEDIATE, VAR, CONST, TextPtr

\* The first token is ." , and it is run, unless STATE has been spoilt.
LEMMA BegunOn ==
    ASSUME DictInv, FreshInv, DotQuoteIsSeen, OwnSetting, Begun, HostIdle, forth_compile
    PROVE  OwnStep
<1>1. RegistersOK /\ rsp = RStackTop /\ status = "idle"
  BY DEF DictInv, ShellTypeOK, FreshInv, HostIdle
<1>2. Token = ".\"" /\ Token # NoToken
  <2>1. mem[in_ptr] = 0 /\ ~(0 >= StrbufSize) /\ 0 + 1 = 1 /\ 0 < 2
    BY ShellAssumption, DictAssumption DEF Begun
  <2>2. QED
    BY <2>1, OwnLineIs DEF Token, OwnSetting
<1>3. forth_search(Token) = DotQuote
  BY <1>2 DEF DotQuoteIsSeen, Banner
<1>4. /\ TokenRead = [mem EXCEPT ![in_ptr] = 1]
      /\ \A b \in Memory : b # in_ptr => TokenRead[b] = mem[b]
      /\ TokenRead[in_ptr] = 1
  <2>1. (0 + 1) % Modulus = 1
    BY ModulusIs
  <2>2. TokenRead = [mem EXCEPT ![in_ptr] = 1]
    BY <1>2, <2>1 DEF TokenRead, Begun
  <2>3. QED
    BY <2>2, <1>1, OwnPlaces DEF RegistersOK
<1>5. (StateKnown /\ RunImmediate(DotQuote)) \/ RejectState
  BY <1>3, DotQuoteFlags DEF forth_compile, RejectCompileOnly, PushImmediate, CompileWord, Allowed, Immediate,
     IsVariable, IsConstant
<1>6. CASE RejectState
  <2>1. UNCHANGED <<job, kept, strbuf, typed, screen, brackets, sp, at, flags, status>> /\ mem' = TokenRead
        /\ err' = "ERR" /\ ~StateKnown
    BY <1>6 DEF RejectState, Rejects, MachineUnchanged, WordsUnchanged, wordVars
  <2>2. /\ OwnSetting' /\ Base' = Base /\ ~StateKnown' /\ Words /\ Empty' /\ Silent' /\ OnTop(0)'
    BY <1>1, <1>4, <2>1, ReadFramed DEF Begun
  <2>3. Refused'
    BY <2>1, <2>2 DEF Begun, Refused, Rests
  <2>4. QED
    BY <2>1, <2>2, <2>3 DEF OwnStep, Speaking, OwnSetting
<1>7. CASE StateKnown /\ RunImmediate(DotQuote)
  <2>1. UNCHANGED <<job, kept, strbuf, typed, screen, brackets, sp, rsp, flags, err>> /\ mem' = TokenRead
        /\ status' = "running" /\ pc' = DotQuote + 3 /\ at' = "immediate"
    BY <1>7, DotQuoteFlags DEF RunImmediate, WordsUnchanged, wordVars, vm_start
  <2>2. /\ OwnSetting' /\ Base' = Base /\ StateKnown' /\ Words /\ Empty' /\ Silent' /\ OnTop(0)'
    BY <1>1, <1>4, <1>7, <2>1, ReadFramed DEF Begun
  <2>3. Quoting'
    BY <1>1, <1>4, <2>1, <2>2 DEF Begun, Quoting, Rests, Runs, in_ptr, DotQuote
  <2>4. QED
    BY <2>1, <2>2, <2>3 DEF OwnStep, Speaking, OwnSetting
<1>8. QED
  BY <1>5, <1>6, <1>7

\* ." returns to the compiler.
LEMMA QuotedNow ==
    ASSUME DictInv, OwnSetting, Quoting, HostIdle, ImmediateReturns
    PROVE  OwnStep
<1>1. UNCHANGED <<job, kept, strbuf, typed, screen, brackets, sp, mem, err, status>>
      /\ flags' = flags \ {"BYE"} /\ at' = "word"
  BY DEF ImmediateReturns, MachineUnchanged, WordsUnchanged, wordVars
<1>2. Rests({"BYE"}) /\ OnTop(0) /\ mem[in_ptr] = 2 /\ Laid /\ err = "OK" /\ StateKnown /\ Silent
  BY DEF Quoting, HostIdle, Runs, Stopping
<1>3. RegistersOK
  BY DEF DictInv, ShellTypeOK
<1>4. /\ OwnSetting' /\ Base' = Base /\ (Interprets' <=> Interprets) /\ StateKnown' /\ Words /\ Silent'
      /\ OnTop(0)' /\ (Empty => Empty') /\ OwnText' = OwnText
  BY <1>1, <1>2, <1>3, ReadFramed
<1>5. Laid'
  BY <1>1, <1>2, <1>4 DEF Laid, TextLaid, sandbox_ptr, output_text
<1>6. Quoted'
  BY <1>1, <1>2, <1>4, <1>5 DEF Quoted, Rests, in_ptr
<1>7. QED
  BY <1>1, <1>4, <1>6 DEF OwnStep, Speaking, OwnSetting

\* The line is run.
LEMMA FinishedOn ==
    ASSUME DictInv, FreshInv, OwnSetting, Finished, HostIdle, RunSandbox
    PROVE  OwnStep
<1>1. RegistersOK /\ rsp = RStackTop /\ status = "idle"
  BY DEF DictInv, ShellTypeOK, FreshInv, HostIdle
<1>2. SandboxBase % Modulus = SandboxBase
  BY BasesAreWords, ModulusIs DEF Word
<1>3. UNCHANGED <<job, kept, strbuf, typed, screen, brackets, sp, rsp, mem, flags, err>>
      /\ status' = "running" /\ pc' = SandboxBase /\ at' = "run"
  BY <1>2 DEF RunSandbox, vm_start, WordsUnchanged, wordVars
<1>4. /\ OwnSetting' /\ Base' = Base /\ (Interprets' <=> Interprets) /\ (StateKnown' <=> StateKnown)
      /\ Words /\ Silent' /\ OnTop(0)' /\ OwnText' = OwnText
  BY <1>1, <1>3, ReadFramed DEF Finished
<1>5. Closed'
  BY <1>3, <1>4 DEF Finished, Closed, TextLaid, output_text
<1>6. Runs(SandboxBase)' /\ rsp' = RStackTop
  BY <1>1, <1>3 DEF Finished, Rests, Runs
<1>7. Interprets => StateKnown
  BY DEF Interprets, StateKnown
<1>8. CASE Interprets
  <2>1. err' = "OK"
    BY <1>3, <1>7, <1>8 DEF Finished, Taken, Spoilt
  <2>2. Printing'
    BY <1>3, <1>4, <1>5, <1>6, <1>8, <2>1 DEF Printing, PrintPoint, FirstRuns
  <2>3. QED
    BY <1>3, <1>4, <2>2 DEF OwnStep, Speaking, OwnSetting
<1>9. CASE ~Interprets
  <2>1. Passing'
    BY <1>3, <1>4, <1>5, <1>6, <1>9 DEF Passing, Finished, Taken, Spoilt
  <2>2. QED
    BY <1>3, <1>4, <2>1 DEF OwnStep, Speaking, OwnSetting
<1>10. QED
  BY <1>8, <1>9

\* The RET that closes the line.
LEMMA EndsOn ==
    ASSUME DictInv, Tame, OwnSetting, Refused \/ Quoted, HostIdle, EndOfLine
    PROVE  OwnStep \/ Halts
<1>1. RegistersOK /\ MemoryOK(mem)
  BY MemoryIsTyped DEF DictInv, ShellTypeOK
<1>2. UNCHANGED <<job, kept, strbuf, typed, screen, brackets, sp, flags, err>> /\ at' = "compiled"
      /\ OwnText' = OwnText /\ status = "idle"
  BY DEF EndOfLine, MachineUnchanged, WordsUnchanged, wordVars, OwnText, HostIdle
<1>3. ASSUME status' = "undefined", UNCHANGED mem
      PROVE  Halts
  <2>1. job # "line"
    BY DEF OwnSetting, OwnLine
  <2>2. QED
    BY <1>2, <1>3, <2>1 DEF Halts, ShellSpeaks
<1>4. ASSUME Fits(mem, sandbox_ptr, 1), mem' = Appended(mem, sandbox_ptr, <<Op.RET>>), UNCHANGED status
      PROVE  OwnStep
  <2> DEFINE ws == <<Op.RET>>
             x == mem[sandbox_ptr]
  <2>1. Len(ws) = 1 /\ ws[1] = Op.RET /\ 1 \in 1 .. 1
    OBVIOUS
  <2>2. x \in Int /\ SandboxBase \in Int /\ DictBase \in Int
    BY <1>1, OwnPlaces, WordIsInt, BasesAreWords DEF MemoryOK
  <2>3. mem'[sandbox_ptr] = x + 1
    BY <1>1, <1>4, <2>1, OwnPlaces DEF Appended, MemoryOK
  <2>4. x + 1 < DictBase
    BY <2>3 DEF Tame
  <2>5. mem[here_ptr] >= DictBase + 48
    BY HereIsHigh
  <2>6. /\ mem'[x + 1] = Op.RET
        /\ \A c \in Memory : c \notin Ram => mem'[c] = mem[c]
        /\ \A c \in Variables : c # sandbox_ptr => mem'[c] = mem[c]
        /\ \A c \in Ram : c >= DictBase /\ c # sandbox_ptr => mem'[c] = mem[c]
    <3>0. /\ Fits(mem, sandbox_ptr, Len(ws)) /\ mem' = Appended(mem, sandbox_ptr, ws)
          /\ mem[sandbox_ptr] + Len(ws) < DictBase /\ Len(ws) \in Nat
      BY <1>4, <2>1, <2>4
    <3> HIDE DEF ws
    <3>1. /\ \A i \in 1 .. Len(ws) : mem'[mem[sandbox_ptr] + i] = ws[i]
          /\ \A c \in Memory : c \notin Ram => mem'[c] = mem[c]
          /\ \A c \in Variables : c # sandbox_ptr => mem'[c] = mem[c]
          /\ \A c \in Ram : c >= DictBase /\ c # sandbox_ptr => mem'[c] = mem[c]
      BY <1>1, <2>5, <3>0, AppendsAt
    <3>2. QED
      BY <2>1, <3>1
  <2>7. \A c \in Memory : c # sandbox_ptr /\ c \notin x + 1 .. x + 1 => mem'[c] = mem[c]
    BY <1>1, <1>4, <2>1 DEF Appended, MemoryOK
  <2> HIDE DEF x
  <2>8. UserKept' /\ Base' = Base
    BY <1>2, <2>6, KeptOutside DEF OwnSetting
  <2>9. mem'[in_ptr] = mem[in_ptr] /\ mem'[state_ptr] = mem[state_ptr]
    BY <2>6, PlacesDiffer DEF Variables
  <2>10. (Interprets' <=> Interprets) /\ (StateKnown' <=> StateKnown)
    BY <2>9 DEF Interprets, StateKnown, state_ptr
  <2>11. OwnSetting'
    BY <1>2, <2>8, <2>10 DEF OwnSetting, OwnLine
  <2>12. Words
    BY <2>6, <2>9 DEF Words
  <2>13. Closed'
    <3>1. CASE Interprets
      <4>1. Quoted
        BY <3>1 DEF Refused, StateKnown, Interprets
      <4>2. TextLaid /\ x = SandboxBase + 15
        BY <3>1, <4>1 DEF Quoted, Laid, x
      <4>3. x + 1 = SandboxBase + 16
        BY <2>2, <4>2
      <4>4. TextLaid'
        <5>1. ASSUME NEW i \in 0 .. 15
              PROVE  mem'[SandboxBase + i] = mem[SandboxBase + i]
          <6>1. SandboxBase + i < DictBase /\ SandboxBase + i \notin x + 1 .. x + 1 /\ i \in Nat
            BY <2>2, <2>4, <4>3
          <6>2. SandboxBase + i \in Memory /\ SandboxBase + i # sandbox_ptr
            BY <2>2, <6>1, SandboxCells, PlacesOfVariables DEF Variables
          <6>3. QED
            BY <2>7, <6>1, <6>2
        <5>2. QED
          BY <1>2, <4>2, <5>1, KeptText
      <4>5. QED
        BY <2>4, <2>6, <2>10, <3>1, <4>3, <4>4 DEF Closed
    <3>2. CASE ~Interprets
      <4>1. x = SandboxBase - 1
        BY <3>2 DEF Refused, Quoted, Laid, Empty, x
      <4>2. x + 1 = SandboxBase
        BY <2>2, <4>1
      <4>3. QED
        BY <2>4, <2>6, <2>10, <3>2, <4>2 DEF Closed
    <3>3. QED
      BY <3>1, <3>2
  <2>14. Finished'
    BY <1>2, <1>4, <2>8, <2>10, <2>13 DEF Finished, Refused, Quoted, Rests, Taken, Spoilt, OnTop, Silent
  <2>15. QED
    BY <1>2, <2>11, <2>12, <2>14 DEF OwnStep, Speaking, OwnSetting
<1>5. QED
  BY <1>3, <1>4 DEF EndOfLine

\* All that happens to a line of the shell's.
LEMMA OwnLineGoes ==
    ASSUME DictInv, FreshInv, DotQuoteIsSeen, [Next]_shellVars, [Tame]_shellVars, ShellSpeaks, Speaking,
           OutputCells, NEW S, screen \in Seq(S), status # "undefined"
    PROVE  UNCHANGED shellVars \/ Halts \/ OwnStep \/ LineOver
<1>1. CASE status = "running"
  <2>1. Outcome
    BY <1>1, RunningOwn
  <2>2. Dies => Halts
    BY DEF Dies, Others, Undefined, WordsUnchanged, wordVars, Halts, ShellSpeaks
  <2>3. QED
    BY <2>1, <2>2 DEF Outcome
<1>2. CASE status = "idle"
  <2>1. HostIdle /\ OwnSetting
    BY <1>2 DEF HostIdle, Speaking, OwnSetting
  <2>2. CASE at = "word" /\ forth_compile
    <3>1. Begun
      <4>1. err = "OK" /\ Token # NoToken
        BY <2>2 DEF forth_compile, Compiling
      <4>2. ~Quoted
        <5>1. Quoted => mem[in_ptr] = 2 /\ 2 < StrbufSize /\ ~(2 >= StrbufSize) /\ ~(2 < 2)
          BY ShellAssumption, DictAssumption DEF Quoted
        <5>2. QED
          BY <2>1, <4>1, <5>1, OwnLineIs DEF Token, OwnSetting
      <4>3. QED
        BY <2>2, <4>1, <4>2 DEF Speaking, Refused, Quoting, Finished, Printing, Passing
    <3>2. QED
      BY <2>1, <2>2, <3>1, BegunOn
  <2>3. CASE at = "word" /\ EndOfLine
    <3>1. Refused \/ Quoted
      <4>1. err # "OK" \/ Token = NoToken
        BY <2>3 DEF EndOfLine
      <4>2. ~Begun
        <5>1. Begun => mem[in_ptr] = 0 /\ ~(0 >= StrbufSize) /\ 0 + 1 = 1 /\ 0 < 2 /\ err = "OK"
          BY ShellAssumption, DictAssumption DEF Begun
        <5>2. QED
          BY <2>1, <4>1, <5>1, OwnLineIs DEF Token, OwnSetting
      <4>3. QED
        BY <2>3, <4>2 DEF Speaking, Quoting, Finished, Printing, Passing
    <3>2. UNCHANGED shellVars \/ Tame
      OBVIOUS
    <3>3. QED
      BY <2>1, <2>3, <3>1, <3>2, EndsOn
  <2>4. CASE at = "immediate" /\ ImmediateReturns
    <3>1. Quoting
      BY <2>4 DEF Speaking, Begun, Refused, Quoted, Finished, Printing, Passing
    <3>2. QED
      BY <2>1, <2>4, <3>1, QuotedNow
  <2>5. CASE at = "compiled" /\ RunSandbox
    <3>1. Finished
      BY <2>5 DEF Speaking, Begun, Refused, Quoted, Quoting, Printing, Passing
    <3>2. QED
      BY <2>1, <2>5, <3>1, FinishedOn
  <2>6. CASE at = "run" /\ (PromptPrinted \/ ReportPrinted \/ BannerPrinted)
    <3>1. Printing \/ Passing
      BY <2>6 DEF Speaking, Begun, Refused, Quoted, Quoting, Finished
    <3>2. Rests({"BYE"}) /\ HasSpoken
      BY <1>2, <3>1 DEF Printing, PrintPoint, FirstRuns, LastRuns, OutputRuns, Passing, Runs, Stopping, HasSpoken
    <3>3. QED
      BY <2>6, <3>2 DEF LineOver
  <2>7. QED
    BY <2>1, <2>2, <2>3, <2>4, <2>5, <2>6, HostTurn
<1>3. QED
  BY <1>1, <1>2 DEF FreshInv

-----------------------------------------------------------------------------
(* The terminal shows a sequence of items.                                  *)

\* The links lead along a sequence of addresses.
LEMMA ChainTyped ==
    ASSUME RegistersOK, NEW h \in Word
    PROVE  Chain(h) \in Seq(Word)
<1> DEFINE Found == [Word -> Seq(Word)]
           None == [a \in Word |-> <<>>]
           Step(f, a) == IF a = 0 THEN <<>> ELSE <<a>> \o f[LinkField(a)]
           F == [n \in 1 .. Modulus |-> [f \in Found |-> [a \in Word |-> Step(f, a)]]]
           V(w, n) == [a \in Word |-> IF a = 0 \/ n = 0 THEN <<>> ELSE <<a>> \o w[n - 1][LinkField(a)]]
           Def(w) == w = [n \in 0 .. Modulus |->
                            [a \in Word |-> IF a = 0 \/ n = 0 THEN <<>>
                                            ELSE <<a>> \o w[n - 1][LinkField(a)]]]
           from == CHOOSE w : Def(w)
<1>1. Chain(h) = from[Modulus][h]
  BY DEF Chain
<1>2. None \in Found
  OBVIOUS
<1>3. ASSUME NEW f \in Found, NEW a \in Word
      PROVE  Step(f, a) \in Seq(Word)
  <2>1. LinkField(a) \in Word
    <3> DEFINE b == a + 2
    <3>1. Readable(b) => Load(b) \in Word
      BY LoadIsWord
    <3>2. ~Readable(b) => Load(b) = sp
      BY DEF Readable, Load
    <3>3. sp \in Word
      BY LayoutAssumption, ModulusAssumption DEF RegistersOK, Word
    <3> HIDE DEF b
    <3>4. Load(b) \in Word
      BY <3>1, <3>2, <3>3
    <3>5. QED
      BY <3>4 DEF LinkField, b
  <2>2. f[LinkField(a)] \in Seq(Word) /\ <<a>> \in Seq(Word) /\ <<>> \in Seq(Word)
    BY <2>1
  <2> HIDE DEF Found
  <2>3. <<a>> \o f[LinkField(a)] \in Seq(Word)
    BY <2>2, ConcatProperties
  <2>4. QED
    BY <2>2, <2>3
<1>4. Steps(Modulus, Found, None, F)
  <2>1. \A f \in Found : [a \in Word |-> Step(f, a)] \in Found
    <3> HIDE DEF Step
    <3>1. QED
      BY <1>3
  <2> HIDE DEF Found, Step, None
  <2>2. [f \in Found |-> [a \in Word |-> Step(f, a)]] \in [Found -> Found]
    BY <2>1
  <2>3. QED
    BY <1>2, <2>2, ModulusIs DEF Steps
<1>5. PICK w : Records(Modulus, Found, None, F, w)
  <2> HIDE DEF F, Found, None
  <2>1. QED
    BY <1>4, Iterates
<1>6. /\ w \in [0 .. Modulus -> Found] /\ w[0] = None
      /\ \A n \in 1 .. Modulus : w[n] = [a \in Word |-> Step(w[n - 1], a)]
  <2> HIDE DEF Found, Step, None
  <2>1. \A n \in 1 .. Modulus : w[n - 1] \in Found
    BY <1>5, ModulusIs DEF Records
  <2>2. QED
    BY <1>5, <2>1 DEF Records
<1> HIDE DEF F
<1>7. Def(w)
  <2>1. w = [n \in 0 .. Modulus |-> w[n]]
    BY <1>6
  <2>2. w[0] = V(w, 0)
    BY <1>6
  <2>3. ASSUME NEW n \in 1 .. Modulus PROVE w[n] = V(w, n)
    <3>1. n # 0
      BY ModulusIs
    <3>2. \A a \in Word : Step(w[n - 1], a) = V(w, n)[a]
      BY <3>1
    <3>3. V(w, n) = [a \in Word |-> V(w, n)[a]]
      OBVIOUS
    <3> HIDE DEF V, Step
    <3>4. QED
      BY <1>6, <3>2, <3>3
  <2>4. \A n \in 0 .. Modulus : n = 0 \/ n \in 1 .. Modulus
    BY ModulusIs
  <2> HIDE DEF V
  <2>5. \A n \in 0 .. Modulus : w[n] = V(w, n)
    BY <2>2, <2>3, <2>4
  <2>6. w = [n \in 0 .. Modulus |-> V(w, n)]
    BY <2>1, <2>5
  <2>7. QED
    BY <2>6 DEF V
<1>8. Def(from)
  <2> HIDE DEF Def
  <2>1. QED
    BY <1>7
<1> HIDE DEF from
<1> DEFINE T == {n \in 0 .. Modulus : from[n] \in Found}
<1>9. 0 \in T
  <2>1. 0 \in 0 .. Modulus
    BY ModulusIs
  <2>2. from[0] = V(from, 0)
    BY <1>8, <2>1
  <2>3. from[0] = None
    BY <2>2
  <2>4. QED
    BY <1>2, <2>1, <2>3
<1>10. ASSUME NEW n \in 0 .. (Modulus - 1), n \in T
       PROVE  n + 1 \in T
  <2>1. n + 1 \in 0 .. Modulus /\ n + 1 # 0 /\ (n + 1) - 1 = n
    BY ModulusIs
  <2>2. from[n + 1] = V(from, n + 1)
    BY <1>8, <2>1
  <2>3. \A a \in Word : V(from, n + 1)[a] = Step(from[n], a)
    BY <2>1
  <2>4. V(from, n + 1) = [a \in Word |-> V(from, n + 1)[a]]
    OBVIOUS
  <2>5. from[n + 1] = [a \in Word |-> Step(from[n], a)]
    <3> HIDE DEF V, Step
    <3>1. QED
      BY <2>2, <2>3, <2>4
  <2>6. from[n] \in Found
    BY <1>10
  <2> HIDE DEF Found, Step, Def, V
  <2>7. \A a \in Word : Step(from[n], a) \in Seq(Word)
    BY <1>3, <2>6
  <2>8. [a \in Word |-> Step(from[n], a)] \in Found
    BY <2>7 DEF Found
  <2>9. QED
    BY <2>1, <2>5, <2>8
<1> HIDE DEF T, Found, Def
<1>11. \A n \in 0 .. Modulus : n \in T
  BY <1>9, <1>10, ModulusIs, IntervalInduction
<1>12. Modulus \in 0 .. Modulus
  BY ModulusIs
<1>13. QED
  BY <1>1, <1>11, <1>12 DEF T, Found

ScreenOK == \E S : screen \in Seq(S)

\* A record of n items is a sequence.
LEMMA ItemsAreSeq ==
    ASSUME NEW n \in Int, NEW f, f = [i \in 1 .. n |-> f[i]]
    PROVE  \E S : f \in Seq(S)
<1> DEFINE T == {f[i] : i \in 1 .. n}
<1>1. f \in [1 .. n -> T]
  OBVIOUS
<1>2. CASE n \in Nat
  BY <1>1, <1>2, FunctionIsSeq
<1>3. CASE n \notin Nat
  <2>1. 1 .. n = 1 .. 0
    BY <1>3
  <2>2. f \in [1 .. 0 -> T] /\ 0 \in Nat
    BY <1>1, <2>1
  <2>3. QED
    BY <2>2, FunctionIsSeq
<1>4. QED
  BY <1>2, <1>3

LEMMA ScreenGrows ==
    ASSUME ScreenOK, NEW items, \E S : items \in Seq(S), screen' = screen \o items
    PROVE  ScreenOK'
<1>1. PICK S : screen \in Seq(S)
  BY DEF ScreenOK
<1>2. PICK T : items \in Seq(T)
  OBVIOUS
<1>3. screen \in Seq(S \cup T) /\ items \in Seq(S \cup T)
  BY <1>1, <1>2
<1>4. screen \o items \in Seq(S \cup T)
  BY <1>3, ConcatProperties
<1>5. QED
  BY <1>4 DEF ScreenOK

LEMMA IfPrinted ==
    ASSUME ScreenOK, NEW ok, NEW items, NEW s, PrintsIf(ok, items, s), \E S : items \in Seq(S)
    PROVE  ScreenOK'
<1>1. CASE UNCHANGED screen
  BY <1>1 DEF ScreenOK
<1>2. CASE Prints(items)
  BY <1>2, ScreenGrows DEF Prints
<1>3. QED
  BY <1>1, <1>2 DEF PrintsIf

LEMMA PrintingScreen ==
    ASSUME RegistersOK, ScreenOK, PrintingWord
    PROVE  ScreenOK'
<1>0. \A x : <<x>> \in Seq({x})
  OBVIOUS
<1>1. CASE forth_emit
  <2>1. <<<<"char", Arg(0)>>>> \in Seq({<<"char", Arg(0)>>})
    BY <1>0
  <2>2. QED
    BY <1>1, <2>1, IfPrinted DEF forth_emit
<1>2. CASE cr_handler
  <2>1. <<<<"char", 10>>>> \in Seq({<<"char", 10>>})
    BY <1>0
  <2>2. QED
    BY <1>2, <2>1, IfPrinted DEF cr_handler
<1>3. CASE forth_output_data
  <2> DEFINE n == AsInt(Arg(1))
             items == [i \in 1 .. n |-> Arg(0) + i - 1]
             shown == [i \in DOMAIN items |-> <<"text", Load(items[i])>>]
  <2>1. CASE Has(2)
    <3>1. Arg(1) \in Int
      BY <1>3, <2>1, NativeTop DEF forth_output_data
    <3>2. n \in Int
      BY <3>1, ModulusAssumption, OwnLinesAssumption DEF AsInt
    <3> HIDE DEF n
    <3>3. DOMAIN items = 1 .. n
      OBVIOUS
    <3> HIDE DEF items
    <3>4. shown = [i \in 1 .. n |-> shown[i]]
      BY <3>3
    <3>5. \E S : shown \in Seq(S)
      BY <3>2, <3>4, ItemsAreSeq
    <3>6. PrintsIf(Has(2) /\ \A i \in DOMAIN items : Readable(items[i]), shown, Top + 2)
      BY <1>3 DEF forth_output_data, items, n
    <3> HIDE DEF shown
    <3>7. QED
      BY <3>5, <3>6, IfPrinted
  <2>2. CASE ~Has(2)
    <3>1. UNCHANGED screen
      BY <1>3, <2>2 DEF forth_output_data, PrintsIf
    <3>2. QED
      BY <3>1 DEF ScreenOK
  <2>3. QED
    BY <2>1, <2>2
<1>4. CASE forth_dot_handler
  <2> DEFINE item == <<"number", Signed(Arg(0))>>
  <2>1. UNCHANGED screen \/ PrintsIf(TRUE, <<item>>, Top + 1)
    BY <1>4 DEF forth_dot_handler
  <2> HIDE DEF item
  <2>2. <<item>> \in Seq({item})
    BY <1>0
  <2>3. UNCHANGED screen => ScreenOK'
    BY DEF ScreenOK
  <2>4. QED
    BY <2>1, <2>2, <2>3, IfPrinted
<1>5. CASE words_handler
  <2> DEFINE chain == Chain(mem[forth_ptr])
             n == Len(chain)
             items == [i \in 1 .. n |-> <<"text", NameField(chain[i])>>]
  <2>1. chain \in Seq(Word)
    BY ChainTyped, PlacesAreCells DEF Places, RegistersOK
  <2> HIDE DEF chain
  <2>2. n \in Int
    BY <2>1
  <2> HIDE DEF n
  <2>3. items = [i \in 1 .. n |-> items[i]]
    OBVIOUS
  <2>4. PrintsIf(sp # StackLo /\ Walked({})[mem[forth_ptr]] = 0, items, Top)
    BY <1>5 DEF words_handler, chain, n
  <2> HIDE DEF items
  <2>5. \E S : items \in Seq(S)
    BY <2>2, <2>3, ItemsAreSeq
  <2>6. QED
    BY <2>4, <2>5, IfPrinted
<1>6. CASE forth_key
  BY <1>6 DEF forth_key, ScreenOK
<1>7. CASE custom_function
  <2> DEFINE x == <<"text", Name[CustomText]>>
             y == <<"char", 0>>
  <2>1. PrintsIf(sp # StackLo, <<x, y>>, Top)
    BY <1>7 DEF custom_function
  <2> HIDE DEF x, y
  <2>2. <<x, y>> \in Seq({x, y})
    OBVIOUS
  <2>3. QED
    BY <2>1, <2>2, IfPrinted
<1>8. QED
  BY <1>1, <1>2, <1>3, <1>4, <1>5, <1>6, <1>7 DEF PrintingWord

LEMMA ScreenStays ==
    ASSUME RegistersOK, ScreenOK, [Next]_shellVars
    PROVE  ScreenOK'
<1>1. \/ screen' = screen
      \/ PrintingWord
      \/ screen' = <<>>
  BY DEF Next, Running, VMStep, NativeStep, CompileLine, Process, Over, shellVars, wordVars, WordsUnchanged,
     Native, SilentWord, right_bracket_handler, right_bracket_returns,
     forth_compile, RejectState, Rejects, StopsUndefined, RejectCompileOnly, RunImmediate, PushImmediate,
     CompileWord, CompilesCode, CompileNumber, RejectUnknown, ImmediateReturns, EndOfLine,
     PromptUser, ReadLine, LineCompiled, ReportCompiled, RunSandbox, LineRejected, PromptPrinted, LineRan,
     ReportPrinted, BannerPrinted, Reports, Returning
<1>2. CASE screen' = screen
  BY <1>2 DEF ScreenOK
<1>3. CASE screen' = <<>>
  <2>1. <<>> \in Seq({})
    OBVIOUS
  <2>2. QED
    BY <1>3, <2>1 DEF ScreenOK
<1>4. QED
  BY <1>1, <1>2, <1>3, PrintingScreen

-----------------------------------------------------------------------------
(* OUTPUT stands.                                                           *)

Greets == ShellSpeaks /\ job = "banner"

\* The cells of OUTPUT are finished code.
LEMMA OutputIsCode ==
    ASSUME DictInv, NEW s, Chained(mem, s), OutputStands, Greets => Interprets
    PROVE  /\ \A a \in (output_text - 3) .. LastSystemCell : a \in KeptCells
           /\ Greets => Len(s) = 12
           /\ ~Greets => /\ Len(s) > 12 /\ s[Len(s) - 12] > LastSystemCell
                         /\ mem[forth_ptr] > LastSystemCell
<1> DEFINE L == Len(s)
           a0 == output_text - 3
<1>1. RegistersOK /\ MemoryOK(mem) /\ WordList(mem) = s
  BY MemoryIsTyped, ListIsChain DEF DictInv, ShellTypeOK
<1>2. L \in Nat /\ L > 11 /\ \A i \in 1 .. L : s[i] \in Int
  BY ChainIsInt DEF Chained
<1>3. s[L - 11] = a0 /\ SystemAt(11) = a0 /\ a0 \in Int /\ LastSystemCell \in Int
  <2>1. SystemAt(11) = DictBase + 46 /\ DictBase \in Nat
    BY SystemPlaces, DictAssumption
  <2>2. s[L - 11] = SystemAt(11)
    BY DEF Chained
  <2> HIDE DEF L
  <2>3. QED
    BY <2>1, <2>2 DEF output_text, LastSystemCell
<1>4. s[1] = mem[forth_ptr] /\ \A i, j \in 1 .. (L - 1) : i < j => s[j] + 2 < s[i]
  BY DEF Chained, Linked
<1>5. Greets => L = 12
  <2> HIDE DEF L
  <2>1. Greets => s[1] = a0
    BY <1>3, <1>4 DEF OutputStands, Greets
  <2>2. L - 11 \in 1 .. (L - 1) /\ 1 \in 1 .. (L - 1) /\ L - 11 \in 1 .. L
    BY <1>2
  <2>3. 1 < L - 11 => a0 + 2 < s[1]
    BY <1>3, <1>4, <2>2
  <2>4. QED
    BY <1>2, <1>3, <2>1, <2>3
<1>6. ~Greets => L > 12 /\ s[L - 12] > LastSystemCell
  BY <1>1 DEF OutputStands, Greets
<1>7. ~Greets => mem[forth_ptr] > LastSystemCell
  <2> HIDE DEF L
  <2>1. L > 12 => L - 12 \in 1 .. (L - 1) /\ 1 \in 1 .. (L - 1) /\ L - 12 \in 1 .. L /\ 1 \in 1 .. L
                  /\ (L - 12 = 1 \/ 1 < L - 12)
    BY <1>2
  <2>2. L > 12 => s[1] >= s[L - 12]
    BY <1>2, <1>4, <2>1
  <2>3. QED
    BY <1>2, <1>3, <1>4, <1>6, <2>1, <2>2
<1>8. ~HasFlag(a0, VAR) /\ ~HasFlag(a0, CONST)
  <2>1. Load(a0) = 64
    <3>1. mem[a0] = 64
      BY DEF OutputStands, OutputCells, HeaderMark, TEXT
    <3>2. a0 \in Memory
      <4>1. s[L - 11] \in Ram
        <5> HIDE DEF L
        <5>1. L - 11 \in 1 .. (L - 1)
          BY <1>2
        <5>2. QED
          BY <5>1 DEF Chained, Linked, L
      <4>2. QED
        BY <1>3, <4>1 DEF Memory, Cells
    <3>3. QED
      BY <1>1, <3>1, <3>2 DEF Load, RegistersOK
  <2>2. (64 \div 4) % 2 = 0 /\ (64 \div 8) % 2 = 0
    OBVIOUS
  <2>3. QED
    BY <2>1, <2>2 DEF HasFlag, VAR, CONST
<1>9. \A a \in a0 .. LastSystemCell : a \in CodeCells
  <2> DEFINE k == L - 11
             last == IF k = 1 THEN mem[here_ptr] ELSE s[k - 1] - 1
             ks == {i \in 1 .. (L - 1) : /\ ~HasFlag(s[i], VAR) /\ ~HasFlag(s[i], CONST)
                                         /\ i = 1 => mem[state_ptr] = False}
             cells(i) == s[i] .. (IF i = 1 THEN mem[here_ptr] ELSE s[i - 1] - 1)
  <2>1. CodeCells = UNION {cells(i) : i \in ks}
    BY <1>1 DEF CodeCells
  <2>2. k \in ks
    <3>1. k \in 1 .. (L - 1)
      <4> HIDE DEF L
      <4>1. QED
        BY <1>2
    <3>2. k = 1 => mem[state_ptr] = False
      <4>1. k = 1 => Greets
        <5> HIDE DEF L
        <5>1. QED
          BY <1>2, <1>6
      <4>2. QED
        BY <4>1 DEF Interprets
    <3>3. s[k] = a0
      BY <1>3
    <3>4. QED
      BY <1>8, <3>1, <3>2, <3>3
  <2>3. last >= LastSystemCell /\ last \in Int
    <3>1. CASE Greets
      <4>1. k = 1
        <5> HIDE DEF L
        <5>1. QED
          BY <1>2, <1>5, <3>1
      <4>2. last = mem[here_ptr]
        BY <4>1
      <4>3. mem[here_ptr] = LastSystemCell
        BY <3>1 DEF OutputStands, Greets
      <4>4. QED
        BY <1>3, <4>2, <4>3
    <3>2. CASE ~Greets
      <4>1. k # 1 /\ k - 1 = L - 12 /\ L - 12 \in 1 .. L
        <5> HIDE DEF L
        <5>1. QED
          BY <1>2, <1>6, <3>2
      <4>2. last = s[L - 12] - 1 /\ s[L - 12] \in Int
        BY <1>2, <4>1
      <4>3. QED
        BY <1>3, <1>6, <3>2, <4>2
    <3>3. QED
      BY <3>1, <3>2
  <2>4. cells(k) = a0 .. last
    BY <1>3
  <2> HIDE DEF cells, ks, last, k
  <2>5. \A a \in a0 .. LastSystemCell : a \in cells(k)
    <3> HIDE DEF a0
    <3>1. QED
      BY <1>3, <2>3, <2>4
  <2>6. QED
    BY <2>1, <2>2, <2>5
<1>10. QED
  BY <1>5, <1>6, <1>7, <1>9 DEF KeptCells

LEMMA OutputRange ==
    /\ output_text - 3 \in (output_text - 3) .. LastSystemCell
    /\ output_text \in (output_text - 3) .. LastSystemCell
    /\ output_text + 1 \in (output_text - 3) .. LastSystemCell
    /\ output_text + 2 \in (output_text - 3) .. LastSystemCell
    /\ output_text + 3 \in (output_text - 3) .. LastSystemCell
    /\ \A a \in (output_text - 3) .. LastSystemCell :
          /\ a \in Int /\ a <= LastSystemCell /\ a \in Ram /\ a >= DictBase
          /\ a \notin Variables \cup Pointers
<1>1. DictBase \in Nat
  BY DictAssumption
<1>2. output_text = DictBase + 49 /\ LastSystemCell = DictBase + 52
  BY DEF output_text, LastSystemCell
<1>3. \A a \in (output_text - 3) .. LastSystemCell : a \in DictBase .. LastSystemCell /\ a > DictBase + 27
  BY <1>1, <1>2
<1>4. \A a \in (output_text - 3) .. LastSystemCell : a \in Ram /\ a \notin Variables \cup Pointers
  BY <1>1, <1>3, PlacesOfVariables, SystemAssumption
<1>5. QED
  BY <1>1, <1>2, <1>3, <1>4

\* No step returns to the banner.
LEMMA GreetsOnce ==
    ASSUME [Next]_shellVars, ~Greets
    PROVE  ~Greets'
<1>1. job' = "banner" => UNCHANGED job
  BY DEF Next, Running, VMStep, NativeStep, CompileLine, Process, Over, shellVars,
     forth_compile, RejectState, Rejects, StopsUndefined, RejectCompileOnly, RunImmediate, PushImmediate,
     CompileWord, CompilesCode, CompileNumber, RejectUnknown, ImmediateReturns, EndOfLine,
     PromptUser, ReadLine, LineCompiled, ReportCompiled, RunSandbox, LineRejected, PromptPrinted, LineRan,
     ReportPrinted, BannerPrinted, Reports, Returning, Issues
<1>2. at \in {"process", "line", "exit"} /\ UNCHANGED job => at' \in {"process", "line", "exit"} \/ job' # "banner"
  BY DEF Next, Running, VMStep, NativeStep, CompileLine, Process, Over, shellVars,
     forth_compile, Compiling, ImmediateReturns, EndOfLine, HostIdle,
     PromptUser, ReadLine, LineCompiled, ReportCompiled, RunSandbox, LineRejected, PromptPrinted, LineRan,
     ReportPrinted, BannerPrinted, Reports, Returning, Issues
<1>3. QED
  BY <1>1, <1>2 DEF Greets, ShellSpeaks

\* A word put before the list s.
LEMMA ListPut ==
    ASSUME NEW h, NEW s, Len(s) \in Nat, Len(s) > 11, s \in Seq(Word), h \in Word
    PROVE  /\ Len(<<h>> \o s) = Len(s) + 1 /\ (<<h>> \o s)[1] = h
           /\ Len(s) > 12 => (<<h>> \o s)[Len(<<h>> \o s) - 12] = s[Len(s) - 12]
<1>1. /\ Len(<<h>> \o s) = 1 + Len(s)
      /\ \A i \in 1 .. (1 + Len(s)) : (<<h>> \o s)[i] = IF i <= 1 THEN <<h>>[i] ELSE s[i - 1]
  <2>1. <<h>> \in Seq(Word) /\ Len(<<h>>) = 1
    OBVIOUS
  <2> DEFINE u == <<h>>
  <2> HIDE DEF u
  <2>2. /\ Len(u \o s) = Len(u) + Len(s)
        /\ \A i \in 1 .. (Len(u) + Len(s)) : (u \o s)[i] = IF i <= Len(u) THEN u[i] ELSE s[i - Len(u)]
    BY <2>1, ConcatProperties DEF u
  <2>3. QED
    BY <2>1, <2>2 DEF u
<1>2. 1 \in 1 .. (1 + Len(s)) /\ <<h>>[1] = h
  OBVIOUS
<1> DEFINE t == <<h>> \o s
           n == Len(s)
<1> HIDE DEF t, n
<1>3. n > 12 => /\ (n + 1) - 12 \in 1 .. (1 + n) /\ ~((n + 1) - 12 <= 1)
                /\ ((n + 1) - 12) - 1 = n - 12
  BY DEF n
<1>4. n > 12 => t[(n + 1) - 12] = s[n - 12]
  BY <1>1, <1>3 DEF t, n
<1>5. Len(t) = n + 1 /\ t[1] = h
  BY <1>1, <1>2 DEF t, n
<1>6. n > 12 => t[Len(t) - 12] = s[n - 12]
  BY <1>4, <1>5
<1>7. QED
  BY <1>5, <1>6 DEF t, n

\* OUTPUT and what is newer than OUTPUT stay while any line runs.
LEMMA OutputKept ==
    ASSUME DictInv, DictInv', [Next]_shellVars, [Tame]_shellVars, OutputStands, ~Greets
    PROVE  OutputStands'
<1>1. PICK s : Chained(mem, s)
  BY DEF DictInv
<1>2. Progress(s)
  BY <1>1, TameSteps
<1>3. /\ \A a \in (output_text - 3) .. LastSystemCell : a \in KeptCells
      /\ Len(s) > 12 /\ s[Len(s) - 12] > LastSystemCell /\ mem[forth_ptr] > LastSystemCell
  BY <1>1, OutputIsCode
<1>4. \A a \in (output_text - 3) .. LastSystemCell : mem'[a] = mem[a]
  <2> TAKE a \in (output_text - 3) .. LastSystemCell
  <2>1. a # mem[forth_ptr]
    <3>1. LastSystemCell \in Int /\ a \in Int /\ a <= LastSystemCell
      BY OutputRange, DictAssumption DEF LastSystemCell
    <3>2. QED
      BY <1>3, <3>1
  <2>2. QED
    BY <1>2, <1>3, <2>1 DEF Progress
<1>5. OutputCells'
  BY <1>4, OutputRange DEF OutputStands, OutputCells, output_text
<1>6. ~Greets'
  BY GreetsOnce
<1>7. MemoryOK(mem') /\ MemoryOK(mem)
  BY MemoryIsTyped DEF DictInv, ShellTypeOK, MemoryOK, RegistersOK
<1>8. Len(s) \in Nat /\ s \in Seq(Word)
  BY <1>1, ChainIsInt DEF Chained, Linked
<1>9. CASE Chained(mem', s)
  <2>1. WordList(mem') = s
    BY <1>7, <1>9, ListIsChain
  <2>2. QED
    BY <1>3, <1>5, <1>6, <2>1 DEF OutputStands, Greets
<1>10. CASE Chained(mem', <<mem[here_ptr] + 1>> \o s)
  <2> DEFINE h == mem[here_ptr] + 1
             t == <<h>> \o s
  <2>1. WordList(mem') = t
    BY <1>7, <1>10, ListIsChain
  <2>2. h \in Word
    <3>1. mem[here_ptr] \in Int
      BY HereIsHigh
    <3>2. t \in Seq(Word)
      BY <1>10 DEF Chained, Linked
    <3> HIDE DEF h
    <3>3. QED
      BY <3>2, <1>8
  <2> HIDE DEF h
  <2>3. Len(t) = Len(s) + 1 /\ t[Len(t) - 12] = s[Len(s) - 12]
    BY <1>3, <1>8, <2>2, ListPut
  <2> HIDE DEF t
  <2>4. Len(t) > 12 /\ t[Len(t) - 12] > LastSystemCell
    BY <1>3, <1>8, <2>3
  <2>5. QED
    BY <1>5, <1>6, <2>1, <2>4 DEF OutputStands, Greets
<1>11. QED
  BY <1>2, <1>9, <1>10 DEF Progress

LEMMA SpeakingSpeaks == Speaking => ShellSpeaks
  BY DEF Speaking, OwnLine, Begun, Refused, Quoting, Quoted, Finished, Printing, Passing, ShellSpeaks

\* The banner's line leaves OUTPUT the newest word, and the shell puts its own over it.
LEMMA GreetingKept ==
    ASSUME DictInv, DictInv', [Tame]_shellVars, OutputStands, Greets, Speaking, OwnStep
    PROVE  OutputStands'
<1>1. Interprets
  BY DEF Speaking, OwnLine, Greets
<1>2. \A b \in Ram : b >= DictBase /\ b \notin {in_ptr, sandbox_ptr} => mem'[b] = mem[b]
  BY <1>1 DEF OwnStep, Words
<1>3. in_ptr \in Variables /\ sandbox_ptr \in Variables
  BY DEF Variables
<1>4. \A a \in (output_text - 3) .. LastSystemCell : mem'[a] = mem[a]
  BY <1>2, <1>3, OutputRange
<1>5. mem'[forth_ptr] = mem[forth_ptr] /\ mem'[here_ptr] = mem[here_ptr]
  BY <1>2, PlacesOfVariables, PlacesDiffer DEF Pointers
<1>6. Greets'
  <2>1. Speaking' /\ UNCHANGED job
    BY DEF OwnStep
  <2>2. ShellSpeaks'
    BY <2>1, SpeakingSpeaks, PTL
  <2>3. QED
    BY <2>1, <2>2 DEF Greets
<1>7. OutputCells'
  BY <1>4, OutputRange DEF OutputStands, OutputCells, output_text
<1>8. mem'[forth_ptr] = SystemAt(11) /\ mem'[here_ptr] = LastSystemCell
  BY <1>5 DEF OutputStands, Greets
<1>9. QED
  BY <1>6, <1>7, <1>8 DEF OutputStands, Greets, forth_ptr, here_ptr

\* The shell's own word is put over OUTPUT.
LEMMA CustomAdded ==
    ASSUME DictInv, DictInv', [Tame]_shellVars, OutputStands, Greets, Speaking, BannerPrinted,
           status' # "undefined"
    PROVE  OutputStands'
<1>1. PICK s : Chained(mem, s)
  BY DEF DictInv
<1>2. Greets => Interprets
  BY DEF Speaking, OwnLine, Greets
<1>3. /\ \A a \in (output_text - 3) .. LastSystemCell : a \in KeptCells
      /\ Len(s) = 12
  BY <1>1, <1>2, OutputIsCode
<1>4. Fits(mem, here_ptr, 7) /\ mem' = Added(Reloaded, TEXT, "CUSTOM", Calling("custom")) /\ at' = "process"
  BY DEF BannerPrinted
<1>5. Tame
  <2>1. at = "run"
    BY DEF BannerPrinted
  <2>2. QED
    BY <1>4, <2>1 DEF shellVars
<1>6. ShellTypeOK /\ RegistersOK
  BY DEF DictInv, ShellTypeOK
<1>7. Careful(KeptCells) /\ Heads(s) \subseteq KeptCells
  BY <1>1, <1>5, <1>6, TameIsCareful
<1>8. Adds(KeptCells, mem, mem')
  <2> DEFINE ws == Calling("custom")
             token == "CUSTOM"
  <2>1. token \in Tokens
    BY ShellAssumption
  <2>2. ws \in Seq(Word) /\ Len(ws) + 3 = 7
    BY CodeIsWord DEF Calling
  <2>3. mem' = Added(Reloaded, TEXT, token, ws)
    BY <1>4
  <2>4. TEXT \in {VAR, CONST, TEXT}
    OBVIOUS
  <2> HIDE DEF ws, token
  <2>5. Adds(KeptCells, mem, Added(Reloaded, TEXT, token, ws))
    BY <1>4, <1>6, <1>7, <2>1, <2>2, <2>4, ReloadedLeaves, AddingAdds DEF Careful
  <2>6. QED
    BY <2>3, <2>5
<1> DEFINE h == mem[here_ptr] + 1
           t == <<h>> \o s
<1>9. Chained(mem', t)
  BY <1>1, <1>7, <1>8, AddingChained
<1>10. \A a \in (output_text - 3) .. LastSystemCell : mem'[a] = mem[a]
  BY <1>3, <1>8 DEF Adds
<1>11. OutputCells'
  BY <1>10, OutputRange DEF OutputStands, OutputCells, output_text
<1>12. ~Greets'
  BY <1>4 DEF Greets, ShellSpeaks
<1>13. MemoryOK(mem')
  BY MemoryIsTyped DEF DictInv, ShellTypeOK, MemoryOK, RegistersOK
<1>14. WordList(mem') = t
  BY <1>9, <1>13, ListIsChain
<1>15. h > LastSystemCell
  <2>1. mem[here_ptr] = LastSystemCell /\ LastSystemCell \in Int
    BY DictAssumption DEF OutputStands, Greets, LastSystemCell
  <2>2. QED
    BY <2>1
<1>16. Len(s) \in Nat /\ s \in Seq(Word) /\ h \in Word
  <2>1. Len(s) \in Nat /\ s \in Seq(Word)
    BY <1>1, ChainIsInt DEF Chained, Linked
  <2>2. {h, h + 1, h + 2} \subseteq Ram
    BY <1>8 DEF Adds
  <2>3. h \in Ram
    BY <2>2
  <2> HIDE DEF h
  <2>4. h \in Word
    BY <2>3, LayoutAssumption DEF Cells
  <2>5. QED
    BY <2>1, <2>4
<1> HIDE DEF h
<1>17. Len(t) = 13 /\ t[1] = h
  <2>1. Len(s) > 11 /\ Len(s) + 1 = 13
    BY <1>3
  <2>2. QED
    BY <1>16, <2>1, ListPut
<1> HIDE DEF t
<1>18. Len(t) > 12 /\ t[Len(t) - 12] > LastSystemCell
  BY <1>15, <1>17
<1>19. QED
  BY <1>11, <1>12, <1>14, <1>18 DEF OutputStands, Greets

-----------------------------------------------------------------------------
(* A line of the user's.                                                    *)

\* STATE after a token has been read.
LEMMA StateAfterToken ==
    ASSUME RegistersOK, mem' = TokenRead
    PROVE  StateKnown' <=> StateKnown
<1>1. mem'[state_ptr] = mem[state_ptr]
  BY PlacesDiffer DEF TokenRead, RegistersOK
<1>2. QED
  BY <1>1 DEF StateKnown, state_ptr

\* A line is compiled to its end or to an error; only then does err tell more than "OK".
LEMMA CompileErr ==
    ASSUME RegistersOK, LineErr, job = "line", forth_compile, status' # "undefined"
    PROVE  LineErr'
<1>1. at = "word" /\ err = "OK"
  BY DEF forth_compile, Compiling
<1>2. CASE RejectState
  <2>1. ~StateKnown'
    BY <1>2, StateAfterToken DEF RejectState, Rejects
  <2>2. at' = "word"
    BY <1>1, <1>2 DEF RejectState, Rejects
  <2>3. QED
    BY <2>1, <2>2 DEF LineErr
<1>3. CASE at' \in {"word", "immediate"} /\ err' = "OK"
  BY <1>3 DEF LineErr
<1>4. CASE at' = "word" /\ err' \in {"WORD_NOT_FOUND", "COMPILE_ONLY"}
  BY <1>4 DEF LineErr
<1>5. ~StopsUndefined
  BY DEF StopsUndefined, Undefined
<1>6. QED
  BY <1>1, <1>2, <1>3, <1>4, <1>5 DEF forth_compile, Rejects, RejectCompileOnly, RunImmediate, PushImmediate,
     CompileWord, CompilesCode, CompileNumber, RejectUnknown

\* The RET behind a line leaves STATE alone.
LEMMA EndErr ==
    ASSUME DictInv, Tame, LineErr, job = "line", EndOfLine, status' # "undefined"
    PROVE  LineErr'
<1>1. RegistersOK /\ MemoryOK(mem)
  BY MemoryIsTyped DEF DictInv, ShellTypeOK
<1>2. at = "word" /\ at' = "compiled" /\ UNCHANGED <<job, err>>
  BY DEF EndOfLine
<1>3. Fits(mem, sandbox_ptr, 1) /\ mem' = Appended(mem, sandbox_ptr, <<Op.RET>>)
  BY DEF EndOfLine
<1> DEFINE ws == <<Op.RET>>
<1>4. Len(ws) = 1
  OBVIOUS
<1>5. mem[sandbox_ptr] + 1 < DictBase
  <2>1. mem'[sandbox_ptr] = mem[sandbox_ptr] + 1
    BY <1>1, <1>3, <1>4, OwnPlaces DEF Appended, MemoryOK
  <2>2. QED
    BY <2>1 DEF Tame
<1>6. mem[here_ptr] >= DictBase + 48
  BY HereIsHigh
<1>7. mem'[state_ptr] = mem[state_ptr]
  <2>1. Fits(mem, sandbox_ptr, Len(ws)) /\ mem' = Appended(mem, sandbox_ptr, ws)
        /\ mem[sandbox_ptr] + Len(ws) < DictBase /\ Len(ws) \in Nat
    BY <1>3, <1>4, <1>5
  <2> HIDE DEF ws
  <2>2. \A c \in Variables : c # sandbox_ptr => mem'[c] = mem[c]
    BY <1>1, <1>6, <2>1, AppendsAt
  <2>3. QED
    BY <2>2, PlacesDiffer DEF Variables
<1>8. StateKnown' <=> StateKnown
  BY <1>7 DEF StateKnown, state_ptr
<1>9. QED
  BY <1>2, <1>8 DEF LineErr

\* The machine runs in the middle of a line.
LEMMA MachineTurn ==
    ASSUME FreshInv, VMStep \/ NativeStep
    PROVE  UNCHANGED <<job, at, err, typed, kept>> /\ at \in {"immediate", "run"}
<1>1. UNCHANGED <<job, at, err, typed, kept>>
  BY DEF VMStep, NativeStep
<1>2. VMStep => status = "running"
  BY InstructionStays DEF VMStep, Leave
<1>3. NativeStep => status = "running" \/ (status = "idle" /\ brackets # <<>>)
  <2>1. Native => status = "running"
    BY SilentStays, PrintingStays, BracketStays DEF Native, FreshInv
  <2>2. QED
    BY <2>1 DEF NativeStep, right_bracket_returns
<1>4. QED
  BY <1>1, <1>2, <1>3 DEF FreshInv

LEMMA LineErrKept ==
    ASSUME DictInv, FreshInv, [Next]_shellVars, [Tame]_shellVars, LineErr, status # "undefined",
           status' # "undefined"
    PROVE  LineErr'
<1>1. RegistersOK
  BY DEF DictInv, ShellTypeOK
<1>2. CASE UNCHANGED shellVars
  <2>1. UNCHANGED <<job, at, err, mem>>
    BY <1>2 DEF shellVars, vmVars
  <2>2. QED
    BY <2>1 DEF LineErr, StateKnown, state_ptr
<1>3. CASE VMStep \/ NativeStep
  BY <1>3, MachineTurn DEF LineErr
<1>4. CASE CompileLine
  <2>1. job' = job
    BY <1>4 DEF CompileLine, forth_compile, RejectState, Rejects, StopsUndefined, RejectCompileOnly, RunImmediate,
       PushImmediate, CompileWord, CompilesCode, CompileNumber, RejectUnknown, ImmediateReturns, EndOfLine
  <2>2. CASE forth_compile
    BY <1>1, <2>1, <2>2, CompileErr DEF LineErr
  <2>3. CASE ImmediateReturns
    BY <2>1, <2>3 DEF LineErr, ImmediateReturns
  <2>4. CASE EndOfLine
    <3>1. Tame \/ UNCHANGED shellVars
      OBVIOUS
    <3>2. QED
      BY <1>2, <2>1, <2>4, <3>1, EndErr DEF LineErr
  <2>5. QED
    BY <1>4, <2>2, <2>3, <2>4 DEF CompileLine
<1>5. CASE Process
  BY <1>5 DEF Process, LineErr, PromptUser, ReadLine, LineCompiled, ReportCompiled, LineRejected,
     PromptPrinted, LineRan, ReportPrinted, BannerPrinted, Issues, Reports, Returning, RunSandbox
<1>6. QED
  BY <1>2, <1>3, <1>4, <1>5 DEF Next, Running, Over

\* The shell's own word is laid behind HERE.
LEMMA CustomLaid ==
    ASSUME DictInv, Fits(mem, here_ptr, 7), mem' = Added(Reloaded, TEXT, "CUSTOM", Calling("custom"))
    PROVE  /\ \A c \in Variables : mem'[c] = Reloaded[c]
           /\ \A c \in Memory : c \notin Ram => mem'[c] = Reloaded[c]
<1>0. RegistersOK /\ DOMAIN mem = Memory
  BY DEF DictInv, ShellTypeOK, RegistersOK
<1> DEFINE m == Reloaded
           ws == <<HeaderMark + TEXT, Name["CUSTOM"], m[forth_ptr]>> \o Calling("custom")
<1>1. MemoryOK(m)
  BY <1>0, ReloadedTyped
<1>2. m[here_ptr] = mem[here_ptr]
  BY <1>0, PlacesDiffer, PlacesOfVariables DEF Reloaded, Pointers
<1>3. m[here_ptr] >= DictBase + 48
  BY <1>2, HereIsHigh
<1>4. Len(ws) = 7
  BY DEF Calling
<1>5. Fits(m, here_ptr, Len(ws)) /\ Len(ws) \in Nat
  BY <1>2, <1>4 DEF Fits
<1>6. mem' = [Appended(m, here_ptr, ws) EXCEPT ![forth_ptr] = m[here_ptr] + 1]
  BY DEF Added
<1>7. here_ptr # sandbox_ptr /\ here_ptr \in {here_ptr, sandbox_ptr}
  BY PlacesDiffer
<1>8. /\ \A c \in Variables : c # here_ptr /\ c # forth_ptr /\ c \in Memory
      /\ forth_ptr \in Ram
  BY PlacesOfVariables DEF Pointers
<1> HIDE DEF m, ws
<1> DEFINE m2 == Appended(m, here_ptr, ws)
<1>9. /\ \A c \in Variables : c # here_ptr => m2[c] = m[c]
      /\ \A c \in Memory : c \notin Ram => m2[c] = m[c]
  BY <1>1, <1>3, <1>5, <1>7, AppendsAt
<1>10. DOMAIN m2 = Memory
  BY <1>1 DEF Appended, MemoryOK
<1>11. mem' = [m2 EXCEPT ![forth_ptr] = m[here_ptr] + 1]
  BY <1>6
<1> HIDE DEF m2
<1>12. \A c \in Memory : c # forth_ptr => mem'[c] = m2[c]
  BY <1>10, <1>11
<1>13. QED
  BY <1>8, <1>9, <1>12 DEF m

\* The shell waits with an empty sandbox.
LEMMA WaitsKept ==
    ASSUME DictInv, FreshInv, [Next]_shellVars, WaitsClean, status # "undefined", status' # "undefined"
    PROVE  WaitsClean'
<1>1. RegistersOK /\ DOMAIN mem = Memory
  BY DEF DictInv, ShellTypeOK, RegistersOK
<1>2. ASSUME mem' = Reloaded
      PROVE  WaitsClean'
  BY <1>1, <1>2, ReloadedIs DEF WaitsClean, Empty, in_ptr, sandbox_ptr
<1>3. ASSUME UNCHANGED mem, at \in {"process", "line"}
      PROVE  WaitsClean'
  BY <1>3 DEF WaitsClean, Empty, in_ptr, sandbox_ptr
<1>4. CASE UNCHANGED shellVars
  <2>1. UNCHANGED <<at, mem>>
    BY <1>4 DEF shellVars, vmVars
  <2>2. QED
    BY <1>3, <2>1 DEF WaitsClean
<1>5. CASE VMStep \/ NativeStep
  BY <1>5, MachineTurn DEF WaitsClean
<1>6. CASE CompileLine
  <2>1. at' \notin {"process", "line"}
    BY <1>6 DEF CompileLine, forth_compile, Compiling, RejectState, Rejects, StopsUndefined, RejectCompileOnly,
       RunImmediate, PushImmediate, CompileWord, CompilesCode, CompileNumber, RejectUnknown, ImmediateReturns,
       EndOfLine
  <2>2. QED
    BY <2>1 DEF WaitsClean
<1>7. CASE BannerPrinted
  <2>1. Fits(mem, here_ptr, 7) /\ mem' = Added(Reloaded, TEXT, "CUSTOM", Calling("custom"))
    BY <1>7 DEF BannerPrinted
  <2>2. \A c \in Variables : mem'[c] = Reloaded[c]
    BY <1>1, <2>1, CustomLaid
  <2>3. mem'[in_ptr] = 0 /\ mem'[sandbox_ptr] = SandboxBase - 1
    BY <1>1, <2>2, ReloadedIs DEF Variables
  <2>4. QED
    BY <2>3 DEF WaitsClean, Empty, in_ptr, sandbox_ptr
<1>8. CASE PromptUser \/ ReadLine
  BY <1>3, <1>8 DEF PromptUser, ReadLine
<1>9. CASE LineCompiled \/ ReportCompiled
  BY <1>9 DEF LineCompiled, ReportCompiled, RunSandbox, WaitsClean
<1>10. CASE LineRejected \/ PromptPrinted \/ LineRan \/ ReportPrinted
  BY <1>2, <1>10 DEF LineRejected, PromptPrinted, LineRan, ReportPrinted, Reports, Returning
<1>11. QED
  BY <1>4, <1>5, <1>6, <1>7, <1>8, <1>9, <1>10 DEF Next, Running, Process, Over

-----------------------------------------------------------------------------
(* The shell begins a line of its own.                                      *)

\* The user's stack is a sequence of words, and lies at sp.
LEMMA UserStackIs ==
    ASSUME RegistersOK
    PROVE  /\ UserStack \in Seq(Word) /\ Len(UserStack) = StackTop - sp
           /\ \A i \in 1 .. Len(UserStack) : /\ UserStack[i] = mem[sp + i - 1]
                                             /\ sp + i - 1 \in Memory /\ sp + i - 1 \notin Ram
<1> DEFINE n == StackTop - sp
<1>1. n \in Nat /\ StackTop \in Int /\ sp \in Int /\ sp >= StackLo /\ StackLo \in Int
  BY LayoutAssumption DEF RegistersOK
<1>2. \A i \in 1 .. n : sp + i - 1 \in Memory /\ sp + i - 1 \notin Ram /\ mem[sp + i - 1] \in Word
  <2> TAKE i \in 1 .. n
  <2>1. sp + i - 1 \in Stack
    BY <1>1 DEF Stack
  <2>2. sp + i - 1 \in Memory /\ sp + i - 1 \notin Ram
    BY <2>1, LayoutAssumption DEF Memory, Cells
  <2>3. QED
    BY <2>2 DEF RegistersOK
<1> HIDE DEF n
<1> DEFINE f(i) == mem[sp + i - 1]
<1>3. UserStack = [i \in 1 .. n |-> f(i)] /\ \A i \in 1 .. n : f(i) \in Word
  BY <1>2 DEF UserStack, n
<1> HIDE DEF f
<1>4. UserStack \in Seq(Word) /\ Len(UserStack) = n
  BY <1>1, <1>2, <1>3
<1>5. \A i \in 1 .. n : UserStack[i] = mem[sp + i - 1]
  BY <1>3 DEF f
<1>6. QED
  BY <1>2, <1>4, <1>5 DEF n

LEMMA IssuedSpeaks ==
    ASSUME RegistersOK, ScreenOK', OwnLine', kept' = Now, HostIdle, UNCHANGED <<status, brackets, sp>>,
           at' = "word", err' = "OK", flags' = {},
           \A c \in Memory : c \notin Ram => mem'[c] = mem[c],
           mem'[in_ptr] = 0, mem'[sandbox_ptr] = SandboxBase - 1
    PROVE  Speaking'
<1>1. kept'.stack = UserStack /\ kept'.printed = Len(screen')
  BY DEF Now
<1>2. Len(screen') \in Nat
  BY DEF ScreenOK
<1>3. UserStack \in Seq(Word) /\ Len(UserStack) = StackTop - sp
  BY UserStackIs
<1>4. Base' = sp
  <2>1. StackTop - (StackTop - sp) = sp
    BY LayoutAssumption DEF RegistersOK
  <2>2. QED
    BY <1>1, <1>3, <2>1 DEF Base
<1>5. \A i \in 1 .. Len(kept'.stack) : mem'[sp + i - 1] = kept'.stack[i]
  BY <1>1, UserStackIs
<1>6. UserKept'
  <2>1. sp >= StackLo
    BY LayoutAssumption DEF RegistersOK
  <2>2. \A i \in 1 .. Len(kept'.stack) : mem'[Base' + i - 1] = kept'.stack[i]
    BY <1>4, <1>5
  <2>3. QED
    BY <1>1, <1>3, <1>4, <2>1, <2>2 DEF UserKept
<1>7. OnTop(0)'
  <2>1. sp - 0 = sp
    BY LayoutAssumption DEF RegistersOK
  <2>2. QED
    BY <1>4, <2>1 DEF OnTop
<1>8. Begun'
  BY <1>1, <1>7 DEF Begun, Rests, Silent, Empty, HostIdle, in_ptr, sandbox_ptr
<1>9. brackets' = <<>> /\ kept'.printed \in Nat
  BY <1>1, <1>2 DEF HostIdle
<1>10. QED
  BY <1>6, <1>8, <1>9 DEF Speaking

LEMMA ReloadedKeeps ==
    ASSUME RegistersOK, mem' = Reloaded
    PROVE  /\ \A c \in Memory : c \notin Ram => mem'[c] = mem[c]
           /\ mem'[in_ptr] = 0 /\ mem'[sandbox_ptr] = SandboxBase - 1
           /\ mem'[state_ptr] = mem[state_ptr]
<1>1. in_ptr \in Ram /\ sandbox_ptr \in Ram /\ DOMAIN mem = Memory
  BY PlacesAreCells DEF Places, RegistersOK
<1>2. mem'[in_ptr] = 0 /\ mem'[sandbox_ptr] = SandboxBase - 1
  BY <1>1, ReloadedIs
<1>3. \A c \in Memory : c # in_ptr /\ c # sandbox_ptr => mem'[c] = mem[c]
  BY <1>1 DEF Reloaded
<1>4. state_ptr \in Memory /\ state_ptr # in_ptr /\ state_ptr # sandbox_ptr
  BY OwnPlaces, PlacesDiffer
<1>5. QED
  BY <1>1, <1>2, <1>3, <1>4

\* The reports the loop issues.
LEMMA ReportSpeaks ==
    ASSUME RegistersOK, ScreenOK', HostIdle, NEW line \in OwnReports, Reports(line)
    PROVE  Speaking'
<1>1. /\ mem' = Reloaded /\ flags' = {} /\ strbuf' = line /\ job' = "report" /\ at' = "word" /\ err' = "OK"
      /\ kept' = Now /\ UNCHANGED <<sp, status, brackets>>
  BY DEF Reports, Issues, MachineUnchanged
<1>2. OwnLine'
  BY <1>1 DEF OwnLine, OwnReports
<1>3. /\ \A c \in Memory : c \notin Ram => mem'[c] = mem[c]
      /\ mem'[in_ptr] = 0 /\ mem'[sandbox_ptr] = SandboxBase - 1
  BY <1>1, ReloadedKeeps
<1>4. QED
  BY <1>1, <1>2, <1>3, IssuedSpeaks

LEMMA PromptSpeaks ==
    ASSUME RegistersOK, FreshInv, ScreenOK', WaitsClean, PromptUser, at' # "line"
    PROVE  Speaking'
<1>1. /\ HostIdle /\ at = "process" /\ mem[state_ptr] = False /\ Issues("prompt", Prompt)
      /\ UNCHANGED <<sp, mem, flags, status, brackets>>
  BY DEF PromptUser, MachineUnchanged
<1>2. flags' = {}
  BY <1>1 DEF FreshInv, HostIdle
<1>3. OwnLine'
  BY <1>1 DEF OwnLine, Issues, Interprets, state_ptr
<1>4. mem'[in_ptr] = 0 /\ mem'[sandbox_ptr] = SandboxBase - 1
  BY <1>1 DEF WaitsClean, Empty
<1>5. QED
  BY <1>1, <1>2, <1>3, <1>4, IssuedSpeaks DEF Issues

\* The shell begins to speak with a prompt or a report.
LEMMA BeginsToSpeak ==
    ASSUME [Next]_shellVars, FreshInv, ~ShellSpeaks, ShellSpeaks'
    PROVE  \/ PromptUser /\ at' # "line"
           \/ \E line \in OwnReports : HostIdle /\ job = "line" /\ Reports(line) /\ at \in {"compiled", "run"}
<1>1. ~UNCHANGED shellVars
  BY DEF shellVars, ShellSpeaks
<1>2. ~VMStep /\ ~NativeStep
  BY MachineTurn DEF ShellSpeaks
<1>3. ~CompileLine
  <2>1. CompileLine => job' = job /\ at \notin {"process", "line", "exit"}
    BY DEF CompileLine, forth_compile, Compiling, RejectState, Rejects, StopsUndefined, RejectCompileOnly, RunImmediate,
       PushImmediate, CompileWord, CompilesCode, CompileNumber, RejectUnknown, ImmediateReturns, EndOfLine
  <2>2. QED
    BY <2>1 DEF ShellSpeaks
<1>4. Process
  BY <1>1, <1>2, <1>3 DEF Next, Running, Over
<1>5. ~LineCompiled /\ ~ReportCompiled /\ ~ReportPrinted /\ ~PromptPrinted /\ ~BannerPrinted /\ ~ReadLine
  BY DEF LineCompiled, ReportCompiled, ReportPrinted, PromptPrinted, BannerPrinted, ReadLine, RunSandbox, ShellSpeaks,
     Issues
<1>6. ~Returning
  BY DEF Returning, ShellSpeaks
<1>7. CASE PromptUser
  BY <1>7 DEF ShellSpeaks
<1>8. CASE LineRejected
  BY <1>6, <1>8 DEF LineRejected, OwnReports
<1>9. CASE LineRan
  BY <1>6, <1>9 DEF LineRan, OwnReports
<1>10. QED
  BY <1>4, <1>5, <1>7, <1>8, <1>9 DEF Process

\* A step that changes nothing changes nothing of this.
LEMMA SameOwn ==
    ASSUME UNCHANGED shellVars, ShellSpeaks => Speaking, OutputStands
    PROVE  (ShellSpeaks => Speaking)' /\ OutputStands'
  BY DEF shellVars, vmVars, wordVars, ShellSpeaks, Speaking, OutputStands, OutputCells, OwnLine, UserKept, Base,
     Interprets, Begun, Refused, Quoting, Quoted, Finished, Printing, Passing, Laid, Closed, TextLaid, Empty,
     Taken, Spoilt, StateKnown, Runs, Stopping, Rests, OnTop, Cell, Silent, Spoken, PrintPoint, FirstRuns, LastRuns, OutputRuns,
     OwnText, in_ptr, sandbox_ptr, state_ptr, output_text, here_ptr, forth_ptr, WordList, LastSystemCell

\* What the shell's own lines rely on is kept by all steps.
LEMMA OwnInvKept ==
    ASSUME DictInv, DictInv', FreshInv, ScreenOK, ScreenOK', DotQuoteIsSeen, [Next]_shellVars, [Tame]_shellVars,
           OwnInv
    PROVE  OwnInv'
<1> SUFFICES ASSUME status' # "undefined"
             PROVE  (ShellSpeaks => Speaking)' /\ LineErr' /\ OutputStands' /\ WaitsClean'
  BY DEF OwnInv
<1>1. CASE status = "undefined"
  <2>1. status' = status
    <3>1. ~VMStep /\ ~NativeStep
      <4>1. VMStep => status = "running"
        BY InstructionStays DEF VMStep, Leave
      <4>2. Native => status = "running"
        BY SilentStays, PrintingStays, BracketStays DEF Native, FreshInv
      <4>3. QED
        BY <1>1, <4>1, <4>2 DEF NativeStep, right_bracket_returns
    <3>2. ~CompileLine /\ ~Process
      BY <1>1 DEF CompileLine, forth_compile, Compiling, ImmediateReturns, EndOfLine, Process, HostIdle,
         PromptUser, ReadLine, LineCompiled, ReportCompiled, LineRejected, PromptPrinted, LineRan, ReportPrinted,
         BannerPrinted
    <3>3. QED
      BY <3>1, <3>2 DEF Next, Running, Over, shellVars, vmVars
  <2>2. QED
    BY <1>1, <2>1
<1>2. CASE status # "undefined"
  <2>1. (ShellSpeaks => Speaking) /\ LineErr /\ OutputStands /\ WaitsClean
    BY <1>2 DEF OwnInv
  <2>2. LineErr' /\ WaitsClean'
    BY <1>2, <2>1, LineErrKept, WaitsKept
  <2>3. RegistersOK
    BY DEF DictInv, ShellTypeOK
  <2>4. CASE ShellSpeaks
    <3>1. PICK S : screen \in Seq(S)
      BY DEF ScreenOK
    <3>2. OutputCells /\ Speaking
      BY <2>1, <2>4 DEF OutputStands
    <3>3. UNCHANGED shellVars \/ OwnStep \/ LineOver
      <4>1. UNCHANGED shellVars \/ Halts \/ OwnStep \/ LineOver
        BY <1>2, <2>4, <3>1, <3>2, OwnLineGoes
      <4>2. QED
        BY <4>1 DEF Halts
    <3>4. CASE UNCHANGED shellVars
      BY <2>1, <2>2, <3>4, SameOwn
    <3>5. CASE OwnStep
      <4>1. Speaking' /\ UNCHANGED job
        BY <3>5 DEF OwnStep
      <4>2. CASE Greets
        BY <2>1, <2>2, <3>2, <3>5, <4>1, <4>2, GreetingKept
      <4>3. CASE ~Greets
        BY <2>1, <2>2, <4>1, <4>3, OutputKept
      <4>4. QED
        BY <4>2, <4>3
    <3>6. CASE LineOver
      <4>1. ~ShellSpeaks'
        BY <3>6 DEF LineOver, PromptPrinted, ReportPrinted, BannerPrinted, Returning, ShellSpeaks
      <4>2. CASE Greets
        <5>1. BannerPrinted
          BY <3>6, <4>2 DEF LineOver, PromptPrinted, ReportPrinted, Greets
        <5>2. QED
          BY <2>1, <2>2, <3>2, <4>1, <4>2, <5>1, CustomAdded
      <4>3. CASE ~Greets
        BY <2>1, <2>2, <4>1, <4>3, OutputKept
      <4>4. QED
        BY <4>2, <4>3
    <3>7. QED
      BY <3>3, <3>4, <3>5, <3>6
  <2>5. CASE ~ShellSpeaks
    <3>1. OutputStands'
      BY <2>1, <2>5, OutputKept DEF Greets
    <3>2. ASSUME ShellSpeaks'
          PROVE  Speaking'
      BY <2>1, <2>3, <2>5, <3>2, BeginsToSpeak, PromptSpeaks, ReportSpeaks
    <3>3. QED
      BY <2>2, <3>1, <3>2
  <2>6. QED
    BY <2>4, <2>5
<1>3. QED
  BY <1>1, <1>2

-----------------------------------------------------------------------------
(* How the shell starts.                                                    *)

\* What the RAM holds of the texts of the shell's own words.
LEMMA ImageOfTexts ==
    ASSUME NEW i \in 1 .. 11, NEW k \in 1 .. (SystemSize(i) - 3)
    PROVE  RamImage[SystemAt(i) + (k + 2)] = SystemWords[i].text[k]
<1> DEFINE head == SystemHead(i)
           text == SystemWords[i].text
           c == head \o text
<1>1. /\ SystemCells(i) = c /\ head \in Seq(Word) /\ Len(head) = 3 /\ text \in Seq(Word)
      /\ Len(text) + 3 = SystemSize(i)
  BY SystemParts
<1> HIDE DEF head, text
<1>2. \A j \in 1 .. (Len(head) + Len(text)) : c[j] = IF j <= Len(head) THEN head[j] ELSE text[j - Len(head)]
  BY <1>1, ConcatProperties
<1> HIDE DEF c
<1>3. SystemSize(i) \in {4, 7} /\ SystemAt(i) \in Int
  BY SystemOrder DEF SystemSize
<1>4. Len(text) \in Nat
  BY <1>1
<1> DEFINE n == Len(text)
           j == k + 3
<1>5. j \in 1 .. SystemSize(i) /\ j \in 1 .. (3 + n) /\ ~(j <= 3) /\ j - 3 = k
  <2>1. n \in Nat /\ n + 3 = SystemSize(i)
    BY <1>1, <1>4
  <2> HIDE DEF n
  <2>2. QED
    BY <1>3, <2>1
<1>6. c[j] = text[k]
  BY <1>1, <1>2, <1>5
<1>7. SystemAt(i) + j - 1 = SystemAt(i) + (k + 2)
  BY <1>3
<1> HIDE DEF j
<1>8. RamImage[SystemAt(i) + j - 1] = SystemCells(i)[j]
  BY <1>5, RamImageIs
<1>9. QED
  BY <1>1, <1>6, <1>7, <1>8 DEF text

LEMMA ImageOfOwn ==
    /\ RamImage[in_ptr] = 0 /\ RamImage[state_ptr] = False /\ RamImage[sandbox_ptr] = SandboxBase - 1
    /\ RamImage[output_text - 3] = HeaderMark + TEXT
    /\ RamImage[output_text] = Op.PUSH /\ RamImage[output_text + 1] = Fn.output
    /\ RamImage[output_text + 2] = Op.C_EXEC /\ RamImage[output_text + 3] = Op.RET
<1>1. DictBase \in Nat
  BY DictAssumption
<1>2. /\ in_ptr = SystemAt(3) + (1 + 2) /\ state_ptr = SystemAt(4) + (1 + 2)
      /\ sandbox_ptr = SystemAt(5) + (1 + 2) /\ output_text - 3 = SystemAt(11)
      /\ output_text = SystemAt(11) + (1 + 2) /\ output_text + 1 = SystemAt(11) + (2 + 2)
      /\ output_text + 2 = SystemAt(11) + (3 + 2) /\ output_text + 3 = SystemAt(11) + (4 + 2)
  BY <1>1, SystemPlaces DEF in_ptr, state_ptr, sandbox_ptr, output_text
<1>3. /\ SystemWords[3].text[1] = 0 /\ SystemWords[4].text[1] = False /\ SystemWords[5].text[1] = SandboxBase - 1
      /\ SystemWords[11].flags = TEXT /\ SystemWords[11].text = Calling("output")
  BY DEF SystemWords, Entry
<1>4. /\ Calling("output")[1] = Op.PUSH /\ Calling("output")[2] = Fn.output
      /\ Calling("output")[3] = Op.C_EXEC /\ Calling("output")[4] = Op.RET
  BY DEF Calling
<1>5. /\ \A i \in 3 .. 5 : i \in 1 .. 11 /\ 1 \in 1 .. (SystemSize(i) - 3)
      /\ 11 \in 1 .. 11 /\ \A k \in 1 .. 4 : k \in 1 .. (SystemSize(11) - 3)
  BY DEF SystemSize
<1>6. \A i \in 3 .. 5 : RamImage[SystemAt(i) + (1 + 2)] = SystemWords[i].text[1]
  BY <1>5, ImageOfTexts
<1>7. \A k \in 1 .. 4 : RamImage[SystemAt(11) + (k + 2)] = Calling("output")[k]
  BY <1>3, <1>5, ImageOfTexts
<1>8. RamImage[SystemAt(11)] = HeaderMark + SystemWords[11].flags
  BY <1>5, ImageOfHeads
<1>9. 3 \in 3 .. 5 /\ 4 \in 3 .. 5 /\ 5 \in 3 .. 5
  OBVIOUS
<1>10. RamImage[in_ptr] = 0 /\ RamImage[state_ptr] = False /\ RamImage[sandbox_ptr] = SandboxBase - 1
  BY <1>2, <1>3, <1>6, <1>9
<1>11. 1 \in 1 .. 4 /\ 2 \in 1 .. 4 /\ 3 \in 1 .. 4 /\ 4 \in 1 .. 4
  OBVIOUS
<1>12. QED
  BY <1>2, <1>3, <1>4, <1>7, <1>8, <1>10, <1>11

LEMMA InitSpeaks == Init => OwnInv /\ ScreenOK
<1> SUFFICES ASSUME Init PROVE OwnInv /\ ScreenOK
  OBVIOUS
<1>1. \A a \in Ram : mem[a] = RamImage[a]
  BY InitMemory
<1>2. /\ sp = StackTop /\ status = "idle" /\ flags = {} /\ strbuf = Banner /\ screen = <<>> /\ brackets = <<>>
      /\ job = "banner" /\ at = "word" /\ err = "OK"
      /\ kept.stack = <<>> /\ kept.printed = 0
  BY DEF Init, vm_init
<1>3. /\ mem[in_ptr] = 0 /\ mem[state_ptr] = False /\ mem[sandbox_ptr] = SandboxBase - 1
  BY <1>1, ImageOfOwn, OwnPlaces
<1>4. Greets /\ ShellSpeaks
  BY <1>2 DEF Greets, ShellSpeaks
<1>5. OutputCells
  BY <1>1, ImageOfOwn, OutputRange DEF OutputCells
<1>6. OutputStands
  <2>1. mem[forth_ptr] = DictBase + 46 /\ mem[here_ptr] = DictBase + 52
    BY <1>1, ImageOfPointers, PlacesOfVariables DEF Pointers
  <2>2. QED
    BY <1>4, <1>5, <2>1, SystemPlaces DEF OutputStands, Greets, LastSystemCell
<1>7. Speaking
  <2>1. kept.stack \in Seq(Word) /\ Len(kept.stack) = 0 /\ Len(screen) = 0
    BY <1>2
  <2>2. Base = StackTop /\ StackTop >= StackLo /\ StackTop - 0 = StackTop
    BY <2>1, LayoutAssumption DEF Base
  <2>3. UserKept
    BY <2>1, <2>2 DEF UserKept
  <2>4. OnTop(0)
    BY <1>2, <2>2 DEF OnTop
  <2>5. Begun
    BY <1>2, <1>3, <2>1, <2>4 DEF Begun, Rests, Silent, Empty
  <2>6. QED
    BY <1>2, <1>3, <2>3, <2>5 DEF Speaking, OwnLine, Interprets
<1>8. LineErr /\ WaitsClean
  BY <1>2 DEF LineErr, WaitsClean
<1>9. ScreenOK
  <2>1. <<>> \in Seq({})
    OBVIOUS
  <2>2. QED
    BY <1>2, <2>1 DEF ScreenOK
<1>10. QED
  BY <1>6, <1>7, <1>8, <1>9 DEF OwnInv
-----------------------------------------------------------------------------
(* The session the shell's user sees.                                       *)

LEMMA PhaseIs == PhaseTells
<1>1. /\ at = "exit" => SessionPhase = "left"
      /\ at = "process" => SessionPhase = "ready"
      /\ at = "line" => SessionPhase = "waiting"
  <2>1. at \in {"exit", "process", "line"} => ~ShellSpeaks
    BY DEF ShellSpeaks
  <2>2. QED
    BY <2>1 DEF SessionPhase
<1>2. ASSUME ShellSpeaks
      PROVE  /\ job = "banner" => SessionPhase = "greeting"
             /\ job = "prompt" => SessionPhase = "asking"
             /\ job = "report" => SessionPhase = "answering"
  BY <1>2 DEF SessionPhase, ShellSpeaks
<1>3. ~ShellSpeaks /\ at \notin {"process", "line", "exit"} => SessionPhase = "working"
  BY DEF SessionPhase
<1>4. ~ShellSpeaks => SessionPhase # "answering"
  BY <1>1, <1>3
<1>5. QED
  BY <1>1, <1>2, <1>3, <1>4 DEF PhaseTells, SessionAnswer, SessionStack, SessionSaid

LEMMA PhaseNext == PhaseTells'
  BY PhaseIs, PTL

\* The mode is STATE's.
LEMMA SameMode ==
    ASSUME mem'[state_ptr] = mem[state_ptr]
    PROVE  SessionMode' = SessionMode
  BY DEF SessionMode, state_ptr

LEMMA ModeIs ==
    /\ Interprets <=> SessionMode = "interpret"
    /\ ~StateKnown => SessionMode = "unknown"
<1>1. False # True
  BY ModulusIs DEF False, True
<1>2. QED
  BY <1>1 DEF SessionMode, Interprets, StateKnown

\* What the shell has said itself.
LEMMA SaidIs ==
    /\ Speaking /\ Silent => SessionSaid = <<>>
    /\ Speaking /\ Spoken => SessionSaid = <<Name[OwnText]>>
<1>1. ASSUME Speaking, Silent PROVE SessionSaid = <<>>
  <2> DEFINE n == Len(screen) - kept.printed
  <2>1. n = 0
    BY <1>1 DEF Speaking, Silent
  <2> HIDE DEF n
  <2>2. SessionSaid = [i \in 1 .. n |-> screen[kept.printed + i][2]]
    BY <1>1, SpeakingSpeaks DEF SessionSaid, n
  <2>3. SessionSaid = [i \in 1 .. 0 |-> screen[kept.printed + i][2]]
    BY <2>1, <2>2
  <2>4. QED
    BY <2>3
<1>2. ASSUME Speaking, Spoken PROVE SessionSaid = <<Name[OwnText]>>
  <2> DEFINE n == Len(screen) - kept.printed
             f(i) == screen[kept.printed + i][2]
  <2>1. n = 1
    BY <1>2 DEF Speaking, Spoken
  <2>2. f(1) = Name[OwnText]
    BY <1>2 DEF Spoken
  <2> HIDE DEF n
  <2>3. SessionSaid = [i \in 1 .. n |-> f(i)]
    BY <1>2, SpeakingSpeaks DEF SessionSaid, n
  <2> HIDE DEF f
  <2>4. SessionSaid = [i \in 1 .. 1 |-> f(i)]
    BY <2>1, <2>3
  <2>5. SessionSaid = <<f(1)>>
    BY <2>4
  <2>6. QED
    BY <2>2, <2>5
<1>3. QED
  BY <1>1, <1>2

LEMMA SaidNext ==
    /\ Speaking' /\ Silent' => SessionSaid' = <<>>
    /\ Speaking' /\ Spoken' => SessionSaid' = <<Name[OwnText']>>
<1>1. (Speaking /\ Silent => SessionSaid = <<>>)'
  BY SaidIs, PTL
<1>2. (Speaking /\ Spoken => SessionSaid = <<Name[OwnText]>>)'
  BY SaidIs, PTL
<1>3. QED
  BY <1>1, <1>2

\* The user's stack is where it was when the shell has done speaking.
LEMMA StackBack ==
    ASSUME RegistersOK, Speaking, OnTop(0), UNCHANGED sp, \A c \in Memory : c \notin Ram => mem'[c] = mem[c]
    PROVE  UserStack' = kept.stack
<1>1. /\ Base \in Int /\ StackTop - Base = Len(kept.stack) /\ kept.stack \in Seq(Word)
      /\ \A i \in 1 .. Len(kept.stack) : /\ mem[Base + i - 1] = kept.stack[i]
                                         /\ Base + i - 1 \in Stack
  BY BaseIs DEF Speaking, UserKept
<1>2. sp' = Base
  BY <1>1 DEF OnTop
<1> DEFINE f(i) == mem'[Base + i - 1]
<1>3. \A i \in 1 .. Len(kept.stack) : f(i) = kept.stack[i]
  BY <1>1, LayoutAssumption DEF Memory, Cells
<1>4. UserStack' = [i \in 1 .. Len(kept.stack) |-> f(i)]
  <2> DEFINE n == StackTop - Base
  <2>1. UserStack' = [i \in 1 .. n |-> mem'[Base + i - 1]]
    BY <1>2 DEF UserStack
  <2> HIDE DEF n
  <2>2. n = Len(kept.stack)
    BY <1>1 DEF n
  <2>3. QED
    BY <2>1, <2>2
<1> HIDE DEF f
<1>5. kept.stack = [i \in 1 .. Len(kept.stack) |-> kept.stack[i]]
  BY <1>1
<1>6. QED
  BY <1>3, <1>4, <1>5

-----------------------------------------------------------------------------
(* Every step of the shell is a step of the session.                        *)

SessionMoves(from, to) == /\ SessionPhase = from /\ SessionPhase' = to
                   /\ SessionMode' = SessionMode /\ SessionStack' = SessionStack
SessionQuiet == SessionSaid' = <<>> /\ SessionAnswer' = "(none)"
SessionSays(t) == /\ SessionMode = "interpret" /\ SessionSaid = <<>> /\ SessionSaid' = <<t>>
            /\ SessionPhase' = SessionPhase /\ SessionMode' = SessionMode
            /\ SessionStack' = SessionStack /\ SessionAnswer' = SessionAnswer
Serves == [Served!Next]_(Served!sessionVars)

LEMMA Mirror ==
    /\ Served!sessionVars = <<SessionPhase, SessionMode, SessionStack, SessionAnswer, SessionSaid>>
    /\ \A from, to : SessionMoves(from, to) => Served!Moves(from, to)
    /\ SessionQuiet => Served!Quiet
    /\ \A t : SessionSays(t) => Served!Say(t)
<1>1. Served!sessionVars = <<SessionPhase, SessionMode, SessionStack, SessionAnswer, SessionSaid>>
  BY DEF Served!sessionVars, SessionMode, SessionStack, SessionAnswer, SessionSaid
<1>2. \A from, to : SessionMoves(from, to) => Served!Moves(from, to)
  BY DEF SessionMoves, Served!Moves, SessionMode, SessionStack
<1>3. SessionQuiet => Served!Quiet
  BY DEF SessionQuiet, Served!Quiet, Served!None, SessionAnswer, SessionSaid
<1>4. \A t : SessionSays(t) => Served!Say(t)
  BY DEF SessionSays, Served!Say, SessionMode, SessionStack, SessionAnswer, SessionSaid
<1>5. QED
  BY <1>1, <1>2, <1>3, <1>4

LEMMA SameSession ==
    ASSUME SessionPhase' = SessionPhase, SessionMode' = SessionMode, SessionStack' = SessionStack,
           SessionAnswer' = SessionAnswer, SessionSaid' = SessionSaid
    PROVE  Serves
<1>1. UNCHANGED Served!sessionVars
  BY Mirror DEF Served!sessionVars, SessionMode, SessionStack, SessionAnswer, SessionSaid
<1>2. QED
  BY <1>1 DEF Serves

\* The actions of the session.
LEMMA SessionActions ==
    /\ SessionMoves("greeting", "ready") /\ SessionSaid = <<Name[Banner[2]]>> /\ SessionQuiet => Serves
    /\ SessionMoves("ready", "asking") /\ SessionMode = "interpret" /\ SessionQuiet => Serves
    /\ SessionMoves("asking", "waiting") /\ SessionSaid = <<Name[Prompt[2]]>> /\ SessionQuiet => Serves
    /\ SessionMoves("ready", "waiting") /\ SessionMode # "interpret" /\ SessionQuiet => Serves
    /\ SessionMoves("waiting", "working") /\ SessionQuiet => Serves
    /\ SessionMoves("waiting", "left") /\ SessionQuiet => Serves
    /\ SessionPhase = "working" /\ SessionPhase' = "working" /\ SessionQuiet => Serves
    /\ \A line \in OwnReports :
          SessionMoves("working", "answering") /\ SessionAnswer' = Name[line[2]] /\ SessionSaid' = <<>> => Serves
    /\ SessionMoves("working", "ready") /\ SessionMode # "interpret" /\ SessionQuiet => Serves
    /\ /\ SessionMoves("answering", "ready") /\ SessionQuiet
       /\ SessionSaid = IF SessionMode = "interpret" THEN <<SessionAnswer>> ELSE <<>>
       => Serves
    /\ \A phase \in {"working", "answering"} :
          SessionMoves(phase, "left") /\ SessionMode = "unknown" /\ SessionQuiet => Serves
    /\ SessionPhase = "greeting" /\ SessionSays(Name[Banner[2]]) => Serves
    /\ SessionPhase = "asking" /\ SessionSays(Name[Prompt[2]]) => Serves
    /\ SessionPhase = "answering" /\ SessionSays(SessionAnswer) => Serves
<1>1. SessionMoves("greeting", "ready") /\ SessionSaid = <<Name[Banner[2]]>> /\ SessionQuiet => Served!Greeted
  BY Mirror DEF Served!Greeted, SessionSaid
<1>2. SessionMoves("ready", "asking") /\ SessionMode = "interpret" /\ SessionQuiet => Served!Ask
  BY Mirror DEF Served!Ask, SessionMode
<1>3. SessionMoves("asking", "waiting") /\ SessionSaid = <<Name[Prompt[2]]>> /\ SessionQuiet => Served!Await
  BY Mirror DEF Served!Await, SessionSaid
<1>4. SessionMoves("ready", "waiting") /\ SessionMode # "interpret" /\ SessionQuiet => Served!Resume
  BY Mirror DEF Served!Resume, SessionMode
<1>5. SessionMoves("waiting", "working") /\ SessionQuiet => Served!Enter
  BY Mirror DEF Served!Enter
<1>6. SessionMoves("waiting", "left") /\ SessionQuiet => Served!Leave
  BY Mirror DEF Served!Leave
<1>7. SessionPhase = "working" /\ SessionPhase' = "working" /\ SessionQuiet => Served!Work
  BY Mirror DEF Served!Work
<1>8. \A a : SessionMoves("working", "answering") /\ SessionAnswer' = a /\ SessionSaid' = <<>> => Served!Answer(a)
  BY Mirror DEF Served!Answer, SessionAnswer, SessionSaid
<1>9. SessionMoves("working", "ready") /\ SessionMode # "interpret" /\ SessionQuiet => Served!Accept
  BY Mirror DEF Served!Accept, SessionMode
<1>10. /\ SessionMoves("answering", "ready") /\ SessionQuiet
       /\ SessionSaid = IF SessionMode = "interpret" THEN <<SessionAnswer>> ELSE <<>>
       => Served!Answered
  BY Mirror DEF Served!Answered, SessionMode, SessionAnswer, SessionSaid
<1>11. \A phase \in {"working", "answering"} :
          SessionMoves(phase, "left") /\ SessionMode = "unknown" /\ SessionQuiet => Served!Stop
  <2> TAKE phase \in {"working", "answering"}
  <2> SUFFICES ASSUME SessionMoves(phase, "left"), SessionMode = "unknown", SessionQuiet PROVE Served!Stop
    OBVIOUS
  <2>1. Served!Moves(phase, "left") /\ Served!Quiet
    BY Mirror
  <2>2. SessionPhase = phase
    BY DEF SessionMoves
  <2>3. QED
    BY <2>1, <2>2 DEF Served!Stop, SessionMode
<1>12. \A line \in OwnReports : Name[line[2]] \in {Name[l[2]] : l \in {OkReport, StackUnderflowReport,
                    ZeroDivisionReport, NotFoundReport, CompileOnlyReport}}
  BY DEF OwnReports
<1>13. \A line \in OwnReports : Served!Answer(Name[line[2]]) => Served!Next
  BY <1>12 DEF Served!Next
<1>14. /\ SessionPhase = "greeting" /\ SessionSays(Name[Banner[2]]) => Served!Next
       /\ SessionPhase = "asking" /\ SessionSays(Name[Prompt[2]]) => Served!Next
  BY Mirror DEF Served!Next
<1>15. SessionPhase = "answering" /\ SessionSays(SessionAnswer) => Served!Next
  <2> SUFFICES ASSUME SessionPhase = "answering", SessionSays(SessionAnswer) PROVE Served!Next
    OBVIOUS
  <2>1. Served!Say(SessionAnswer)
    BY DEF SessionSays, Served!Say, SessionMode, SessionStack, SessionAnswer, SessionSaid
  <2>2. QED
    BY <2>1 DEF Served!Next, SessionAnswer
<1>16. \/ Served!Greeted \/ Served!Ask \/ Served!Await \/ Served!Resume \/ Served!Enter \/ Served!Leave \/ Served!Work
       \/ Served!Accept \/ Served!Answered \/ Served!Stop
       => Served!Next
  BY DEF Served!Next
<1>17. Served!Next => Serves
  BY DEF Serves
<1> HIDE DEF Serves
<1>18. QED
  BY <1>1, <1>2, <1>3, <1>4, <1>5, <1>6, <1>7, <1>8, <1>9, <1>10, <1>11, <1>13, <1>14, <1>15, <1>16, <1>17

LEMMA SpeakingNext == Speaking' => ShellSpeaks' /\ job' \in {"banner", "prompt", "report"}
<1>1. Speaking => ShellSpeaks /\ job \in {"banner", "prompt", "report"}
  BY SpeakingSpeaks DEF Speaking, OwnLine
<1>2. (Speaking => ShellSpeaks /\ job \in {"banner", "prompt", "report"})'
  BY <1>1, PTL
<1>3. QED
  BY <1>2

\* A line of the shell's goes on: unseen, or it prints its text.
LEMMA OwnServes ==
    ASSUME Speaking, OwnStep
    PROVE  Serves
<1>1. /\ ShellSpeaks /\ ShellSpeaks' /\ Speaking' /\ UNCHANGED <<job, kept, strbuf>>
      /\ job \in {"banner", "prompt", "report"} /\ OwnText' = OwnText
  BY SpeakingSpeaks, SpeakingNext DEF OwnStep, OwnText
<1>2. SessionMode' = SessionMode
  BY SameMode DEF OwnStep, Words
<1>3. /\ SessionPhase' = SessionPhase /\ SessionStack' = SessionStack /\ SessionAnswer' = SessionAnswer
  BY <1>1, PhaseIs, PhaseNext DEF PhaseTells
<1>4. CASE screen' = screen
  <2>1. SessionSaid' = SessionSaid
    BY <1>1, <1>4 DEF SessionSaid
  <2>2. QED
    BY <1>2, <1>3, <2>1, SameSession
<1>5. CASE Interprets /\ Silent /\ Spoken'
  <2>1. SessionSaid = <<>> /\ SessionSaid' = <<Name[OwnText]>>
    BY <1>1, <1>5, SaidIs, SaidNext
  <2>2. SessionSays(Name[OwnText])
    BY <1>2, <1>3, <1>5, <2>1, ModeIs DEF SessionSays
  <2>3. CASE job = "banner"
    <3>1. Name[OwnText] = Name[Banner[2]] /\ SessionPhase = "greeting"
      BY <1>1, <2>3, PhaseIs DEF PhaseTells, Speaking, OwnLine, OwnText
    <3>2. QED
      BY <2>2, <3>1, SessionActions
  <2>4. CASE job = "prompt"
    <3>1. Name[OwnText] = Name[Prompt[2]] /\ SessionPhase = "asking"
      BY <1>1, <2>4, PhaseIs DEF PhaseTells, Speaking, OwnLine, OwnText
    <3>2. QED
      BY <2>2, <3>1, SessionActions
  <2>5. CASE job = "report"
    <3>1. Name[OwnText] = SessionAnswer /\ SessionPhase = "answering"
      BY <1>1, <2>5, PhaseIs DEF PhaseTells, OwnText
    <3>2. SessionSays(SessionAnswer)
      BY <2>1, <2>2, <3>1 DEF SessionSays
    <3>3. QED
      BY <3>1, <3>2, SessionActions
  <2>6. QED
    BY <1>1, <2>3, <2>4, <2>5
<1>6. QED
  BY <1>4, <1>5 DEF OwnStep

\* The C code under a line of the shell's has stopped being defined.
LEMMA HaltServes ==
    ASSUME ShellSpeaks, Speaking, Halts
    PROVE  Serves
<1>1. ShellSpeaks' /\ UNCHANGED <<job, kept, strbuf, mem, screen>> /\ job \in {"banner", "prompt", "report"}
  BY DEF Halts, Speaking, OwnLine
<1>2. SessionMode' = SessionMode
  BY <1>1, SameMode
<1>3. /\ SessionPhase' = SessionPhase /\ SessionStack' = SessionStack /\ SessionAnswer' = SessionAnswer
  BY <1>1, PhaseIs, PhaseNext DEF PhaseTells
<1>4. SessionSaid' = SessionSaid
  BY <1>1 DEF SessionSaid
<1>5. QED
  BY <1>2, <1>3, <1>4, SameSession

\* A line of the shell's is over, and has printed its text if it was to.
LEMMA EndServes ==
    ASSUME DictInv, Speaking, LineOver
    PROVE  Serves
<1>1. RegistersOK /\ ShellSpeaks
  BY SpeakingSpeaks DEF DictInv, ShellTypeOK
<1>2. /\ OnTop(0) /\ UNCHANGED <<sp, job>> /\ at' \in {"process", "line", "exit"}
      /\ Interprets => err = "OK" /\ SessionSaid = <<Name[OwnText]>>
      /\ ~Interprets => SessionSaid = <<>> /\ (err # "OK" => ~StateKnown)
  <2>1. OnTop(0) /\ (Interprets => err = "OK" /\ Spoken) /\ (~Interprets => Silent /\ (err # "OK" => ~StateKnown))
    <3>1. CASE Printing /\ Spoken
      <4>1. status = "idle"
        BY DEF LineOver, Rests
      <4>2. OnTop(0)
        BY <3>1, <4>1 DEF Printing, PrintPoint, FirstRuns, OutputRuns, LastRuns, Runs, Stopping
      <4>3. QED
        BY <3>1, <4>2 DEF Printing
    <3>2. CASE Passing
      BY <3>2 DEF Passing, Taken, Spoilt
    <3>3. QED
      BY <3>1, <3>2 DEF LineOver, HasSpoken
  <2>2. UNCHANGED <<sp, job>> /\ at' \in {"process", "line", "exit"}
    BY DEF LineOver, PromptPrinted, ReportPrinted, BannerPrinted, Returning, MachineUnchanged
  <2>3. QED
    BY <2>1, <2>2, SaidIs
<1>3. mem'[state_ptr] = mem[state_ptr] /\ \A c \in Memory : c \notin Ram => mem'[c] = mem[c]
  <2>1. CASE mem' = Reloaded
    BY <1>1, <2>1, ReloadedKeeps
  <2>2. CASE UNCHANGED mem
    BY <2>2
  <2>3. CASE Fits(mem, here_ptr, 7) /\ mem' = Added(Reloaded, TEXT, "CUSTOM", Calling("custom"))
    <3>1. /\ \A c \in Variables : mem'[c] = Reloaded[c]
          /\ \A c \in Memory : c \notin Ram => mem'[c] = Reloaded[c]
      BY <2>3, CustomLaid
    <3>2. \A c \in Memory : c # in_ptr /\ c # sandbox_ptr => Reloaded[c] = mem[c]
      BY <1>1 DEF Reloaded, RegistersOK
    <3>3. state_ptr \in Variables /\ state_ptr \in Memory /\ state_ptr # in_ptr /\ state_ptr # sandbox_ptr
          /\ in_ptr \in Ram /\ sandbox_ptr \in Ram
      BY OwnPlaces DEF Variables
    <3>4. QED
      BY <3>1, <3>2, <3>3
  <2>4. QED
    BY <2>1, <2>2, <2>3 DEF LineOver, PromptPrinted, ReportPrinted, BannerPrinted, Returning
<1>4. UserStack' = kept.stack
  BY <1>1, <1>2, <1>3, StackBack
<1>5. SessionMode' = SessionMode
  BY <1>3, SameMode
<1>6. ~ShellSpeaks'
  BY <1>2 DEF ShellSpeaks
<1>7. SessionStack' = SessionStack /\ SessionQuiet
  BY <1>1, <1>4, <1>6, PhaseIs, PhaseNext DEF PhaseTells, SessionQuiet
<1>8. CASE BannerPrinted
  <2>1. job = "banner" /\ at' = "process"
    BY <1>8 DEF BannerPrinted
  <2>2. Interprets /\ Name[OwnText] = Name[Banner[2]]
    BY <2>1 DEF Speaking, OwnLine, OwnText
  <2>3. SessionMoves("greeting", "ready")
    BY <1>1, <1>5, <1>7, <2>1, PhaseIs, PhaseNext DEF PhaseTells, SessionMoves
  <2>4. QED
    BY <1>2, <1>7, <2>2, <2>3, SessionActions
<1>9. CASE PromptPrinted
  <2>1. job = "prompt" /\ at' = "line"
    BY <1>9 DEF PromptPrinted
  <2>2. Interprets /\ Name[OwnText] = Name[Prompt[2]]
    BY <2>1 DEF Speaking, OwnLine, OwnText
  <2>3. SessionMoves("asking", "waiting")
    BY <1>1, <1>5, <1>7, <2>1, PhaseIs, PhaseNext DEF PhaseTells, SessionMoves
  <2>4. QED
    BY <1>2, <1>7, <2>2, <2>3, SessionActions
<1>10. CASE ReportPrinted
  <2>1. job = "report" /\ at' = IF err = "OK" THEN "process" ELSE "exit"
    BY <1>10 DEF ReportPrinted, Returning
  <2>2. SessionPhase = "answering" /\ SessionAnswer = Name[OwnText]
    BY <1>1, <2>1, PhaseIs DEF PhaseTells, OwnText
  <2>3. CASE err = "OK"
    <3>1. SessionMoves("answering", "ready")
      BY <1>5, <1>7, <2>1, <2>2, <2>3, PhaseNext DEF PhaseTells, SessionMoves
    <3>2. SessionSaid = IF SessionMode = "interpret" THEN <<SessionAnswer>> ELSE <<>>
      BY <1>2, <2>2, ModeIs
    <3>3. QED
      BY <1>7, <3>1, <3>2, SessionActions
  <2>4. CASE err # "OK"
    <3>1. SessionMoves("answering", "left")
      BY <1>5, <1>7, <2>1, <2>2, <2>4, PhaseNext DEF PhaseTells, SessionMoves
    <3>2. SessionMode = "unknown"
      BY <1>2, <2>4, ModeIs
    <3>3. QED
      BY <1>7, <3>1, <3>2, SessionActions
  <2>5. QED
    BY <2>3, <2>4
<1>11. QED
  BY <1>8, <1>9, <1>10 DEF LineOver

\* Once the machine is undefined nothing happens any more.
LEMMA DeadIsStill ==
    ASSUME FreshInv, [Next]_shellVars, status = "undefined"
    PROVE  UNCHANGED shellVars
<1>1. VMStep => status = "running"
  BY InstructionStays DEF VMStep, Leave
<1>2. Native => status = "running"
  BY SilentStays, PrintingStays, BracketStays DEF Native, FreshInv
<1>3. ~VMStep /\ ~NativeStep
  BY <1>1, <1>2 DEF NativeStep, right_bracket_returns
<1>4. ~CompileLine /\ ~Process
  BY DEF CompileLine, forth_compile, Compiling, ImmediateReturns, EndOfLine, Process, HostIdle,
     PromptUser, ReadLine, LineCompiled, ReportCompiled, LineRejected, PromptPrinted, LineRan, ReportPrinted,
     BannerPrinted
<1>5. QED
  BY <1>3, <1>4 DEF Next, Running, Over

LEMMA NothingServes ==
    ASSUME UNCHANGED shellVars
    PROVE  Serves
<1>1. UNCHANGED <<mem, sp, strbuf, screen, job, at, kept>>
  BY DEF shellVars, vmVars, wordVars
<1>2. SessionMode' = SessionMode
  BY <1>1, SameMode
<1>3. ShellSpeaks' <=> ShellSpeaks
  BY <1>1 DEF ShellSpeaks
<1>4. SessionPhase' = SessionPhase
  BY <1>1, <1>3 DEF SessionPhase
<1>5. UserStack' = UserStack
  BY <1>1 DEF UserStack
<1>6. QED
  BY <1>1, <1>2, <1>3, <1>4, <1>5, SameSession DEF SessionStack, SessionAnswer, SessionSaid

\* The stack of the user's words under cells that stay.
LEMMA StackStays ==
    ASSUME RegistersOK, UNCHANGED sp, \A c \in Memory : c \notin Ram => mem'[c] = mem[c]
    PROVE  UserStack' = UserStack
<1>1. /\ UserStack \in Seq(Word) /\ Len(UserStack) = StackTop - sp
      /\ \A i \in 1 .. Len(UserStack) : sp + i - 1 \in Memory /\ sp + i - 1 \notin Ram
  BY UserStackIs
<1> DEFINE f(i) == mem[sp + i - 1]
           g(i) == mem'[sp + i - 1]
           n == StackTop - sp
<1>2. \A i \in 1 .. n : f(i) = g(i)
  BY <1>1
<1>3. UserStack = [i \in 1 .. n |-> f(i)] /\ UserStack' = [i \in 1 .. n |-> g(i)]
  BY DEF UserStack
<1> HIDE DEF f, g, n
<1>4. QED
  BY <1>2, <1>3

\* The shell begins to speak.
LEMMA BeginServes ==
    ASSUME DictInv, FreshInv, OwnInv, ScreenOK, [Next]_shellVars, status # "undefined", ~ShellSpeaks, ShellSpeaks'
    PROVE  Serves
<1>1. RegistersOK
  BY DEF DictInv, ShellTypeOK
<1>2. CASE PromptUser /\ at' # "line"
  <2>1. /\ at = "process" /\ mem[state_ptr] = False /\ Issues("prompt", Prompt) /\ screen' = <<>>
        /\ UNCHANGED mem
    BY <1>2 DEF PromptUser
  <2>2. SessionMode' = SessionMode /\ SessionMode = "interpret"
    BY <2>1, SameMode, ModeIs DEF Interprets
  <2>3. job' = "prompt" /\ kept'.stack = UserStack /\ kept'.printed = Len(screen')
    BY <2>1 DEF Issues, Now
  <2>4. SessionPhase = "ready" /\ SessionPhase' = "asking" /\ SessionStack' = SessionStack /\ SessionAnswer' = "(none)"
    BY <2>1, <2>3, PhaseIs, PhaseNext DEF PhaseTells
  <2>5. SessionSaid' = <<>>
    <3> DEFINE n == Len(screen') - kept'.printed
    <3>1. n = 0
      <4>1. Len(screen') = 0
        BY <2>1
      <4>2. QED
        BY <2>3, <4>1
    <3> HIDE DEF n
    <3>2. SessionSaid' = [i \in 1 .. n |-> screen'[kept'.printed + i][2]]
      BY DEF SessionSaid, n
    <3>3. SessionSaid' = [i \in 1 .. 0 |-> screen'[kept'.printed + i][2]]
      BY <3>1, <3>2
    <3>4. QED
      BY <3>3
  <2>6. SessionMoves("ready", "asking") /\ SessionQuiet
    BY <2>2, <2>4, <2>5 DEF SessionMoves, SessionQuiet
  <2>7. QED
    BY <2>2, <2>6, SessionActions
<1>3. ASSUME NEW line \in OwnReports, HostIdle, job = "line", Reports(line), at \in {"compiled", "run"}
      PROVE  Serves
  <2>1. /\ mem' = Reloaded /\ screen' = screen /\ job' = "report" /\ strbuf' = line
        /\ kept'.stack = UserStack /\ kept'.printed = Len(screen')
    BY <1>3 DEF Reports, Issues, Now
  <2>2. mem'[state_ptr] = mem[state_ptr]
    BY <1>1, <2>1, ReloadedKeeps
  <2>3. SessionMode' = SessionMode
    BY <2>2, SameMode
  <2>4. SessionPhase = "working" /\ SessionPhase' = "answering" /\ SessionStack' = SessionStack
        /\ SessionAnswer' = Name[line[2]]
    BY <1>3, <2>1, PhaseIs, PhaseNext DEF PhaseTells
  <2>5. SessionSaid' = <<>>
    <3> DEFINE n == Len(screen') - kept'.printed
    <3>1. n = 0
      <4>1. Len(screen) \in Nat
        BY DEF ScreenOK
      <4>2. QED
        BY <2>1, <4>1
    <3> HIDE DEF n
    <3>2. SessionSaid' = [i \in 1 .. n |-> screen'[kept'.printed + i][2]]
      BY DEF SessionSaid, n
    <3>3. SessionSaid' = [i \in 1 .. 0 |-> screen'[kept'.printed + i][2]]
      BY <3>1, <3>2
    <3>4. QED
      BY <3>3
  <2>6. SessionMoves("working", "answering")
    BY <2>3, <2>4 DEF SessionMoves
  <2>7. QED
    BY <2>4, <2>5, <2>6, SessionActions
<1>4. QED
  BY <1>2, <1>3, BeginsToSpeak

\* The user's lines, and the turns of the loop between them.
LEMMA UserServes ==
    ASSUME DictInv, FreshInv, OwnInv, [Next]_shellVars, status # "undefined", ~ShellSpeaks, ~ShellSpeaks'
    PROVE  Serves
<1>1. RegistersOK
  BY DEF DictInv, ShellTypeOK
<1>2. SessionQuiet
  BY PhaseNext DEF PhaseTells, SessionQuiet
<1>3. CASE UNCHANGED shellVars
  BY <1>3, NothingServes
<1>4. CASE at \notin {"process", "line", "exit"} /\ at' \notin {"process", "line", "exit"}
  <2>1. SessionPhase = "working" /\ SessionPhase' = "working"
    BY <1>4, PhaseIs, PhaseNext DEF PhaseTells
  <2>2. QED
    BY <1>2, <2>1, SessionActions
<1>5. CASE PromptUser
  <2>1. at = "process" /\ at' = "line" /\ mem[state_ptr] # False /\ UNCHANGED <<mem, sp>>
    BY <1>5 DEF PromptUser, MachineUnchanged, Issues, ShellSpeaks
  <2>2. SessionMode' = SessionMode /\ SessionMode # "interpret"
    BY <2>1, SameMode, ModeIs DEF Interprets
  <2>3. UserStack' = UserStack
    BY <2>1 DEF UserStack
  <2>4. SessionMoves("ready", "waiting")
    BY <2>1, <2>2, <2>3, PhaseIs, PhaseNext DEF PhaseTells, SessionMoves
  <2>5. QED
    BY <1>2, <2>2, <2>4, SessionActions
<1>6. CASE ReadLine
  <2>1. at = "line" /\ UNCHANGED <<mem, sp>>
    BY <1>6 DEF ReadLine, MachineUnchanged
  <2>2. SessionMode' = SessionMode /\ UserStack' = UserStack /\ SessionPhase = "waiting"
        /\ SessionStack' = SessionStack
    BY <2>1, SameMode, PhaseIs, PhaseNext DEF UserStack, PhaseTells
  <2>3. CASE UNCHANGED <<strbuf, job, at, err, kept>>
    <3>1. SessionPhase' = SessionPhase
      BY <2>1, <2>2, <2>3, PhaseNext DEF PhaseTells
    <3>2. SessionAnswer' = SessionAnswer /\ SessionSaid' = SessionSaid
      BY PhaseIs, PhaseNext DEF PhaseTells
    <3>3. QED
      BY <2>2, <3>1, <3>2, SameSession
  <2>4. CASE at' = "word"
    <3>1. SessionMoves("waiting", "working")
      BY <2>2, <2>4, PhaseNext DEF PhaseTells, SessionMoves
    <3>2. QED
      BY <1>2, <3>1, SessionActions
  <2>5. CASE at' = "exit"
    <3>1. SessionMoves("waiting", "left")
      BY <2>2, <2>5, PhaseNext DEF PhaseTells, SessionMoves
    <3>2. QED
      BY <1>2, <3>1, SessionActions
  <2>6. QED
    BY <1>6, <2>3, <2>4, <2>5 DEF ReadLine, Issues
<1>7. CASE Returning /\ HostIdle /\ at \in {"compiled", "run"} /\ job = "line"
           /\ (err # "OK" => err = "ERR" /\ at = "compiled") /\ (err = "OK" => mem[state_ptr] # False)
  <2>1. mem' = Reloaded /\ UNCHANGED sp /\ at' = IF err = "OK" THEN "process" ELSE "exit"
    BY <1>7 DEF Returning, MachineUnchanged
  <2>2. mem'[state_ptr] = mem[state_ptr] /\ \A c \in Memory : c \notin Ram => mem'[c] = mem[c]
    BY <1>1, <2>1, ReloadedKeeps
  <2>3. SessionMode' = SessionMode /\ UserStack' = UserStack
    BY <1>1, <2>1, <2>2, SameMode, StackStays
  <2>4. SessionPhase = "working" /\ SessionStack' = SessionStack
    BY <1>7, <2>3, PhaseIs, PhaseNext DEF PhaseTells
  <2>5. CASE err = "OK"
    <3>1. SessionMoves("working", "ready")
      BY <2>1, <2>3, <2>4, <2>5, PhaseNext DEF PhaseTells, SessionMoves
    <3>2. SessionMode # "interpret"
      BY <1>7, <2>5, ModeIs DEF Interprets
    <3>3. QED
      BY <1>2, <3>1, <3>2, SessionActions
  <2>6. CASE err # "OK"
    <3>1. SessionMoves("working", "left")
      BY <2>1, <2>3, <2>4, <2>6, PhaseNext DEF PhaseTells, SessionMoves
    <3>2. SessionMode = "unknown"
      BY <1>7, <2>6, ModeIs DEF OwnInv, LineErr
    <3>3. QED
      BY <1>2, <3>1, <3>2, SessionActions
  <2>7. QED
    BY <2>5, <2>6
<1>8. CASE VMStep \/ NativeStep
  BY <1>4, <1>8, MachineTurn
<1>9. CASE CompileLine
  <2>1. at \notin {"process", "line", "exit"} /\ at' \notin {"process", "line", "exit"}
    BY <1>9 DEF CompileLine, forth_compile, Compiling, RejectState, Rejects, StopsUndefined, RejectCompileOnly,
       RunImmediate, PushImmediate, CompileWord, CompilesCode, CompileNumber, RejectUnknown, ImmediateReturns,
       EndOfLine
  <2>2. QED
    BY <1>4, <2>1
<1>10. CASE LineCompiled \/ ReportCompiled
  BY <1>4, <1>10 DEF LineCompiled, ReportCompiled, RunSandbox
<1>11. ~PromptPrinted /\ ~ReportPrinted /\ ~BannerPrinted
  BY DEF PromptPrinted, ReportPrinted, BannerPrinted, ShellSpeaks
<1>12. \A line : ~Reports(line)
  BY DEF Reports, Issues, ShellSpeaks
<1>13. CASE LineRejected
  BY <1>7, <1>12, <1>13 DEF LineRejected
<1>14. CASE LineRan
  <2>1. HostIdle /\ at = "run" /\ job = "line" /\ Returning /\ mem[state_ptr] # False
    BY <1>12, <1>14 DEF LineRan
  <2>2. err = "OK"
    BY <2>1 DEF OwnInv, LineErr
  <2>3. QED
    BY <1>7, <2>1, <2>2
<1>15. QED
  BY <1>3, <1>5, <1>6, <1>8, <1>9, <1>10, <1>11, <1>13, <1>14 DEF Next, Running, Process, Over

\* Every step of the shell is a step of the session, or leaves it alone.
LEMMA StepServes ==
    DictInv /\ FreshInv /\ ScreenOK /\ OwnInv /\ DotQuoteIsSeen /\ [Next]_shellVars /\ [Tame]_shellVars => Serves
<1> SUFFICES ASSUME DictInv, FreshInv, ScreenOK, OwnInv, DotQuoteIsSeen, [Next]_shellVars, [Tame]_shellVars
             PROVE  Serves
  OBVIOUS
<1>1. CASE status = "undefined"
  BY <1>1, DeadIsStill, NothingServes
<1>2. CASE status # "undefined" /\ ShellSpeaks
  <2>1. PICK S : screen \in Seq(S)
    BY DEF ScreenOK
  <2>2. Speaking /\ OutputCells
    BY <1>2 DEF OwnInv, OutputStands
  <2>3. UNCHANGED shellVars \/ Halts \/ OwnStep \/ LineOver
    BY <1>2, <2>1, <2>2, OwnLineGoes
  <2>4. QED
    BY <1>2, <2>2, <2>3, NothingServes, HaltServes, OwnServes, EndServes
<1>3. CASE status # "undefined" /\ ~ShellSpeaks
  BY <1>3, BeginServes, UserServes
<1>4. QED
  BY <1>1, <1>2, <1>3

LEMMA InitServes == Init => Served!Init
<1> SUFFICES ASSUME Init PROVE Served!Init
  OBVIOUS
<1>1. /\ ShellSpeaks /\ job = "banner" /\ kept.stack = <<>>
  BY DEF Init, ShellSpeaks
<1>2. OwnInv /\ status # "undefined"
  BY InitSpeaks DEF Init, vm_init
<1>3. Speaking /\ Interprets
  BY <1>1, <1>2 DEF OwnInv, Speaking, OwnLine
<1>4. Silent
  BY DEF Init, Silent
<1>5. /\ SessionPhase = "greeting" /\ SessionMode = "interpret" /\ SessionStack = <<>>
      /\ SessionAnswer = "(none)" /\ SessionSaid = <<>>
  BY <1>1, <1>3, <1>4, PhaseIs, ModeIs, SaidIs DEF PhaseTells
<1>6. QED
  BY <1>5 DEF Served!Init, Served!None, SessionMode, SessionStack, SessionAnswer, SessionSaid

\* The shell is the session of ForthSession for every tame program in whose
\* dictionary ." stays the compiled-in word: it asks and answers in turn, prints
\* each of its texts once and whole or not at all, takes the user's stack back from
\* its own lines as it was, and gives up only once a program has spoilt STATE.
THEOREM ShellServesSession == Spec /\ SessionsAreTame /\ []DotQuoteIsSeen => ServesSession
<1>1. Init => DictInv /\ FreshInv /\ ScreenOK /\ OwnInv
  BY InitDict, InitFresh, InitSpeaks
<1>2. DictInv /\ [Next]_shellVars /\ [Tame]_shellVars => DictInv'
  BY TameKeepsDict
<1>3. FreshInv /\ [Next]_shellVars => FreshInv'
  BY NextKeepsFresh
<1>4. DictInv /\ ScreenOK /\ [Next]_shellVars => ScreenOK'
  BY ScreenStays DEF DictInv, ShellTypeOK
<1>5. DictInv /\ DictInv' /\ FreshInv /\ ScreenOK /\ ScreenOK' /\ DotQuoteIsSeen /\ OwnInv
      /\ [Next]_shellVars /\ [Tame]_shellVars => OwnInv'
  BY OwnInvKept
<1>6. DictInv /\ FreshInv /\ ScreenOK /\ OwnInv /\ DotQuoteIsSeen /\ [Next]_shellVars /\ [Tame]_shellVars => Serves
  BY StepServes
<1>7. Serves => [Served!Next]_(Served!sessionVars)
  BY DEF Serves
<1>8. Spec /\ SessionsAreTame /\ []DotQuoteIsSeen => Served!Init /\ [][Served!Next]_(Served!sessionVars)
  BY <1>1, <1>2, <1>3, <1>4, <1>5, <1>6, <1>7, InitServes, PTL DEF Spec, SessionsAreTame
<1>9. QED
  BY <1>8 DEF ServesSession, Served!Spec

=============================================================================
