----------------------------- MODULE ForthWords -----------------------------
(***************************************************************************)
(* The C functions behind the words of src/forth/forth_core, one action    *)
(* each: the arithmetic words, the compiling and defining words, the       *)
(* control structures with the code they lay down, input and output.       *)
(***************************************************************************)
EXTENDS ForthDict

-----------------------------------------------------------------------------
(* forth_ariphmetic.c and forth_logic.c: C functions on the data stack.    *)

invert_handler == Unary("invert", Modulus - 1 - Arg(0))
negate_handler == Unary("negate", (-Arg(0)) % Modulus)
max_handler    == Pair("max", IF AsInt(Arg(1)) > AsInt(Arg(0)) THEN Arg(1) ELSE Arg(0))
min_handler    == Pair("min", IF AsInt(Arg(1)) < AsInt(Arg(0)) THEN Arg(1) ELSE Arg(0))
equal_handler  == Pair("equal", Truth(Arg(1) = Arg(0)))

\* The least int has no negative: it stays, or grows into a word.
abs_handler ==
    LET n == AsInt(Arg(0))
        results == IF n >= 0 THEN {Arg(0)}
                   ELSE IF 2 * n = -IntModulus THEN {Extended(-n), Extended(n)}
                   ELSE {Extended(-n)}
    IN  /\ Calls("abs")
        /\ \/ Short(1)
           \/ Has(1) /\ \E v \in results : Returns([mem EXCEPT ![Top] = v], Top)

\* Shifting by the width or more is undefined in C.
Power[n \in 0 .. Modulus] == IF n = 0 THEN 1 ELSE 2 * Power[n - 1]
Width == CHOOSE w \in 1 .. Modulus : Power[w] = Modulus
Shift(f, v) ==
    \/ Calls(f) /\ Has(2) /\ Arg(0) >= Width /\ Undefined
    \/ (Calls(f) /\ Has(2) => Arg(0) < Width) /\ Pair(f, v)
rshift_handler == Shift("rshift", Arg(1) \div Power[Arg(0)])
lshift_handler == Shift("lshift", (Arg(1) * Power[Arg(0)]) % Modulus)

dup_if_no_zero_handler ==
    /\ Calls("dup_if_no_zero")
    /\ \/ Short(1)
       \/ Has(1) /\ Arg(0) = 0 /\ Returns(mem, Top)
       \/ Has(1) /\ Arg(0) # 0 /\ Returns([mem EXCEPT ![Top - 1] = Arg(0)], Top - 1)

\* DROP without its test.
DropUnchecked == Calls("drop") /\ Returns(mem, Top + 1)

drop_handler ==
    Calls("drop") /\ (Short(1) \/ (Has(1) /\ Returns(mem, Top + 1)))

forth_swap_handler ==
    /\ Calls("swap")
    /\ \/ Short(2)
       \/ /\ Has(2)
          /\ LET x == XorWord(Arg(0), Arg(1))
                 y == XorWord(Arg(1), x)
             IN  Returns([mem EXCEPT ![Top] = XorWord(x, y), ![Top + 1] = y], Top)

ArithmeticWord ==
    \/ invert_handler \/ negate_handler \/ abs_handler \/ max_handler
    \/ min_handler \/ equal_handler \/ rshift_handler \/ lshift_handler
    \/ dup_if_no_zero_handler \/ drop_handler \/ forth_swap_handler

-----------------------------------------------------------------------------
(* Compiling and defining words. *)

\* POSTPONE name: compile a call of name, immediate or not.
postpone_handler ==
    /\ Calls("postpone")
    /\ LET found == forth_search(Token)
       IN \/ Token = NoToken /\ Raises("MEMFAULT", mem, Top)
          \/ Token # NoToken /\ found = Lost /\ Undefined
          \/ Token # NoToken /\ found = 0 /\ Raises("STACK_UNDERFLOW", TokenRead, Top)
          \/ /\ Token # NoToken /\ found \notin {0, Lost}
             /\ Compiles(TokenRead, here_ptr, <<Op.PUSH, TextPtr(found), Op.CALL>>, Top)

literal_handler ==
    /\ Calls("literal")
    /\ \/ Short(1)
       \/ Has(1) /\ Compiles(mem, here_ptr, <<Op.PUSH, Arg(0)>>, Top + 1)

left_bracket_handler ==
    Calls("left_bracket") /\ Returns([mem EXCEPT ![state_ptr] = False], Top)

\* += instead of |=.
ImmediateAdding ==
    /\ Calls("immediate")
    /\ LET h == mem[forth_ptr]
       IN \/ h \notin Ram /\ Undefined
          \/ h \in Ram /\ Returns([mem EXCEPT ![h] = @ + IMMEDIATE], Top)

immediate_handler ==
    /\ Calls("immediate")
    /\ LET h == mem[forth_ptr]
       IN \/ h \notin Ram /\ Undefined
          \/ h \in Ram /\ HasFlag(h, IMMEDIATE) /\ Returns(mem, Top)
          \/ /\ h \in Ram /\ ~HasFlag(h, IMMEDIATE)
             /\ Returns([mem EXCEPT ![h] = @ + IMMEDIATE], Top)

exit_handler == Calls("exit") /\ Compiles(mem, here_ptr, <<Op.RET>>, Top)

recurse_handler ==
    /\ Calls("recurse")
    /\ Compiles(mem, here_ptr, <<Op.PUSH, TextPtr(mem[forth_ptr]), Op.CALL>>, Top)

\* ( : on to the closing parenthesis, or past the end of the buffer.
paren_immediate_handler ==
    /\ Calls("paren")
    /\ LET closing == {k \in mem[in_ptr] + 1 .. Len(strbuf) : strbuf[k] = ")"}
       IN \/ /\ closing = {}
             /\ Raises("MEMFAULT", [mem EXCEPT ![in_ptr] = IF @ > StrbufSize THEN @ ELSE StrbufSize], Top)
          \/ \E k \in closing :
                /\ \A l \in closing : k <= l
                /\ Returns([mem EXCEPT ![in_ptr] = k], Top)

\* ' name and ['] name: compile the address of the header as a literal.
tick_handler ==
    /\ Calls("tick")
    /\ LET found == forth_search(Token)
       IN \/ Token = NoToken /\ Raises("MEMFAULT", mem, Top)
          \/ Token # NoToken /\ found = Lost /\ Undefined
          \/ Token # NoToken /\ found = 0 /\ Raises("STACK_UNDERFLOW", TokenRead, Top)
          \/ /\ Token # NoToken /\ found \notin {0, Lost}
             /\ Compiles(TokenRead, CopyPtr, <<Op.PUSH, found>>, Top)

\* The null pointer of a missing token reaches strncmp.
bracket_tick_handler ==
    /\ Calls("bracket_tick")
    /\ LET found == forth_search(Token)
       IN \/ Token = NoToken /\ Undefined
          \/ Token # NoToken /\ found = Lost /\ Undefined
          \/ Token # NoToken /\ found = 0 /\ Raises("STACK_UNDERFLOW", TokenRead, Top)
          \/ /\ Token # NoToken /\ found \notin {0, Lost}
             /\ Compiles(TokenRead, CopyPtr, <<Op.PUSH, found>>, Top)

\* EXECUTE starts the text of the header on the stack and returns behind itself.
execute_handler ==
    /\ Calls("execute")
    /\ \/ Short(1)
       \/ Has(1) /\ (~IsHeader(Arg(0)) \/ RFull) /\ Undefined
       \/ /\ Has(1) /\ IsHeader(Arg(0)) /\ ~RFull
          /\ sp' = Top + 1 /\ rsp' = rsp - 1
          /\ mem' = [mem EXCEPT ![rsp - 1] = pc]
          /\ Goto(TextPtr(Arg(0)))

allot_handler ==
    /\ Calls("allot")
    /\ \/ Short(1)
       \/ Has(1) /\ Returns([mem EXCEPT ![here_ptr] = (@ + Arg(0)) % Modulus], Top + 1)

\* A null name makes forth_add_variable and forth_add_constant write through
\* a null pointer.
variable_handler ==
    /\ Calls("variable")
    /\ \/ (Token = NoToken \/ ~Fits(mem, here_ptr, 4)) /\ Undefined
       \/ /\ Token # NoToken /\ Fits(mem, here_ptr, 4)
          /\ Returns(Added(TokenRead, VAR, Token, <<0>>), Top)

\* CONSTANT defines the name now and compiles the call that will give it its
\* value; the call names the token in the input buffer.
constant_handler ==
    /\ Calls("constant")
    /\ \/ (Token = NoToken \/ ~Fits(mem, here_ptr, 4)) /\ Undefined
       \/ /\ Token # NoToken /\ Fits(mem, here_ptr, 4)
          /\ Compiles(Added(TokenRead, CONST, Token, <<0>>), CopyPtr,
                      <<Op.PUSH, (StrbufBase + mem[in_ptr] + 1) % Modulus, Op.PUSH,
                        Fn.constant_post, Op.C_EXEC>>, Top)

\* The value is missing: the token's address, the only cell, is dropped.
constant_post_handler ==
    /\ Calls("constant_post")
    /\ \/ Top > StackTop - 1 /\ Undefined
       \/ Top = StackTop - 1 /\ Raises("STACK_UNDERFLOW", mem, Top + 1)
       \/ /\ Has(2)
          /\ LET k == Arg(0) - StrbufBase
                 found == forth_search(strbuf[k])
                 datum == TextPtr(found)
             IN \/ k \notin DOMAIN strbuf /\ Undefined
                \/ /\ k \in DOMAIN strbuf
                   /\ \/ (found \in {0, Lost} \/ datum \notin Ram) /\ Undefined
                      \/ /\ found \notin {0, Lost} /\ datum \in Ram
                         /\ Returns([mem EXCEPT ![datum] = Extended(AsInt(Arg(1)))], Top + 2)

forth_colon_handler ==
    /\ Calls("colon")
    /\ \/ Token = NoToken /\ Raises("MEMFAULT", mem, Top)
       \/ Token # NoToken /\ ~Fits(mem, here_ptr, 3) /\ Undefined
       \/ /\ Token # NoToken /\ Fits(mem, here_ptr, 3)
          /\ Returns([Added(TokenRead, TEXT, Token, <<>>) EXCEPT ![state_ptr] = True], Top)

forth_semicolon_handler ==
    /\ Calls("semicolon")
    /\ Compiles([mem EXCEPT ![state_ptr] = False], here_ptr, <<Op.RET>>, Top)

CompilingWord ==
    \/ postpone_handler \/ literal_handler \/ left_bracket_handler
    \/ immediate_handler \/ exit_handler \/ recurse_handler
    \/ paren_immediate_handler \/ tick_handler \/ bracket_tick_handler
    \/ execute_handler \/ allot_handler \/ variable_handler
    \/ constant_handler \/ constant_post_handler \/ forth_colon_handler
    \/ forth_semicolon_handler

-----------------------------------------------------------------------------
(* Control structures: what the immediate words compile.  The address of a  *)
(* cell still to be filled in waits on the data stack.                      *)

Compiled(i) == (mem[here_ptr] + i) % Modulus  \* address of the i-th cell compiled
Left(i)     == mem[Compiled(i)]               \* a cell that is skipped, not written

\* Compile ws and push the address of its k-th cell.
CompilesHole(ws, k) ==
    \/ /\ Fits(mem, here_ptr, Len(ws))
       /\ Returns([Appended(mem, here_ptr, ws) EXCEPT ![Top - 1] = Compiled(k)], Top - 1)
    \/ ~Fits(mem, here_ptr, Len(ws)) /\ Undefined

\* IF: if the flag is false, fall into a jump to a place not yet known.
forth_if_immediate_handler ==
    /\ Calls("if_immediate")
    /\ CompilesHole(<<Op.IT, Op.PUSH, Left(3), Op.JMP, Op.NONE, Op.NONE, Op.NONE>>, 3)

\* The cell on the stack that ELSE, THEN and LOOP fill in, popped unchecked.
Hole == Arg(0)
HoleOnStack == Has(1) /\ Writable(Hole)

\* ELSE: a jump over the second branch, whose first cell IF is told.
forth_else_immediate_handler ==
    /\ Calls("else_immediate")
    /\ LET ws == <<Op.PUSH, Left(2), Op.JMP>>
       IN \/ ~HoleOnStack /\ Undefined
          \/ HoleOnStack /\ ~Fits(mem, here_ptr, 3) /\ Undefined
          \/ /\ HoleOnStack /\ Fits(mem, here_ptr, 3)
             /\ Returns([Appended(mem, here_ptr, ws) EXCEPT ![Top] = Compiled(2),
                                                            ![Hole] = Compiled(4)], Top)

\* THEN: the jump lands on the next cell, which is passed over unwritten.
forth_then_immediate_handler ==
    /\ Calls("then_immediate")
    /\ \/ ~HoleOnStack /\ Undefined
       \/ /\ HoleOnStack
          /\ Returns([mem EXCEPT ![here_ptr] = Compiled(1), ![Hole] = Compiled(1)], Top + 1)

\* DO: keep the way out on the return stack, save I in J, and enter the loop.
forth_do_immediate_handler ==
    /\ Calls("do_immediate")
    /\ CompilesHole(<<Op.PUSH, Left(2), Op.RPUSH, Op.PUSH, i_var, Op.LOAD, Op.PUSH,
                      j_var, Op.STR, Op.PUSH, Fn.do, Op.C_EXEC>>, 2)

\* LOOP: its own last cell is the way out.
forth_loop_immediate_handler ==
    /\ Calls("loop_immediate")
    /\ LET ws == <<Op.PUSH, Fn.loop, Op.C_EXEC>>
       IN \/ ~HoleOnStack /\ Undefined
          \/ HoleOnStack /\ ~Fits(mem, here_ptr, 3) /\ Undefined
          \/ /\ HoleOnStack /\ Fits(mem, here_ptr, 3)
             /\ Returns([Appended(mem, here_ptr, ws) EXCEPT ![Hole] = Compiled(3)], Top + 1)

forth_leave_immediate_handler ==
    /\ Calls("leave_immediate")
    /\ Compiles(mem, here_ptr, <<Op.PUSH, Fn.leave, Op.C_EXEC>>, Top)

forth_unloop_immediate_handler ==
    /\ Calls("unloop_immediate")
    /\ Compiles(mem, here_ptr, <<Op.PUSH, Fn.unloop, Op.C_EXEC>>, Top)

-----------------------------------------------------------------------------
(* Control structures: what runs.  Inside a loop the return stack holds,    *)
(* top first, the place to resume at, the limit, the index, the way out.    *)

LoopOver == AsInt(Arg(1)) <= AsInt(Arg(0))

\* Leaving the loop without giving I back.
DoKeepingI ==
    /\ Calls("do")
    /\ \/ Short(2)
       \/ Has(2) /\ LoopOver /\ ~RHas(1) /\ Undefined
       \/ /\ Has(2) /\ LoopOver /\ RHas(1)
          /\ mem' = [mem EXCEPT ![i_var] = Arg(0)]
          /\ sp' = Top + 2 /\ rsp' = rsp + 1
          /\ Goto(mem[rsp] + 1)
       \/ Has(2) /\ ~LoopOver /\ ~RRoom(3) /\ Undefined
       \/ /\ Has(2) /\ ~LoopOver /\ RRoom(3)
          /\ mem' = [mem EXCEPT ![i_var] = Arg(0), ![rsp - 1] = Arg(0),
                                ![rsp - 2] = Arg(1), ![rsp - 3] = (pc - 3) % Modulus]
          /\ sp' = Top + 2 /\ rsp' = rsp - 3
          /\ Goto(pc + 1)

\* The head of a loop: limit and index are on the data stack.
forth_do_handler ==
    /\ Calls("do")
    /\ \/ Short(2)
       \/ Has(2) /\ LoopOver /\ ~RHas(1) /\ Undefined
       \/ /\ Has(2) /\ LoopOver /\ RHas(1)
          /\ mem' = [mem EXCEPT ![i_var] = mem[j_var]]
          /\ sp' = Top + 2 /\ rsp' = rsp + 1
          /\ Goto(mem[rsp] + 1)
       \/ Has(2) /\ ~LoopOver /\ ~RRoom(3) /\ Undefined
       \/ /\ Has(2) /\ ~LoopOver /\ RRoom(3)
          /\ mem' = [mem EXCEPT ![i_var] = Arg(0), ![rsp - 1] = Arg(0),
                                ![rsp - 2] = Arg(1), ![rsp - 3] = (pc - 3) % Modulus]
          /\ sp' = Top + 2 /\ rsp' = rsp - 3
          /\ Goto(pc + 1)

\* The end of a turn: back to the head with the limit and the index given.
NextTurn(index) ==
    \/ (~RHas(3) \/ sp = StackLo) /\ Undefined
    \/ /\ RHas(3) /\ sp # StackLo
       /\ mem' = [mem EXCEPT ![Top - 1] = mem[rsp + 1], ![Top - 2] = index]
       /\ sp' = Top - 2 /\ rsp' = rsp + 3
       /\ Goto(mem[rsp] + 1)

\* LOOP that does not advance the index.
LoopNotAdvancing == Calls("loop") /\ NextTurn(mem[rsp + 2])

forth_loop_handler  == Calls("loop") /\ NextTurn((mem[rsp + 2] + 1) % Modulus)
forth_leave_handler == Calls("leave") /\ NextTurn(mem[rsp + 1])

\* UNLOOP drops the four cells unchecked: rsp may pass the top.
forth_unloop_handler ==
    /\ Calls("unloop")
    /\ mem' = [mem EXCEPT ![i_var] = mem[j_var]]
    /\ sp' = Top /\ rsp' = rsp + 4
    /\ Goto(pc + 1)

ControlWord ==
    \/ forth_if_immediate_handler \/ forth_else_immediate_handler
    \/ forth_then_immediate_handler \/ forth_do_immediate_handler
    \/ forth_loop_immediate_handler \/ forth_leave_immediate_handler
    \/ forth_unloop_immediate_handler \/ forth_do_handler \/ forth_loop_handler
    \/ forth_leave_handler \/ forth_unloop_handler

-----------------------------------------------------------------------------
(* Input and output. *)

Prints(items) == screen' = screen \o items

\* ." text" compiles the text, a call of OUTPUT on it, and the step over it.
dot_quote_immediate_handler ==
    /\ Calls("dot_quote_immediate")
    /\ LET k == mem[in_ptr] + 1
           ws == <<Op.PUSH, 1, Op.PUSH, 1, Op.PC, Op.LOAD, Op.PUSH, 10, Op.ADD,
                   Op.PUSH, output_text, Op.CALL, Op.PUSH, Fn.dot_quote_post,
                   Op.C_EXEC, Name[strbuf[k]]>>
       IN \/ (k \in DOMAIN strbuf => strbuf[k] \notin Texts) /\ Undefined
          \/ /\ k \in DOMAIN strbuf /\ strbuf[k] \in Texts
             /\ Compiles([mem EXCEPT ![in_ptr] = k], TextCopyPtr, ws, Top)

\* The step over the text leaving its length on the stack.
DotQuotePostKeeping ==
    /\ Calls("dot_quote_post")
    /\ \/ ~Has(1) /\ Undefined
       \/ Has(1) /\ mem' = mem /\ sp' = Top /\ UNCHANGED rsp /\ Goto(pc + Arg(0) + 1)

\* The step over the text: its length is on the stack, popped unchecked.
forth_dot_quote_post_handler ==
    /\ Calls("dot_quote_post")
    /\ \/ ~Has(1) /\ Undefined
       \/ Has(1) /\ mem' = mem /\ sp' = Top + 1 /\ UNCHANGED rsp /\ Goto(pc + Arg(0) + 1)

SilentWord ==
    /\ ArithmeticWord \/ CompilingWord \/ ControlWord
       \/ dot_quote_immediate_handler \/ forth_dot_quote_post_handler
    /\ WordsUnchanged

\* An output that reaches the terminal, or a stack read or written outside it.
PrintsIf(ok, items, s) ==
    \/ ~ok /\ Undefined /\ UNCHANGED screen
    \/ ok /\ Returns(mem, s) /\ Prints(items)

forth_emit == Calls("emit") /\ PrintsIf(Has(1), <<<<"char", Arg(0)>>>>, Top + 1)
cr_handler == Calls("cr") /\ PrintsIf(TRUE, <<<<"char", 10>>>>, Top)

forth_output_data ==
    /\ Calls("output")
    /\ LET items == [i \in 1 .. AsInt(Arg(1)) |-> Arg(0) + i - 1]
       IN  PrintsIf(Has(2) /\ \A i \in DOMAIN items : Readable(items[i]),
                    [i \in DOMAIN items |-> <<"text", Load(items[i])>>], Top + 2)

\* . prints the signed number; BASE is not consulted.
forth_dot_handler ==
    /\ Calls("dot")
    /\ \/ Short(1) /\ UNCHANGED screen
       \/ Has(1) /\ PrintsIf(TRUE, <<<<"number", Signed(Arg(0))>>>>, Top + 1)

\* WORDS passes a length and an address for every name.
words_handler ==
    /\ Calls("words")
    /\ LET chain == Chain(mem[forth_ptr])
       IN  PrintsIf(sp # StackLo /\ Walked({})[mem[forth_ptr]] = 0,
                    [i \in 1 .. Len(chain) |-> <<"text", NameField(chain[i])>>], Top)

CustomText == "(text of CUSTOM)"

forth_key ==
    /\ Calls("key")
    /\ \E k \in Keys : Returns([mem EXCEPT ![Top - 1] = k], Top - 1)
    /\ UNCHANGED screen

\* main's own word hands its text to OUTPUT, and with it the NUL at its end.
custom_function ==
    /\ Calls("custom")
    /\ PrintsIf(sp # StackLo, <<<<"text", Name[CustomText]>>, <<"char", 0>>>>, Top)

PrintingWord ==
    /\ forth_emit \/ cr_handler \/ forth_output_data \/ forth_dot_handler
       \/ words_handler \/ forth_key \/ custom_function
    /\ UNCHANGED <<strbuf, brackets>>

-----------------------------------------------------------------------------
(* ] runs what the line has compiled so far, in a vm_start of its own, and  *)
(* goes on compiling the definition.                                        *)

right_bracket_handler ==
    /\ Calls("right_bracket")
    /\ \/ ~Fits(mem, sandbox_ptr, 1) /\ Undefined /\ UNCHANGED brackets
       \/ /\ Fits(mem, sandbox_ptr, 1)
          /\ mem' = Appended(mem, sandbox_ptr, <<Op.QUIT>>)
          /\ sp' = Top
          /\ brackets' = <<pc>> \o brackets
          /\ vm_start(SandboxBase)
          /\ UNCHANGED <<rsp, flags, code>>
    /\ UNCHANGED <<strbuf, screen>>

\* The nested vm_start has returned: the loop around ] goes on.
right_bracket_returns ==
    /\ status = "idle" /\ brackets # <<>>
    /\ flags' = flags \ {"BYE"}
    /\ mem' = [mem EXCEPT ![sandbox_ptr] = SandboxBase - 1, ![state_ptr] = True]
    /\ vm_start((Head(brackets) + 1) % Modulus)
    /\ brackets' = Tail(brackets)
    /\ UNCHANGED <<sp, rsp, code, strbuf, screen>>

Native == SilentWord \/ PrintingWord \/ right_bracket_handler
=============================================================================
