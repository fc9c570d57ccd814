-------------------------- MODULE MCForthVMTests ---------------------------
(***************************************************************************)
(* The programs of tests/vm_test.cpp, laid out one after the other in      *)
(* read-only memory, each with the stack its test expects.                 *)
(***************************************************************************)
EXTENDS ForthVMHost, Sequences, SequencesExt, Bitwise

MCXor(a, b) == a ^^ b

\* -n as a word.
Neg(n) == 128 - n

test_func_addr == 1

basic_test == <<Op.PUSH, 10, Op.RET>>
c_test == <<Op.PUSH, test_func_addr, Op.C_EXEC, Op.RET>>
call_test_2 == <<Op.PUSH, 3, Op.PUSH, 4, Op.RET>>
add_test == <<Op.PUSH, 1, Op.PUSH, Neg(2), Op.ADD, Op.RET>>
jmp_test == <<Op.PUSH, 1, Op.PC, Op.LOAD, Op.PUSH, 12, Op.ADD, Op.JMP,
              3, 4, 55, 6, 7, 8, 9, Op.PUSH, 2, Op.RET>>
str_test == <<Op.PUSH, 1, Op.PUSH, 99, Op.SP, Op.LOAD, Op.PUSH, 2, Op.ADD,
              Op.STR, Op.RET>>
dup == <<Op.SP, Op.LOAD, Op.PUSH, 1, Op.ADD, Op.LOAD>>
it_test == <<Op.PUSH, 10>> \o dup \o dup
           \o <<Op.IT, Op.PC, Op.LOAD, Op.PUSH, 14, Op.ADD, Op.JMP,
                Op.PUSH, Neg(1), Op.ADD, Op.PC, Op.LOAD, Op.PUSH, Neg(23), Op.ADD,
                Op.JMP, Op.DROP, Op.RET>>

First == 2
call_test_2_addr == First
call_test_1 == <<Op.PUSH, 1, Op.PUSH, 2, Op.PUSH, call_test_2_addr, Op.CALL,
                 Op.PUSH, 5, Op.PUSH, 6, Op.RET>>

Programs == <<call_test_2, basic_test, c_test, call_test_1, add_test, jmp_test,
              str_test, it_test>>

\* The stacks the tests pop, top first; call_test_2 is not a test of its own.
Expected == <<<<4, 3>>, <<10>>, <<10>>, <<6, 5, 4, 3, 2, 1>>, <<Neg(1)>>, <<2, 1>>,
              <<99>>, <<0, 1, 2, 3, 4, 5, 6, 7, 8, 9, 10>>>>

Code == FlattenSeq(Programs)
EntryOf(i) == First + Len(FlattenSeq(SubSeq(Programs, 1, i - 1)))
MCRom == [a \in First .. (First + Len(Code) - 1) |-> Code[a - First + 1]]
MCImages == {[a \in {} |-> 0]}
MCEntries == {EntryOf(i) : i \in 1 .. Len(Programs)}

\* The program whose final RET, at pc - 1, ended the run.
Ended == CHOOSE i \in 1 .. Len(Programs) : EntryOf(i) + Len(Programs[i]) = pc

\* tests/vm_test.cpp: each program of the machine's tests leaves exactly the
\* stack its ASSERT_EQs pop, and ends because its last RET found the return
\* stack empty.
TestsPass ==
    status = "idle" /\ starts = 1 =>
       /\ code = "BYE"
       /\ [i \in 1 .. (StackTop - sp) |-> mem[sp + i - 1]] = Expected[Ended]
=============================================================================
