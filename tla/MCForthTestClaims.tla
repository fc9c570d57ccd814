------------------------- MODULE MCForthTestClaims -------------------------
(***************************************************************************)
(* Two lines of tests/forth_compile_tests.cpp, with what the test says of  *)
(* them and the code does not do.                                          *)
(***************************************************************************)
EXTENDS ForthShellProperties, MCForth

SumLine == <<"50", "40", "+">>
LoopLine == <<":", "BEBE", "10", "-2", "DO", "1", "0", "DO", "J", "LOOP", "LOOP", ";", "BEBE">>
MCSessions == {<<SumLine>>, <<LoopLine>>}

\* tests/forth_compile_tests.cpp:264-267 (forth_loop_test): after the line has
\* run, the test pops 10, then 9, down to -1: its ASSERT_EQ compares the stack
\* with i, which starts at 10.
LoopTestPops ==
    HostIdle /\ at = "run" /\ job = "line" /\ typed = <<LoopLine>> =>
        UserStack = [k \in 1 .. 12 |-> (11 - k) % Modulus]

\* tests/forth_compile_tests.cpp:102-103 and 111 (forth_compile_test): the test
\* ends the seven cells of the line itself, with a RET stored where SANDBOX points,
\* and empties the sandbox by pointing SANDBOX at its first cell: SANDBOX is
\* taken for the next free cell.
SandboxTestStoresRet ==
    HostIdle /\ at = "word" /\ job = "line" /\ typed = <<SumLine>> /\ Token = NoToken =>
        mem[sandbox_ptr] = SandboxBase + 7
=============================================================================
