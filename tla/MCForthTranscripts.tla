------------------------- MODULE MCForthTranscripts -------------------------
(***************************************************************************)
(* Sessions with a known outcome: the README's, those of the tests, and a  *)
(* few for every word of the dictionary.                                   *)
(***************************************************************************)
EXTENDS ForthShellProperties, MCForth

Session(lines, prints, report, stack) ==
    [lines |-> lines, prints |-> prints, report |-> report, stack |-> stack]
Text(t)   == <<"text", MCName[t]>>
Number(n) == <<"number", n>>
Char(c)   == <<"char", c>>

\* One line that prints numbers, and nothing else.
PrintsNumbers(line, numbers) ==
    Session(<<line>>, [i \in 1 .. Len(numbers) |-> Number(numbers[i])], "OK \"", <<>>)
\* Lines that print nothing and leave a stack, its top first.
LeavesStack(lines, stack) == Session(lines, <<>>, "OK \"", stack)

\* README.md, tests/forth_compile_tests.cpp, tests/forth_interpret_tests.cpp.
Documented == {
    Session(<<<<".\"", "Hello world\"">>>>, <<Text("Hello world\"")>>, "OK \"", <<>>),
    LeavesStack(<<<<"50", "40", "+">>, <<"80", "+">>>>, <<170>>),
    LeavesStack(<<<<"50", "40", "+", "HERE", "TRUE">>>>, <<True, here_ptr, 90>>),
    LeavesStack(<<<<"50", ":", "BEBE", "10", "+", ";", "BEBE", "-10", "+">>>>, <<50>>),
    LeavesStack(<<<<"TRUE", ":", "BEBE", "IF", "1", "ELSE", "3", "ELSE", "2", "THEN", ";", "BEBE">>,
                  <<"FALSE", ":", "BIBI", "IF", "1", "ELSE", "3", "ELSE", "2", "THEN", ";", "BIBI">>>>,
                <<3, 2, 1>>),
    Session(<<<<".\"", "Hello world\"", "1", ".", "2", ".\"", "bebe \"", "2">>>>,
            <<Text("Hello world\""), Number(1), Text("bebe \"")>>, "OK \"", <<2, 2>>)
    }

\* The answers to a line that fails: what it had done stays done, and a line
\* that is not understood is not run at all.
Failing == {
    Session(<<<<"5", "DROP", "DROP", "7">>>>, <<>>, "STACK UNDERFLOW \"", <<>>),
    Session(<<<<"1", ".", "3", "0", "MOD", "7", ".">>>>, <<Number(1)>>, "ZERO DIVISION \"", <<0, 3>>),
    Session(<<<<"5", ".", "UNKNOWN">>>>, <<>>, "WORD NOT FOUND \"", <<>>),
    Session(<<<<"5", ".", "THEN">>>>, <<>>, "THIS WORD IS COMPILE-ONLY \"", <<>>),
    Session(<<<<":", "W", "2", ";", "UNKNOWN">>, <<"W", ".">>>>, <<Number(2)>>, "OK \"", <<>>)
    }

Arithmetic == {
    PrintsNumbers(<<"5", "INVERT", ".", "5", "NEGATE", ".">>, <<-6, -5>>),
    PrintsNumbers(<<"-7", "ABS", ".", "-1", "2", "MAX", ".", "-1", "2", "MIN", ".">>, <<7, 2, -1>>),
    PrintsNumbers(<<"5", "5", "=", ".", "5", "2", "=", ".">>, <<-1, 0>>),
    PrintsNumbers(<<"12", "2", "RSHIFT", ".", "3", "2", "LSHIFT", ".">>, <<3, 12>>),
    PrintsNumbers(<<"0", "?DUP", ".", "5", "?DUP", ".", ".">>, <<0, 5, 5>>),
    PrintsNumbers(<<"1", "2", "SWAP", ".", ".", "4", "DUP", ".", ".">>, <<1, 2, 4, 4>>),
    PrintsNumbers(<<"7", "2", "MOD", ".", "7", "2", "/", ".", "3", "5", "XOR", ".">>, <<1, 3, 6>>),
    PrintsNumbers(<<"7", "10", "-", ".", "7", "-2", "*", ".">>, <<-3, -14>>),
    PrintsNumbers(<<"2", "4", "AND", ".", "2", "0", "AND", ".", "2", "0", "OR", ".">>, <<-1, 0, -1>>),
    PrintsNumbers(<<"-1", "1", "<", ".", "-1", "1", ">", ".">>, <<-1, 0>>),
    PrintsNumbers(<<"BL", ".", "FALSE", ".", "BASE", "@", ".", "STATE", "@", ".">>, <<32, 0, 10, 0>>)
    }

Defining == {
    LeavesStack(<<<<":", "W", "DUP", "1", ">", "IF", "DUP", "1", "-", "RECURSE", "*", "THEN", ";">>,
                  <<"4", "W">>>>, <<24>>),
    LeavesStack(<<<<":", "W", "5", ";">>, <<"'", "W", "EXECUTE">>>>, <<5>>),
    LeavesStack(<<<<":", "W", "5", ";", ":", "X", "[']", "W", "EXECUTE", ";">>, <<"X">>>>, <<5>>),
    LeavesStack(<<<<":", "W", "POSTPONE", "IF", ";", "IMMEDIATE">>,
                  <<":", "X", "W", "7", "ELSE", "5", "THEN", ";">>, <<"1", "X", "0", "X">>>>, <<5, 7>>),
    LeavesStack(<<<<":", "X", "[", "2", "3", "+", "]", "LITERAL", ";">>, <<"X">>>>, <<5>>),
    LeavesStack(<<<<":", "W", "2">>, <<"DUP", ";">>, <<"W">>>>, <<2, 2>>),
    LeavesStack(<<<<":", "W", "1", "IF", "4", "EXIT", "THEN", "5", ";">>, <<"W">>>>, <<4>>),
    LeavesStack(<<<<"VARIABLE", "V", "7", "V", "!">>, <<"VARIABLE", "W", "5", "W", "!">>,
                  <<"V", "@", "W", "@">>>>, <<5, 7>>),
    LeavesStack(<<<<"40", "CONSTANT", "V">>, <<"5", "CONSTANT", "W">>, <<"V", "W">>>>, <<5, 40>>),
    LeavesStack(<<<<"VARIABLE", "V", "IMMEDIATE">>, <<"V", "@">>>>, <<0>>),
    LeavesStack(<<<<"5", "CONSTANT", "X", "IMMEDIATE">>, <<"X">>>>, <<5>>),
    LeavesStack(<<<<"HERE", "@", "3", "ALLOT", "HERE", "@", "SWAP", "-">>>>, <<3>>),
    LeavesStack(<<<<"1", "(", "UNKNOWN", "2", ")", "5">>>>, <<5, 1>>)
    }

\* Words wider than an int, as a 64-bit host has them: comparisons, ABS, MAX and
\* CONSTANT see the low bits, = and . see them all.
TwoWidths == {
    PrintsNumbers(<<"4", "7", "LSHIFT", "DUP", "0", ">", ".", "0", "=", ".">>, <<0, 0>>),
    PrintsNumbers(<<"3", "7", "LSHIFT", "DUP", "0", "<", ".", ".">>, <<-1, 384>>),
    PrintsNumbers(<<"3", "7", "LSHIFT", "ABS", ".">>, <<128>>),
    PrintsNumbers(<<"4", "7", "LSHIFT", "1", "MAX", ".">>, <<1>>),
    LeavesStack(<<<<"3", "7", "LSHIFT", "CONSTANT", "V">>, <<"V">>>>, <<896>>)
    }

Names(words) == [i \in 1 .. Len(words) |-> Text(words[Len(words) + 1 - i].name)]
Speaking == {
    Session(<<<<"KEY", "EMIT", "CR">>>>, <<Char(65), Char(10)>>, "OK \"", <<>>),
    Session(<<<<"WORDS">>>>, <<Text("CUSTOM")>> \o Names(SystemWords) \o Names(RomWords), "OK \"", <<>>),
    Session(<<<<"5", "CUSTOM">>>>, <<Text(CustomText), Char(0)>>, "OK \"", <<5>>),
    Session(<<<<":", "W", ".\"", "bebe \"", ";">>, <<"W", "W">>>>,
            <<Text("bebe \""), Text("bebe \"")>>, "OK \"", <<>>)
    }

Transcripts == Documented \cup Failing \cup Arithmetic \cup TwoWidths \cup Defining \cup Speaking
MCSessions == {t.lines : t \in Transcripts}

\* Each of these sessions ends as the README and the tests show or as the words
\* in it promise: what the last line printed stands between the prompt and its
\* report, the report is the right one, and the stack holds what is expected:
\* also where words are wider than an int, as on a 64-bit host, and the words
\* that compute with ints lose the upper half.
TranscriptsMatch ==
    HostIdle /\ at = "process" /\ job = "report" =>
        \A t \in Transcripts :
            typed = t.lines =>
                /\ screen = <<Text("> \"")>> \o t.prints \o <<Text(t.report)>>
                /\ UserStack = t.stack
=============================================================================
