------------------------------- MODULE MCForth -------------------------------
(***************************************************************************)
(* The part all instances of the shell share: the layout of a machine of   *)
(* ten-bit words, and the spellings the sessions use.                      *)
(***************************************************************************)
EXTENDS Integers, Sequences, Bitwise

MCModulus == 1024
MCIntModulus == 512

\* Exclusive or by five bits at a time, from a table.
XorTable == [a \in 0 .. 31 |-> [b \in 0 .. 31 |-> a ^^ b]]
MCXor(a, b) == 32 * XorTable[a \div 32][b \div 32] + XorTable[a % 32][b % 32]

\* The sandbox, the dictionary behind it, and the two stacks.
MCSandboxBase == 640
MCSandboxSize == 60
MCDictBase == 700
MCRam == 640 .. 899
MCStackLo == 904
MCStackTop == 924
MCRStackLo == 928
MCRStackTop == 948
MCRegPC == 952
MCRegSP == 953
MCStrbufBase == 960
MCStrbufSize == 40

\* The numbers in use, in decimal.
Digits == [t \in {"0", "1", "2", "3", "4", "5", "7", "10", "12", "40", "50", "80"} |->
    CASE t = "0" -> 0 [] t = "1" -> 1 [] t = "2" -> 2 [] t = "3" -> 3
      [] t = "4" -> 4 [] t = "5" -> 5 [] t = "7" -> 7 [] t = "10" -> 10
      [] t = "12" -> 12 [] t = "40" -> 40 [] t = "50" -> 50 [] t = "80" -> 80]
MCNumeral == [t \in DOMAIN Digits \cup {"-1", "-2", "-7", "-10"} |->
    CASE t = "-1" -> -1 [] t = "-2" -> -2 [] t = "-7" -> -7 [] t = "-10" -> -10
      [] OTHER -> Digits[t]]

MCTexts == {"Forth_shell \"", "> \"", "OK \"", "STACK UNDERFLOW \"", "ZERO DIVISION \"",
            "WORD NOT FOUND \"", "THIS WORD IS COMPILE-ONLY \"", "Hello world\"",
            "bebe \""}

\* All spellings; a spelling's place is its name field.
Spellings ==
    <<"POSTPONE", "LITERAL", "]", "[", "IMMEDIATE", "DROP", "EXIT", "RECURSE",
      "BL", "CR", "(", "EXECUTE", "'", "ALLOT", "[']", "CONSTANT", "VARIABLE",
      "@", "!", "WORDS", "DUP", "SWAP", "FALSE", "INVERT", "NEGATE", "?DUP",
      "XOR", "ABS", "MOD", "RSHIFT", "LSHIFT", "/", "*", "-", "+", "MAX", "MIN",
      "=", "OR", "AND", ">", "<", "TRUE", ":", ";", "DO", "LOOP", "LEAVE",
      "UNLOOP", "IF", "ELSE", "THEN", ".\"", ".",
      "FORTH", "HERE", ">IN", "STATE", "SANDBOX", "BASE", "I", "J", "EMIT",
      "KEY", "OUTPUT",
      "0", "1", "2", "3", "4", "5", "7", "10", "12", "40", "50", "80",
      "-1", "-2", "-7", "-10",
      "Forth_shell \"", "> \"", "OK \"", "STACK UNDERFLOW \"", "ZERO DIVISION \"",
      "WORD NOT FOUND \"", "THIS WORD IS COMPILE-ONLY \"", "Hello world\"", "bebe \"",
      ")", "(sandbox bytes)", "W", "V", "X", "BEBE", "BIBI", "UNKNOWN", "CUSTOM", "(text of CUSTOM)">>

MCName == [t \in {Spellings[i] : i \in 1 .. Len(Spellings)} |->
              CHOOSE i \in 1 .. Len(Spellings) : Spellings[i] = t]
=============================================================================
