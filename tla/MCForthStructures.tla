------------------------- MODULE MCForthStructures -------------------------
(***************************************************************************)
(* Control structures, nested up to three loops deep, against their        *)
(* meaning.                                                                *)
(* A structure is a tree; Spelled writes it as the body of a definition    *)
(* the shell compiles and runs, and Outcome says directly what it leaves on    *)
(* the stack.                                                              *)
(***************************************************************************)
EXTENDS ForthShellProperties, MCForth

-----------------------------------------------------------------------------
(* Structures. *)

Node(op, n, m, a, b) == [op |-> op, n |-> n, m |-> m, a |-> a, b |-> b]
Num(n)        == <<Node("num", n, 0, <<>>, <<>>)>>
Idx           == <<Node("I", 0, 0, <<>>, <<>>)>>
Jdx            == <<Node("J", 0, 0, <<>>, <<>>)>>
CallV            == <<Node("call", 0, 0, <<>>, <<>>)>>       \* V, a loop of its own
Leaves        == <<Node("leave", 0, 0, <<>>, <<>>)>>
Exits         == <<Node("exit", 0, 0, <<>>, <<>>)>>       \* from any depth
If(f, a, b)   == <<Node("if", f, 0, a, b)>>               \* on a literal flag
IfI(k, a, b)  == <<Node("ifI", k, 0, a, b)>>              \* on I = k
Do(n, m, a)   == <<Node("do", n, m, a, <<>>)>>            \* from m up to n

Spelling(n) == CHOOSE t \in DOMAIN MCNumeral : MCNumeral[t] = n
Repeat(t, n) == [i \in 1 .. n |-> t]

RECURSIVE Spelled(_, _)
Spelled(body, depth) ==
    IF body = <<>> THEN <<>>
    ELSE LET x == Head(body)
             branches == <<"IF">> \o Spelled(x.a, depth)
                         \o (IF x.b = <<>> THEN <<>> ELSE <<"ELSE">> \o Spelled(x.b, depth))
                         \o <<"THEN">>
         IN (CASE x.op = "num"   -> <<Spelling(x.n)>>
               [] x.op = "I"     -> <<"I">>
               [] x.op = "J"     -> <<"J">>
               [] x.op = "call"  -> <<"V">>
               [] x.op = "leave" -> <<"LEAVE">>
               [] x.op = "exit"  -> Repeat("UNLOOP", depth) \o <<"EXIT">>
               [] x.op = "if"    -> <<Spelling(x.n)>> \o branches
               [] x.op = "ifI"   -> <<"I", Spelling(x.n), "=">> \o branches
               [] x.op = "do"    -> <<Spelling(x.n), Spelling(x.m), "DO">>
                                    \o Spelled(x.a, depth + 1) \o <<"LOOP">>)
            \o Spelled(Tail(body), depth)

-----------------------------------------------------------------------------
(* Their meaning: what has been left on the stack, oldest first, and whether *)
(* control goes on, has left the loop, or has left the word.                 *)

OutcomeOf(out, mode) == [out |-> out, mode |-> mode]

RECURSIVE Outcome(_, _, _, _), Turns(_, _, _, _, _)
Outcome(body, out, i, j) ==
    IF body = <<>> THEN OutcomeOf(out, "on")
    ELSE LET x == Head(body)
             r == CASE x.op = "num"   -> OutcomeOf(Append(out, x.n), "on")
                    [] x.op = "I"     -> OutcomeOf(Append(out, i), "on")
                    [] x.op = "J"     -> OutcomeOf(Append(out, j), "on")
                    [] x.op = "call"  -> OutcomeOf(out \o <<0, 1>>, "on")
                    [] x.op = "leave" -> OutcomeOf(out, "left")
                    [] x.op = "exit"  -> OutcomeOf(out, "gone")
                    [] x.op = "if"    -> Outcome(IF x.n # 0 THEN x.a ELSE x.b, out, i, j)
                    [] x.op = "ifI"   -> Outcome(IF x.n = i THEN x.a ELSE x.b, out, i, j)
                    [] x.op = "do"    -> Turns(x.a, x.m, x.n, out, i)
         IN IF r.mode = "on" THEN Outcome(Tail(body), r.out, i, j) ELSE r

Turns(body, index, limit, out, outer) ==
    IF index >= limit THEN OutcomeOf(out, "on")
    ELSE LET r == Outcome(body, out, index, outer)
         IN CASE r.mode = "on"   -> Turns(body, index + 1, limit, r.out, outer)
              [] r.mode = "left" -> OutcomeOf(r.out, "on")
              [] r.mode = "gone" -> r

-----------------------------------------------------------------------------
(* The instance. *)

InLoop == {Idx, CallV \o Idx, Leaves \o Idx, Idx \o IfI(1, Num(5), Num(7)),
           IfI(1, Leaves, <<>>) \o Idx, IfI(1, Exits, Idx) \o Num(4)}
InInnerLoop == {Jdx, Idx \o IfI(1, Leaves, <<>>), IfI(1, Exits, <<>>) \o Jdx,
                IfI(0, Idx, Jdx)}
Loops == {Do(n, 0, a) : n \in {0, 3}, a \in InLoop}
         \cup {Do(1, -2, a) : a \in {Idx, IfI(-1, Leaves, Idx)}}
NestedLoops == {Do(3, 1, Do(n, 0, a) \o b) :
                   n \in {0, 2}, a \in InInnerLoop, b \in {Idx, IfI(1, Leaves, <<>>) \o Idx}}
\* Three loops deep, I and J are read in the innermost one only: when it ends,
\* the J of the loop around it is lost, and with that loop the I of the outer.
DeepLoops == {Do(2, 0, Do(3, 1, Do(n, 0, a) \o Num(4)) \o Num(7)) :
                 n \in {0, 2}, a \in InInnerLoop}
Branches == {If(f, a, b) \o Num(4) :
                    f \in {0, 5}, a \in {Num(1), If(5, Exits, Num(2)), Do(2, 0, Idx)},
                    b \in {<<>>, Num(3), Exits}}
LoopsInBranches == {Do(3, 0, IfI(1, Do(n, 0, a), b) \o Idx) :
                       n \in {1, 2}, a \in {Jdx, Idx \o Leaves}, b \in {<<>>, CallV, Leaves}}
Bodies == Loops \cup NestedLoops \cup DeepLoops \cup Branches \cup LoopsInBranches
          \cup {Do(2, 0, Idx) \o Do(3, 2, Idx \o CallV)}

VLine == <<":", "V", "2", "0", "DO", "I", "LOOP", ";">>
WLine(body) == <<":", "W">> \o Spelled(body, 0) \o <<";">>
MCSessions == {<<VLine, WLine(body), <<"W">>>> : body \in Bodies}

\* What must be on the stack, top first.
Meaning(body) ==
    LET out == Outcome(body, <<>>, 0, 0).out
    IN  [k \in 1 .. Len(out) |-> out[Len(out) + 1 - k] % Modulus]

\* IF, ELSE, THEN, DO, LOOP, LEAVE, UNLOOP, EXIT, I and J, compiled by the
\* immediate words into jumps and holes and run on the return stack, mean what
\* they are meant to: the stack a definition leaves is the one its structure
\* says, in all nestings up to three loops, entered zero or more times, left early
\* or not, in the word itself or through a word it calls.
CompiledMeaning ==
    HostIdle /\ at = "line" /\ Len(typed) = 3 =>
        \A body \in Bodies : typed[2] = WLine(body) => UserStack = Meaning(body)
=============================================================================
