---------------------------- MODULE ForthSession ----------------------------
(***************************************************************************)
(* What the shell promises its user: a session of questions and answers.   *)
(*                                                                         *)
(* The shell greets, then for ever prompts, waits for a line, works on it  *)
(* and answers it.  While a definition is open it neither prompts nor      *)
(* answers "OK", and an answer it must give is not printed.  Only work     *)
(* touches the user's stack.                                               *)
(***************************************************************************)
EXTENDS Sequences

CONSTANTS
    Greeting, Asked,  \* the texts of the banner and of the prompt
    Answers           \* the texts of the reports

VARIABLES
    phase,  \* "greeting", "ready", "asking", "waiting", "working", "answering", "left"
    mode,   \* "interpret", "compile", or "unknown" once a program has spoilt it
    stack,  \* the user's data stack
    answer, \* the answer due, while answering
    said    \* what the shell has printed itself in this phase

sessionVars == <<phase, mode, stack, answer, said>>

None == "(none)"

Init ==
    /\ phase = "greeting" /\ mode = "interpret" /\ stack = <<>>
    /\ answer = None /\ said = <<>>

Moves(from, to) == phase = from /\ phase' = to /\ UNCHANGED <<mode, stack>>
Quiet == said' = <<>> /\ answer' = None

Greeted == Moves("greeting", "ready") /\ said = <<Greeting>> /\ Quiet

Ask    == Moves("ready", "asking") /\ mode = "interpret" /\ Quiet
Await  == Moves("asking", "waiting") /\ said = <<Asked>> /\ Quiet
Resume == Moves("ready", "waiting") /\ mode # "interpret" /\ Quiet

Enter == Moves("waiting", "working") /\ Quiet
Leave == Moves("waiting", "left") /\ Quiet

Work == phase = "working" /\ UNCHANGED phase /\ Quiet

Answer(a) == Moves("working", "answering") /\ answer' = a /\ said' = <<>>

\* An open definition takes the line without a word.
Accept == Moves("working", "ready") /\ mode # "interpret" /\ Quiet

\* The answer is printed once and whole, or not at all.
Answered ==
    /\ Moves("answering", "ready")
    /\ said = IF mode = "interpret" THEN <<answer>> ELSE <<>>
    /\ Quiet

Say(t) ==
    /\ mode = "interpret" /\ said = <<>> /\ said' = <<t>>
    /\ UNCHANGED <<phase, mode, stack, answer>>

\* With its mode spoilt the shell gives up at the next word.
Stop == phase \in {"working", "answering"} /\ mode = "unknown" /\ Moves(phase, "left") /\ Quiet

Next ==
    \/ Greeted \/ Ask \/ Await \/ Resume \/ Enter \/ Leave \/ Work
    \/ \E a \in Answers : Answer(a)
    \/ Accept \/ Answered \/ Stop
    \/ phase = "greeting" /\ Say(Greeting)
    \/ phase = "asking" /\ Say(Asked)
    \/ phase = "answering" /\ Say(answer)

Spec == Init /\ [][Next]_sessionVars
=============================================================================
