---------------------------- MODULE MCForthHiding ----------------------------
(***************************************************************************)
(* Sessions, most of them of three lines, of a user who defines a ." of    *)
(* his own: a word like any other, a variable, a constant, an immediate    *)
(* word, one left open, and one that still reaches the compiled-in one.    *)
(***************************************************************************)
EXTENDS ForthShellProperties, MCForth

\* The lines that hide the compiled-in word, and the one that keeps a way to it.
HidingLines == {
    <<":", ".\"", ";">>,
    <<":", ".\"", "5", "DUP", ".", ";">>,
    <<":", ".\"", "DROP", ";", "IMMEDIATE">>,
    <<":", ".\"", "5">>,
    <<"VARIABLE", ".\"">>,
    <<"5", "CONSTANT", ".\"">>,
    <<":", "W", "POSTPONE", ".\"", ";", "IMMEDIATE">>,
    <<":", ".\"", "POSTPONE", "W", ";", "IMMEDIATE">>
    }

\* A line for every answer, and words that print a text.
AnsweredLines == {
    <<"7", ".">>,
    <<"UNKNOWN">>,
    <<"DROP">>,
    <<"1", "0", "/">>,
    <<"THEN">>,
    <<";">>,
    <<":", "X", ".\"", "bebe \"", ";", "X">>
    }

\* An answer that the user's own word compiles into the definition left open.
LongSessions == {
    <<<<":", "W", "POSTPONE", ".\"", ";", "IMMEDIATE">>,
      <<":", ".\"", "POSTPONE", "W", ";", "IMMEDIATE">>,
      <<":", "X", "7">>, <<"UNKNOWN">>, <<";">>, <<"X">>>>
    }
MCSessions == [1 .. 3 -> HidingLines \cup AnsweredLines] \cup LongSessions
=============================================================================
