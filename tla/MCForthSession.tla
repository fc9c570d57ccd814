--------------------------- MODULE MCForthSession ---------------------------
(***************************************************************************)
(* Sessions of two lines, each any of the lines below, and a few longer    *)
(* ones: good lines, all the errors, definitions left open and closed      *)
(* later, words that change the dictionary, and the words with an effect   *)
(* while the line is compiled.                                             *)
(***************************************************************************)
EXTENDS ForthShellProperties, MCForth

MCLines == {
    <<"5", "DUP", "*", ".">>,
    <<":", "W", "DUP", "*", ";">>,
    <<":", "W", "2">>,
    <<";">>,
    <<"3", "W">>,
    <<"DROP">>,
    <<"1", "0", "/">>,
    <<"UNKNOWN">>,
    <<"2", "IF">>,
    <<"(", "X">>,
    <<"IMMEDIATE">>,
    <<":", "X", "LITERAL", ";">>,
    <<":", "X", "[", "2", "3", "+", "]", "LITERAL", ";">>,
    <<"5", "CONSTANT", "V">>,
    <<"VARIABLE", "V", "1", "ALLOT">>
    }
LongSessions == {
    <<<<":", "W", "DUP", "*", ";">>, <<"'", "W">>, <<"THEN">>, <<"3", "W">>>>,
    <<<<":", "W", "DUP", "*", ";">>, <<"'", "W">>, <<"ELSE">>, <<"3", "W">>>>,
    <<<<":", "W", "UNKNOWN">>, <<"DUP", "*", ";">>, <<"3", "W">>>>,
    <<<<":", "X", "LITERAL", ";">>, <<";">>, <<"X", ".">>>>,
    <<<<"VARIABLE", "V">>, <<"7", "V", "!">>, <<"V", "@", "5", "STATE", "!">>, <<"1">>>>,
    <<<<":", "X", "3", "0", "DO", "I", "UNLOOP", "EXIT", "LOOP", ";">>, <<"X", "X", "+">>>>,
    <<<<":", "X", "3", "0", "DO", "1", "0", "/", "LOOP", ";">>, <<"X">>, <<"X", "1">>>>,
    <<<<":", "X", "1", "IF", "DROP", "DROP", "THEN", ";">>, <<"5", "X">>, <<"1", "X">>>>,
    <<<<":", "X", "VARIABLE", "V", "2", ";">>, <<"7", "V", "!", "V", "@">>, <<"X">>>>,
    <<<<":", "X", "UNLOOP", ";">>, <<"5", "X">>, <<".">>>>,
    <<<<"1", "2">>, <<"+", "DROP", "DROP">>, <<"1", "UNKNOWN">>, <<".">>>>
    }
MCSessions == [1 .. 2 -> MCLines] \cup LongSessions
=============================================================================
