--------------------------- MODULE MCForthTokens ---------------------------
(***************************************************************************)
(* All lines of up to six characters, which fill a buffer of seven, that    *)
(* spell words, comments and texts, typed with corrections at their end    *)
(* and with mistyped escapes, which get_string takes for errors, in them.  *)
(***************************************************************************)
EXTENDS ForthTokens

MCText == {Blank, "(", ")", ".", "\""}
MCControl == {"newline", "return", "ctrl-c", "backspace", "escape"}
\* No key of an escape sequence: both keys after the escape are wrong.
MCEscapeKeys == {"x"}
=============================================================================
