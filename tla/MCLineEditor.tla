---------------------------- MODULE MCLineEditor ----------------------------
(***************************************************************************)
(* All key sequences on a buffer of six characters, which two kinds of     *)
(* text character can fill and overrun; "~" is also the end of an escape.  *)
(***************************************************************************)
EXTENDS LineEditor

MCText == {"a", "b", "~"}
MCEscapeKeys == {"[", "D", "C", "3", "~"}
MCControl == {"newline", "return", "ctrl-c", "backspace", "escape"}
=============================================================================
