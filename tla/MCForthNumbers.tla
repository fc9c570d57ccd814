--------------------------- MODULE MCForthNumbers ---------------------------
(***************************************************************************)
(* Tokens of up to three digits, signs and letters; ints of five bits in   *)
(* cells of six, so that two digits, signed or not, reach past both.       *)
(***************************************************************************)
EXTENDS ForthNumbers

MCChars == Digit \cup {MINUS, 88}
=============================================================================
