---------------------------- MODULE MCForthLayout ----------------------------
(***************************************************************************)
(* Cells of four bytes and names of seven characters.  The names are short, *)
(* as long as the limit, longer, and as long as can be read back; some     *)
(* differ behind the limit only.  The texts are empty, and end before, at  *)
(* and behind the end of a cell.                                           *)
(***************************************************************************)
EXTENDS ForthLayout

MCNames == {<<97>>, <<97, 98, 99, 100, 101, 102, 103>>,
            <<97, 98, 99, 100, 101, 102, 103, 104>>,
            <<97, 98, 99, 100, 101, 102, 103, 105, 106, 107>>}
MCTexts == {<<>>, <<65, 66, 67, 68>>, <<65, 66, 67, 68, 69>>}
=============================================================================
