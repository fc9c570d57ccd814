----------------------------- MODULE MCForthVM -----------------------------
(***************************************************************************)
(* Every program of two cells over all opcodes (the holes of the table     *)
(* included), a few addresses and operands, followed by RET, on stacks of  *)
(* three and two cells that the host loads with arguments.                 *)
(***************************************************************************)
EXTENDS ForthVMHost, Bitwise

MCXor(a, b) == a ^^ b

MCRam == 34 .. 37
MCRom == [a \in {} |-> 0]

\* Operands: the C function 40, a program address, a stack cell, a wild one.
Operands == {34, 40, 46, 60}
MCImages ==
    {[a \in MCRam |-> CASE a = 34 -> x [] a = 35 -> y [] OTHER -> Op.RET] :
        x, y \in (0 .. 30) \cup Operands}
=============================================================================
